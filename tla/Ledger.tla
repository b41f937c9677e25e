------------------------------- MODULE Ledger -------------------------------
(***************************************************************************)
(* The double-entry ledger and those who check it.                         *)
(*                                                                         *)
(* A service inserts a journal and its entries in one transaction; the     *)
(* tables refuse single entries by CHECK constraints (migration 004), whole*)
(* journals by a constraint trigger deferred to the commit (014), and      *)
(* every UPDATE or DELETE (013), so a committed journal stays as it is.    *)
(* The view account_balances (015) is what services and reports read.      *)
(*                                                                         *)
(* A reconciliation (reconciler.py, and the same code in the API gateway)  *)
(* is four SELECTs in one READ COMMITTED transaction: each sees what is    *)
(* committed when it starts, and journals are committed in between.  The   *)
(* handlers run in a thread pool, so several reconciliations overlap; the  *)
(* engine keeps the report of the last one to end in _last_report.         *)
(***************************************************************************)
EXTENDS Integers, FiniteSets, Functions

CONSTANTS
    Accounts,
    Journals,       \* journals that are ever written, by a transaction each
    Requests,       \* calls of POST /reconcile
    ThroughGateway, \* those to the API gateway, which keeps no report
    Drafts          \* what a transaction may try to write

EntryType == [account : Accounts, debit : Int, credit : Int]
Statuses == {"pending", "confirmed", "rejected"}

ASSUME LedgerAssumption ==
    /\ IsFiniteSet(Journals) /\ IsFiniteSet(Accounts)
    /\ ThroughGateway \subseteq Requests
    /\ \A d \in Drafts : /\ d.status \in Statuses
                         /\ IsFiniteSet(d.entries)
                         /\ d.entries \subseteq EntryType

VARIABLES
    state,          \* state[j]: "none", "open", "committed" or "undone"
    journal,        \* journal[j]: its rows, once they are inserted
    pc,             \* pc[r]: how far the request is
    global_ok, journal_ok,      \* the two verdicts of r
    recomputed,     \* recomputed[r]: what its third SELECT returned
    report,         \* report[r]: the accounts it lists as mismatches
    last,           \* _last_report: the request it comes from, or none
    \* --- history, read by properties only ---
    seen,           \* seen[r]: journals committed when it recomputed
    viewed,         \* viewed[r]: journals committed when it read the view
    recent          \* the request to the engine that recomputed last

ledger == <<state, journal>>
findings == <<global_ok, journal_ok, recomputed, report, seen, viewed>>
vars == <<ledger, pc, findings, last, recent>>

NoRequest == "none"
Committed == {j \in Journals : state[j] = "committed"}

PCs == {"idle", "global", "journals", "recompute", "view", "report", "done"}

TypeOK ==
    /\ state \in [Journals -> {"none", "open", "committed", "undone"}]
    /\ journal \in [Journals -> Drafts]
    /\ pc \in [Requests -> PCs]
    /\ global_ok \in [Requests -> BOOLEAN]
    /\ journal_ok \in [Requests -> BOOLEAN]
    /\ DOMAIN recomputed = Requests
    /\ \A r \in Requests : /\ DOMAIN recomputed[r] \subseteq Accounts
                           /\ \A a \in DOMAIN recomputed[r] :
                                recomputed[r][a] \in Int
    /\ report \in [Requests -> SUBSET Accounts]
    /\ last \in Requests \cup {NoRequest}
    /\ seen \in [Requests -> SUBSET Journals]
    /\ viewed \in [Requests -> SUBSET Journals]
    /\ recent \in Requests \cup {NoRequest}

Init ==
    /\ state = [j \in Journals |-> "none"]
    /\ journal \in [Journals -> Drafts]
    /\ pc = [r \in Requests |-> "idle"]
    /\ global_ok = [r \in Requests |-> TRUE]
    /\ journal_ok = [r \in Requests |-> TRUE]
    /\ recomputed = [r \in Requests |-> <<>>]
    /\ report = [r \in Requests |-> {}]
    /\ last = NoRequest
    /\ seen = [r \in Requests |-> {}]
    /\ viewed = [r \in Requests |-> {}]
    /\ recent = NoRequest

-----------------------------------------------------------------------------
(* Sums over entries.                                                      *)

Rows(S) == UNION {{j} \X journal[j].entries : j \in S}
Debits(S) == SumFunction([row \in Rows(S) |-> row[2].debit])
Credits(S) == SumFunction([row \in Rows(S) |-> row[2].credit])

RowsOn(a, S) == {row \in Rows(S) : row[2].account = a}
Balance(a, S) ==
    SumFunction([row \in RowsOn(a, S) |-> row[2].debit - row[2].credit])

-----------------------------------------------------------------------------
(* The services' transactions.                                             *)

(* Migration 004: an entry is either a debit or a credit, and positive. *)
OneSided(e) ==
    /\ e.debit >= 0 /\ e.credit >= 0
    /\ \/ e.debit > 0 /\ e.credit = 0
       \/ e.debit = 0 /\ e.credit > 0

Insert(j) ==
    /\ state[j] = "none"
    /\ \A e \in journal[j].entries : OneSided(e)
    /\ state' = [state EXCEPT ![j] = "open"]
    /\ UNCHANGED <<journal, pc, findings, last, recent>>

(* validate_journal_balance, for every inserted row, at the commit. *)
NoTrigger(j) == TRUE            \* mutant: migration 014 is not applied
ValidateJournalBalance(j) == Debits({j}) = Credits({j})

Commit(j) ==
    /\ state[j] = "open"
    /\ ValidateJournalBalance(j)
    /\ state' = [state EXCEPT ![j] = "committed"]
    /\ UNCHANGED <<journal, pc, findings, last, recent>>

(* A CHECK or the trigger raises, another statement of the transaction     *)
(* fails, or the service dies. *)
RollBack(j) ==
    /\ state[j] \in {"none", "open"}
    /\ state' = [state EXCEPT ![j] = "undone"]
    /\ UNCHANGED <<journal, pc, findings, last, recent>>

-----------------------------------------------------------------------------
(* run_reconciliation, one action per statement.                           *)

Confirmed == {j \in Committed : journal[j].status = "confirmed"}

Goto(r, from, to) ==
    /\ pc[r] = from
    /\ pc' = [pc EXCEPT ![r] = to]
    /\ UNCHANGED ledger

Reconcile(r) ==
    /\ Goto(r, "idle", "global")
    /\ UNCHANGED <<findings, last, recent>>

check_global_balance(r) ==
    /\ Goto(r, "global", "journals")
    /\ global_ok' = [global_ok EXCEPT ![r] =
                       Debits(Confirmed) = Credits(Confirmed)]
    /\ UNCHANGED <<journal_ok, recomputed, report, seen, viewed, last, recent>>

check_journal_integrity(r) ==
    /\ Goto(r, "journals", "recompute")
    /\ journal_ok' = [journal_ok EXCEPT ![r] =
                        \A j \in Confirmed : Debits({j}) = Credits({j})]
    /\ UNCHANGED <<global_ok, recomputed, report, seen, viewed, last, recent>>

(* One row for each account with entries in the journals asked for. *)
Recompute(r) ==
    /\ Goto(r, "recompute", "view")
    /\ recomputed' = [recomputed EXCEPT ![r] =
                        [a \in {a \in Accounts : RowsOn(a, Confirmed) # {}} |->
                            Balance(a, Confirmed)]]
    /\ seen' = [seen EXCEPT ![r] = Committed]
    /\ recent' = IF r \in ThroughGateway THEN recent ELSE r
    /\ UNCHANGED <<global_ok, journal_ok, report, viewed, last>>

(* account_balances: the status is a condition of an outer join whose      *)
(* columns are not summed, so every entry counts.                          *)
CreditNormal(a) == -Balance(a, Committed)   \* mutant: credits - debits
AccountBalance(a) == Balance(a, Committed)

ReadView(r) ==
    /\ Goto(r, "view", "report")
    /\ report' = [report EXCEPT ![r] =
                    {a \in DOMAIN recomputed[r] :
                        recomputed[r][a] # AccountBalance(a)}]
    /\ viewed' = [viewed EXCEPT ![r] = Committed]
    /\ UNCHANGED <<global_ok, journal_ok, recomputed, seen, last, recent>>

(* The handler of the engine stores what it returns. *)
Return(r) ==
    /\ r \notin ThroughGateway
    /\ Goto(r, "report", "done")
    /\ last' = r
    /\ UNCHANGED <<findings, recent>>

(* run_reconciliation of the API gateway: the same statements. *)
Answer(r) ==
    /\ r \in ThroughGateway
    /\ Goto(r, "report", "done")
    /\ UNCHANGED <<findings, last, recent>>

-----------------------------------------------------------------------------
Next ==
    \/ \E j \in Journals : Insert(j) \/ Commit(j) \/ RollBack(j)
    \/ \E r \in Requests :
          \/ Reconcile(r) \/ check_global_balance(r)
          \/ check_journal_integrity(r) \/ Recompute(r)
          \/ ReadView(r) \/ Return(r) \/ Answer(r)

Spec == Init /\ [][Next]_vars

-----------------------------------------------------------------------------
(* Properties.                                                             *)

Done == {r \in Requests : pc[r] = "done"}

(* However its statements fall between commits, no reconciliation finds the*)
(* books or a journal out of balance (reconciler.py:35-79), and the view   *)
(* sums to zero: entries appear a whole balanced journal at a time.        *)
BooksBalance ==
    /\ SumFunction([a \in Accounts |-> AccountBalance(a)]) = 0
    /\ \A r \in Done : global_ok[r] /\ journal_ok[r]

(* A report lists an account only if an entry on it is pending or rejected,*)
(* or was committed between the recomputation and the view                 *)
(* (reconciler.py:100-117): nothing else ever sets the two apart.          *)
MismatchIsExplained ==
    \A r \in Done : \A a \in report[r] :
        RowsOn(a, {j \in viewed[r] : \/ journal[j].status # "confirmed"
                                     \/ j \notin seen[r]}) # {}

-----------------------------------------------------------------------------
(* Statements of the source and its documentation that the code does not   *)
(* keep; each has a configuration under which TLC refutes it.              *)

(* README.md:255: the engine compares recomputed balances with the view:   *)
(* "Any discrepancy is flagged immediately", and nothing else is: a report *)
(* on a ledger of confirmed journals lists no account.                     *)
NoFalseAlarm ==
    \A r \in Done :
        (\A j \in Journals : journal[j].status = "confirmed") =>
            report[r] = {}

(* test_double_entry.py:319: "Pending journals should not affect account   *)
(* balances"; README.md:577: "from confirmed journal entries per account". *)
PendingIsExcluded ==
    \A a \in Accounts : AccountBalance(a) = Balance(a, Confirmed)

(* main.py:99: "Return the most recent reconciliation report." *)
LatestIsMostRecent ==
    (\A r \in Requests : pc[r] \in {"idle", "done"}) => last = recent
=============================================================================
