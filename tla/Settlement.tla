----------------------------- MODULE Settlement -----------------------------
(***************************************************************************)
(* The settlement engine: the Kafka consumer loop of                       *)
(* settlement-engine/consumer.py, the state machine of settler.py that it  *)
(* drives, the rows both keep in PostgreSQL, and the blockchain behind the *)
(* ChainAdapter interface.                                                 *)
(*                                                                         *)
(* PostgreSQL.  The variables under "database" hold COMMITTED rows only.   *)
(* What a worker has written but not committed is implied by its pc, so a  *)
(* rollback (a crash, an exception that reaches the consumer loop) is just *)
(* the loss of the pc.  A worker whose pc is in TxOpen holds the unique    *)
(* index entry of its processed_events row: another worker that inserts    *)
(* the same key waits.                                                     *)
(*                                                                         *)
(* Kafka delivers at least once: a record may be handed to a worker again  *)
(* after it was acknowledged (the outbox published it twice), while another*)
(* worker still executes it (a rebalance), and after a crash.              *)
(*                                                                         *)
(* One settlement.instruction.created event exists per instruction (the    *)
(* netting engine inserts one outbox row per row it inserts into           *)
(* settlement_instructions), so an instruction stands for its event_id.    *)
(***************************************************************************)
EXTENDS Naturals, Sequences

CONSTANTS
    Instructions,   \* rows of settlement_instructions, with their events
    Workers,        \* instances of the service in the consumer group
    Rows            \* the immutable columns a row may have

(***************************************************************************)
(* type: settlement_type ("physical" is handled as "dvp").                 *)
(* chain: chain_id is NULL, names no registered adapter, or names one.  The*)
(* netting engine leaves it NULL (Netting!InstructionFor); the column and  *)
(* this engine take all three.                                             *)
(* positive: amount > 0.                                                   *)
(* accounts: both members have a SETTLEMENT/AVAILABLE account.             *)
(***************************************************************************)
RowType == [type : {"cash", "dvp"},
            chain : {"null", "unknown", "registered"},
            positive : BOOLEAN,
            accounts : BOOLEAN]

ASSUME RowsAssumption == Rows \subseteq RowType

VARIABLES
    row,        \* row[i]: the columns of i that settlement never changes
    \* --- database (committed) ---
    status,     \* status[i]: settlement_instructions.status
    audit,      \* audit[i]: state_transitions rows <<from, to>> of i: the
                \* rows of each transaction a set, the transactions in the
                \* order of their transitioned_at
    posted,     \* posted[i]: journals with reference_id = i
    announced,  \* announced[i]: outbox events of i, by topic
    processed,  \* processed_events of service "settlement-engine"
    \* --- Kafka ---
    acked,      \* acked[i]: the offset of i's record was committed
    \* --- blockchain ---
    chain,      \* chain[i]: fate of the last transaction sent for i
    submits,    \* submits[i]: transactions the chain accepted for i
    \* --- workers ---
    pc,         \* pc[w]: where the worker is
    job         \* job[w]: the instruction it works on

database == <<status, audit, posted, announced, processed>>
chainVars == <<chain, submits>>
vars == <<row, database, acked, chainVars, pc, job>>

-----------------------------------------------------------------------------
Statuses == {"pending", "approved", "signed", "broadcasted", "confirmed",
             "failed", "cancelled"}

VALID_TRANSITIONS ==
    [s \in Statuses |->
        CASE s = "pending"     -> {"approved", "failed", "cancelled"}
          [] s = "approved"    -> {"signed", "failed"}
          [] s = "signed"      -> {"broadcasted", "failed"}
          [] s = "broadcasted" -> {"confirmed", "failed"}
          [] OTHER             -> {}]

Terminal == {"confirmed", "failed", "cancelled"}

(***************************************************************************)
(* "mined": the adapter reports CONFIRMED with fewer confirmations than    *)
(* get_required_confirmations().  "final": at least as many.  "reverted":  *)
(* FAILED.                                                                 *)
(***************************************************************************)
ChainStates == {"none", "pending", "mined", "final", "reverted"}

(***************************************************************************)
(* "polled": a record is at hand, its event not yet looked up.  "begun":   *)
(* the processed_events row is inserted.  "selected": the SELECT found the *)
(* instruction pending.  "approved", "signed", "broadcasted": the commit   *)
(* of that status is done.  "submitted": the chain took the transaction,   *)
(* the database does not know.  "ack": only the offset is left to commit.  *)
(***************************************************************************)
TxOpen == {"begun", "selected"}
OnChainSteps == {"approved", "signed", "submitted", "broadcasted"}
Executing == TxOpen \cup OnChainSteps
PCs == {"idle", "polled", "ack"} \cup Executing

TypeOK ==
    /\ row \in [Instructions -> Rows]
    /\ status \in [Instructions -> Statuses]
    /\ audit \in [Instructions -> Seq(SUBSET (Statuses \X Statuses))]
    /\ posted \in [Instructions -> Nat]
    /\ announced \in
         [Instructions -> Seq({"settlement.completed", "settlement.failed"})]
    /\ processed \subseteq Instructions
    /\ acked \in [Instructions -> BOOLEAN]
    /\ chain \in [Instructions -> ChainStates]
    /\ submits \in [Instructions -> Nat]
    /\ pc \in [Workers -> PCs]
    /\ job \in [Workers -> Instructions]

Init ==
    /\ row \in [Instructions -> Rows]
    /\ status = [i \in Instructions |-> "pending"]
    /\ audit = [i \in Instructions |-> <<>>]
    /\ posted = [i \in Instructions |-> 0]
    /\ announced = [i \in Instructions |-> <<>>]
    /\ processed = {}
    /\ acked = [i \in Instructions |-> FALSE]
    /\ chain = [i \in Instructions |-> "none"]
    /\ submits = [i \in Instructions |-> 0]
    /\ pc = [w \in Workers |-> "idle"]
    /\ job \in [Workers -> Instructions]

-----------------------------------------------------------------------------
(* Helpers of settler.py.                                                  *)

Goto(w, label) == pc' = [pc EXCEPT ![w] = label]

(* _record_transition.  transitioned_at has DEFAULT now(), the START of the*)
(* transaction: the rows of one transaction carry the same time, and no    *)
(* other column tells their order.                                         *)
Record(i, rows) == audit' = [audit EXCEPT ![i] = Append(@, rows)]

(* advance_status: validated, then the column and the audit row. *)
advance_status(i, from, to) ==
    /\ to \in VALID_TRANSITIONS[from]
    /\ status' = [status EXCEPT ![i] = to]
    /\ Record(i, {<<from, to>>})

emit_settlement_event(i, topic) ==
    announced' = [announced EXCEPT ![i] = Append(@, topic)]

(* fail_instruction: the from_status it records is the caller's word. *)
FailSilently(i, from) ==            \* mutant: no settlement.failed event
    /\ status' = [status EXCEPT ![i] = "failed"]
    /\ Record(i, {<<from, "failed">>})
    /\ UNCHANGED announced

fail_instruction(i, from) ==
    /\ status' = [status EXCEPT ![i] = "failed"]
    /\ Record(i, {<<from, "failed">>})
    /\ emit_settlement_event(i, "settlement.failed")

(* The journal with its two entries: debit the payee, credit the payer. *)
PostJournal(i, n) == posted' = [posted EXCEPT ![i] = @ + n]

MarkProcessed(i) == processed' = processed \cup {i}

-----------------------------------------------------------------------------
(* The consumer loop, up to the branch on the settlement type.             *)

(* consumer.poll returns the record of i (again, perhaps). *)
Poll(w, i) ==
    /\ pc[w] = "idle"
    /\ Goto(w, "polled")
    /\ job' = [job EXCEPT ![w] = i]
    /\ UNCHANGED <<row, database, acked, chainVars>>

(* process_if_new finds the event's row: commit, and acknowledge. *)
SkipDuplicate(w) ==
    /\ pc[w] = "polled"
    /\ job[w] \in processed
    /\ Goto(w, "ack")
    /\ UNCHANGED <<row, database, acked, chainVars, job>>

(* process_if_new inserts the row, once no open transaction holds its key. *)
InsertMarkerWithoutKey(w) ==        \* mutant: no unique key to wait for
    /\ pc[w] = "polled"
    /\ job[w] \notin processed
    /\ Goto(w, "begun")
    /\ UNCHANGED <<row, database, acked, chainVars, job>>

InsertMarker(w) ==
    /\ pc[w] = "polled"
    /\ job[w] \notin processed
    /\ \A v \in Workers : ~(pc[v] \in TxOpen /\ job[v] = job[w])
    /\ Goto(w, "begun")
    /\ UNCHANGED <<row, database, acked, chainVars, job>>

(* settle_instruction: SELECT ... WHERE id = ... AND status = 'pending'.   *)
(* It always finds the row: an instruction leaves "pending" in the commit  *)
(* that makes its marker durable, so a worker that could insert the marker *)
(* sees it pending (WorkerInv and RowInv); "skipped" is never returned.    *)
SelectPending(w) ==
    /\ pc[w] = "begun"
    /\ status[job[w]] = "pending"
    /\ Goto(w, "selected")
    /\ UNCHANGED <<row, database, acked, chainVars, job>>

(* consumer.commit(message=msg). *)
Ack(w) ==
    /\ pc[w] = "ack"
    /\ acked' = [acked EXCEPT ![job[w]] = TRUE]
    /\ Goto(w, "idle")
    /\ UNCHANGED <<row, database, chainVars, job>>

-----------------------------------------------------------------------------
(* _settle_cash: one transaction, committed by the consumer loop.          *)

SettleCash(w) ==
    LET i == job[w] IN
    /\ pc[w] = "selected"
    /\ row[i].type = "cash"
    /\ row[i].accounts
    /\ status' = [status EXCEPT ![i] = "confirmed"]
    /\ Record(i, {<<"pending", "approved">>, <<"approved", "signed">>,
                  <<"signed", "broadcasted">>, <<"broadcasted", "confirmed">>})
    /\ PostJournal(i, IF row[i].positive THEN 1 ELSE 0)
    /\ emit_settlement_event(i, "settlement.completed")
    /\ MarkProcessed(i)
    /\ Goto(w, "ack")
    /\ UNCHANGED <<row, acked, chainVars, job>>

(* Cash without settlement accounts, DVP without a chain_id. *)
RejectCashOnly(w) ==                \* mutant: DVP without chain_id forgotten
    /\ pc[w] = "selected"
    /\ row[job[w]].type = "cash" /\ ~row[job[w]].accounts
    /\ fail_instruction(job[w], "pending")
    /\ MarkProcessed(job[w])
    /\ Goto(w, "ack")
    /\ UNCHANGED <<row, posted, acked, chainVars, job>>

RejectPending(w) ==
    LET i == job[w] IN
    /\ pc[w] = "selected"
    /\ \/ row[i].type = "cash" /\ ~row[i].accounts
       \/ row[i].type = "dvp" /\ row[i].chain = "null"
    /\ fail_instruction(i, "pending")
    /\ MarkProcessed(i)
    /\ Goto(w, "ack")
    /\ UNCHANGED <<row, posted, acked, chainVars, job>>

-----------------------------------------------------------------------------
(* _settle_dvp: a commit after every step that leaves the process.         *)

(* chain_registry.get raises KeyError before the try: everything rolls     *)
(* back, the consumer loop logs the exception and acknowledges.            *)
UnknownChain(w) ==
    /\ pc[w] = "selected"
    /\ row[job[w]].type = "dvp"
    /\ row[job[w]].chain = "unknown"
    /\ Goto(w, "ack")
    /\ UNCHANGED <<row, database, acked, chainVars, job>>

(* This commit is also the one that makes the event's marker durable. *)
Approve(w) ==
    LET i == job[w] IN
    /\ pc[w] = "selected"
    /\ row[i].type = "dvp"
    /\ row[i].chain = "registered"
    /\ advance_status(i, "pending", "approved")
    /\ MarkProcessed(i)
    /\ Goto(w, "approved")
    /\ UNCHANGED <<row, posted, announced, acked, chainVars, job>>

(* build_dvp_tx and signing_client.sign answered. *)
Sign(w) ==
    /\ pc[w] = "approved"
    /\ advance_status(job[w], "approved", "signed")
    /\ Goto(w, "signed")
    /\ UNCHANGED <<row, posted, announced, processed, acked, chainVars, job>>

(* adapter.submit_signed_tx: the transaction reaches the chain. *)
Accept(i) ==
    /\ chain' = [chain EXCEPT ![i] = "pending"]
    /\ submits' = [submits EXCEPT ![i] = @ + 1]

Submit(w) ==
    /\ pc[w] = "signed"
    /\ Accept(job[w])
    /\ Goto(w, "submitted")
    /\ UNCHANGED <<row, database, acked, job>>

RecordBroadcast(w) ==
    /\ pc[w] = "submitted"
    /\ advance_status(job[w], "signed", "broadcasted")
    /\ Goto(w, "broadcasted")
    /\ UNCHANGED <<row, posted, announced, processed, acked, chainVars, job>>

(***************************************************************************)
(* _poll_confirmations and what follows it.  The loop leaves early on      *)
(* enough confirmations or on FAILED; after MAX_CONFIRMATION_POLLS it      *)
(* returns whatever the adapter says, so a transaction that is CONFIRMED   *)
(* with too few confirmations is finalized and one still PENDING is failed.*)
(***************************************************************************)
NotReverted(i) == chain[i] # "reverted"     \* mutant: PENDING is enough
ReportedConfirmed(i) == chain[i] \in {"mined", "final"}

(* _finalize_dvp; without both accounts it confirms and posts nothing. *)
FinalizeDvp(w) ==
    LET i == job[w] IN
    /\ pc[w] = "broadcasted"
    /\ ReportedConfirmed(i)
    /\ row[i].accounts => row[i].positive
    /\ PostJournal(i, IF row[i].accounts THEN 1 ELSE 0)
    /\ advance_status(i, "broadcasted", "confirmed")
    /\ emit_settlement_event(i, "settlement.completed")
    /\ Goto(w, "ack")
    /\ UNCHANGED <<row, processed, acked, chainVars, job>>

(* An entry of amount 0 breaks the CHECK of journal_entries; the handler's *)
(* own conn.autocommit = False then raises (the transaction is in error),  *)
(* so nothing marks the instruction failed.                                *)
FinalizeZeroAmount(w) ==
    LET i == job[w] IN
    /\ pc[w] = "broadcasted"
    /\ ReportedConfirmed(i)
    /\ row[i].accounts /\ ~row[i].positive
    /\ Goto(w, "ack")
    /\ UNCHANGED <<row, database, acked, chainVars, job>>

GiveUp(w) ==
    /\ pc[w] = "broadcasted"
    /\ ~ReportedConfirmed(job[w])
    /\ fail_instruction(job[w], "broadcasted")
    /\ Goto(w, "ack")
    /\ UNCHANGED <<row, posted, processed, acked, chainVars, job>>

(***************************************************************************)
(* An exception inside the try of _settle_dvp while no transaction is      *)
(* open: build or sign (approved), submit (signed, and then the chain may  *)
(* have taken the transaction all the same), polling (broadcasted).  The   *)
(* handler fails the instruction and always records "approved" as its      *)
(* previous status.                                                        *)
(***************************************************************************)
ExceptionStatus == "approved"

DvpException(w) ==
    /\ pc[w] \in {"approved", "signed", "broadcasted"}
    /\ \/ UNCHANGED chainVars
       \/ pc[w] = "signed" /\ Accept(job[w])
    /\ fail_instruction(job[w], ExceptionStatus)
    /\ Goto(w, "ack")
    /\ UNCHANGED <<row, posted, processed, acked, job>>

-----------------------------------------------------------------------------
(* Faults.                                                                 *)

(* A statement or a commit fails.  The transaction is lost, the exception  *)
(* reaches consume_loop, which logs it and acknowledges the record.        *)
DbError(w) ==
    /\ pc[w] \in Executing \cup {"polled"}
    /\ Goto(w, "ack")
    /\ UNCHANGED <<row, database, acked, chainVars, job>>

(* The process dies; the offset is not committed. *)
Crash(w) ==
    /\ pc[w] # "idle"
    /\ Goto(w, "idle")
    /\ UNCHANGED <<row, database, acked, chainVars, job>>

-----------------------------------------------------------------------------
(* The blockchain, as ChainAdapter.get_tx_status reports it.               *)

ChainStep(i) ==
    /\ \/ /\ chain[i] = "pending"
          /\ chain' = [chain EXCEPT ![i] = "mined"]
       \/ /\ chain[i] = "mined"
          /\ chain' = [chain EXCEPT ![i] = "final"]
       \/ /\ chain[i] \in {"pending", "mined"}
          /\ chain' = [chain EXCEPT ![i] = "reverted"]
    /\ UNCHANGED <<row, database, acked, submits, pc, job>>

-----------------------------------------------------------------------------
Settle(w) ==
    \/ SkipDuplicate(w) \/ InsertMarker(w) \/ SelectPending(w)
    \/ SettleCash(w) \/ RejectPending(w)
    \/ UnknownChain(w) \/ Approve(w) \/ Sign(w) \/ Submit(w)
    \/ RecordBroadcast(w)
    \/ FinalizeDvp(w) \/ FinalizeZeroAmount(w) \/ GiveUp(w)
    \/ DvpException(w)
    \/ Ack(w)

Fault(w) == DbError(w) \/ Crash(w)

Next ==
    \/ \E w \in Workers : Settle(w) \/ Fault(w)
    \/ \E w \in Workers, i \in Instructions : Poll(w, i)
    \/ \E i \in Instructions : ChainStep(i)

Spec == Init /\ [][Next]_vars

(***************************************************************************)
(* Fairness for the liveness runs.  A worker that holds a record runs on;  *)
(* an unacknowledged record is polled by somebody in the end (its offset   *)
(* is behind the committed one, and partitions are read in order, so       *)
(* duplicates of others cannot overtake it for ever: strong fairness); a   *)
(* transaction in the mempool is mined or dropped in the end.              *)
(***************************************************************************)
Fairness ==
    /\ \A w \in Workers : WF_vars(Settle(w))
    /\ \A i \in Instructions :
         /\ SF_vars(~acked[i] /\ \E w \in Workers : Poll(w, i))
         /\ WF_vars(ChainStep(i))

NextWithoutFaults ==
    \/ \E w \in Workers : Settle(w)
    \/ \E w \in Workers, i \in Instructions : Poll(w, i)
    \/ \E i \in Instructions : ChainStep(i)

FairSpec == Spec /\ Fairness
FaultFreeSpec == Init /\ [][NextWithoutFaults]_vars /\ Fairness

-----------------------------------------------------------------------------
(* Properties.                                                             *)

(* The journals a settled instruction owes: one if money moves between two *)
(* existing accounts (_settle_cash 154, _finalize_dvp 303), else none.     *)
Due(i) == IF row[i].accounts /\ row[i].positive THEN 1 ELSE 0

(* However often a record is delivered and wherever a worker dies, the     *)
(* journal of an instruction exists exactly when the instruction is        *)
(* confirmed, and exists once (settler.py: the journal, the status and the *)
(* marker of the event share one commit).                                  *)
LedgerFollowsStatus ==
    \A i \in Instructions :
        posted[i] = IF status[i] = "confirmed" THEN Due(i) ELSE 0

(* Cash moves for a DVP instruction only if its one transaction had been   *)
(* included in a block (_finalize_dvp runs after _poll_confirmations).     *)
PaymentAgainstDelivery ==
    \A i \in Instructions :
        row[i].type = "dvp" /\ status[i] = "confirmed" =>
            submits[i] = 1 /\ chain[i] \in {"mined", "final", "reverted"}

(* No redelivery makes the engine send a second transaction for the same   *)
(* instruction (submit_signed_tx is not idempotent on a real chain).       *)
SubmittedOnce == \A i \in Instructions : submits[i] <= 1

(* Two workers never execute the same instruction at the same time, though *)
(* settle_instruction takes no row lock: the uncommitted processed_events  *)
(* row, then the committed one, keeps the second worker out.               *)
SoleExecutor ==
    \A v, w \in Workers :
        pc[v] \in Executing /\ pc[w] \in Executing /\ job[v] = job[w] => v = w

(* The rows of i, the statuses they say it entered, and what the view      *)
(* current_entity_status may show of it: a row of the latest time, whichever*)
(* of them DISTINCT ON comes upon first.                                   *)
Trail(i) == UNION {audit[i][n] : n \in DOMAIN audit[i]}
Entered(i) == {"pending"} \cup {r[2] : r \in Trail(i)}
current_entity_status(i) ==
    IF audit[i] = <<>> THEN {} ELSE {r[2] : r \in audit[i][Len(audit[i])]}

EntersOnce(i) ==
    \A m, n \in DOMAIN audit[i] :
        \A r \in audit[i][m], q \in audit[i][n] :
            r[2] = q[2] => m = n /\ r = q
RowsAreLegal(i) ==
    \A r \in Trail(i) :
        r[1] \in Entered(i) /\ r[2] \in VALID_TRANSITIONS[r[1]]

(* The audit trail tells the status without the column and without an order*)
(* among the rows of a transaction: each status is entered once, however   *)
(* many workers and redeliveries there were, by a legal transition from a  *)
(* status entered as well (the failed row too, although _fail_instruction  *)
(* records its caller's word); the one entered status that no entered one  *)
(* follows is the current one; and the view shows it, except of a cash     *)
(* instruction, whose four rows have one time (settler.py:149-184).        *)
AuditTellsStatus ==
    \A i \in Instructions :
        /\ EntersOnce(i)
        /\ RowsAreLegal(i)
        /\ {s \in Entered(i) : VALID_TRANSITIONS[s] \cap Entered(i) = {}}
             = {status[i]}
        /\ row[i].type = "dvp" \/ status[i] = "failed" =>
             current_entity_status(i) \subseteq {status[i]}

(* A commit moves an instruction forward along VALID_TRANSITIONS (cash     *)
(* takes four transitions in one commit) and never out of a terminal       *)
(* status, although fail_instruction validates nothing.                    *)
Leads(s, t) ==
    \/ t \in VALID_TRANSITIONS[s]
    \/ \E u \in VALID_TRANSITIONS[s] :
         \/ t \in VALID_TRANSITIONS[u]
         \/ \E v \in VALID_TRANSITIONS[u] :
              \/ t \in VALID_TRANSITIONS[v]
              \/ \E x \in VALID_TRANSITIONS[v] : t \in VALID_TRANSITIONS[x]

FollowsLifecycle ==
    [][\A i \in Instructions :
         status'[i] # status[i] => Leads(status[i], status'[i])]_vars

(* The engine implements the promise of SettlementOutcome.                 *)
Outcome(i) ==
    CASE status[i] = "confirmed" -> "settled"
      [] status[i] \in {"failed", "cancelled"} -> "failed"
      [] OTHER -> "open"

Promise == INSTANCE SettlementOutcome WITH
             due <- [i \in Instructions |-> Due(i)],
             outcome <- [i \in Instructions |-> Outcome(i)],
             paid <- posted,
             news <- announced

KeepsPromise == Promise!Spec

(* As long as no process dies and no statement fails, every instruction    *)
(* gets its outcome, except the two kinds that make the code raise outside *)
(* its own error handling: an unregistered chain (settler.py:215) and a    *)
(* zero-amount DVP journal (settler.py:303-326 with 281).                  *)
Raises(i) ==
    /\ row[i].type = "dvp"
    /\ \/ row[i].chain = "unknown"
       \/ row[i].chain = "registered" /\ row[i].accounts /\ ~row[i].positive

EventuallyDecided ==
    \A i \in Instructions :
        ~Raises(i) ~> status[i] \in Terminal

-----------------------------------------------------------------------------
(* The inductive invariant behind the safety properties.                   *)

(* What the place a worker has reached says of its instruction. *)
WorkerInv(w) ==
    LET i == job[w] IN
    /\ pc[w] \in TxOpen => i \notin processed
    /\ pc[w] = "selected" => status[i] = "pending"
    /\ pc[w] \in OnChainSteps => i \in processed /\ row[i].type = "dvp"
    /\ pc[w] = "approved" => status[i] = "approved" /\ submits[i] = 0
    /\ pc[w] = "signed" => status[i] = "signed" /\ submits[i] = 0
    /\ pc[w] = "submitted" => status[i] = "signed" /\ submits[i] = 1
    /\ pc[w] = "broadcasted" => status[i] = "broadcasted" /\ submits[i] = 1

(* What the committed rows of one instruction say of each other. *)
RowInv(i) ==
    /\ status[i] # "cancelled"
    /\ status[i] # "pending" => i \in processed
    /\ status[i] = "pending" => submits[i] = 0
    /\ submits[i] <= 1
    /\ submits[i] = 0 => chain[i] = "none"
    /\ submits[i] = 1 => chain[i] # "none"
    /\ row[i].type = "dvp" /\ status[i] = "confirmed" =>
         submits[i] = 1 /\ chain[i] # "pending"
    /\ posted[i] = IF status[i] = "confirmed" THEN Due(i) ELSE 0
    /\ announced[i] = CASE status[i] = "confirmed" ->
                              <<"settlement.completed">>
                        [] status[i] = "failed" -> <<"settlement.failed">>
                        [] OTHER -> <<>>

(* What the trail of an instruction holds at each status: the statuses of  *)
(* the way there; a failure leaves the way after any of its steps.         *)
Way(s) ==
    CASE s = "pending"     -> {"pending"}
      [] s = "approved"    -> {"pending", "approved"}
      [] s = "signed"      -> {"pending", "approved", "signed"}
      [] s = "broadcasted" -> {"pending", "approved", "signed", "broadcasted"}
      [] OTHER -> {"pending", "approved", "signed", "broadcasted", s}

AuditInv(i) ==
    /\ EntersOnce(i)
    /\ RowsAreLegal(i)
    /\ status[i] # "failed" => Entered(i) = Way(status[i])
    /\ status[i] = "failed" =>
         \E s \in {"pending", "approved", "signed", "broadcasted"} :
            Entered(i) = Way(s) \cup {"failed"}
    /\ row[i].type = "dvp" \/ status[i] = "failed" =>
         current_entity_status(i) \subseteq {status[i]}

AuditIsKept == \A i \in Instructions : AuditInv(i)

IInv ==
    /\ TypeOK
    /\ SoleExecutor
    /\ \A w \in Workers : WorkerInv(w)
    /\ \A i \in Instructions : RowInv(i)

-----------------------------------------------------------------------------
(* Statements of the documentation that the code does not keep; each is in *)
(* a configuration under which TLC refutes it.                             *)

(* base.py:39: a DVP instruction is "delivery-versus-payment ... for atomic*)
(* settlement": an instruction whose transaction is final on the chain is  *)
(* not failed in the books.                                                *)
DeliveredIsNotFailed ==
    \A i \in Instructions : ~(status[i] = "failed" /\ chain[i] = "final")

(* README.md:320: failed messages are retried, then dead-lettered; the     *)
(* settlement consumer has no retry and writes no dead letter, so a record *)
(* it acknowledges must have led to an outcome.                            *)
AcknowledgedIsDecided ==
    \A i \in Instructions : acked[i] => status[i] \in Terminal

(* Migration 010 names it current_entity_status, with the column           *)
(* current_status: the view shows the status an instruction is in.         *)
ViewShowsStatus ==
    \A i \in Instructions : current_entity_status(i) \subseteq {status[i]}

(* README.md:567: from_state is the "Previous state".  An instruction is in*)
(* a status once, so no two rows name the same previous one.               *)
RecordedFromIsTrue ==
    \A i \in Instructions : \A r, q \in Trail(i) : r[1] = q[1] => r = q

(* README.md:313, 632: a settlement that stopped on the way is recoverable:*)
(* every instruction whose record is delivered gets an outcome in the end. *)
Recoverable ==
    \A i \in Instructions : status[i] = "approved" ~> status[i] \in Terminal
=============================================================================
