--------------------------- MODULE TradeIngestion ---------------------------
(***************************************************************************)
(* trade-ingestion: the handler of trades.submitted (consumer.py), which   *)
(* validates a trade and splits it into two legs against the CCP, or       *)
(* rejects it (novation.py), in one READ COMMITTED transaction.            *)
(*                                                                         *)
(* The transaction begins with the INSERT of process_if_new.  Each         *)
(* validation SELECT is a step of its own, since the liquidation engine    *)
(* may commit a default in between.  novate_trade runs inside a savepoint  *)
(* (conn.transaction() in a transaction that is already open), so that     *)
(* _reject_trade can follow its failure in the same transaction.           *)
(*                                                                         *)
(* Kafka delivers at least once: any worker may be handed any record again.*)
(* Every trade has one trades.submitted event (Gateway).  Netting sees     *)
(* this service as four actions; KeepsNovation is that relation.           *)
(***************************************************************************)
EXTENDS Naturals, FiniteSets, Sequences

CONSTANTS
    Trades,         \* submitted trades, with their events
    Workers,        \* processes of the consumer group
    Members, Instruments,
    Listed,         \* instruments that exist and are active
    WithAccounts,   \* members with MARGIN_IM accounts, AVAILABLE and LOCKED
    Deals,          \* what may have been submitted
    MaxTime,        \* bound on the clock
    MaxFaults       \* bound on failing statements and on dying processes

(* quantity: 0 stands for a quantity or a price that is not positive, which*)
(* the gateway lets pass.  marginal: the margin rounds to zero in          *)
(* NUMERIC(28, 8), which the CHECK of journal_entries refuses.             *)
DealType == [buyer : Members, seller : Members, instrument : Instruments,
             quantity : Nat, marginal : BOOLEAN]

ASSUME IngestionAssumption ==
    /\ Listed \subseteq Instruments
    /\ WithAccounts \subseteq Members
    /\ Deals \subseteq DealType
    /\ MaxTime \in Nat /\ MaxFaults \in Nat

VARIABLES
    clock,
    terms,          \* terms[t]: the deal in the row and in the event
    defaulted,      \* members whose status is no longer 'active'
    \* --- committed rows ---
    trade,          \* trade[t]: trades.status
    leg,            \* leg[l]: novated_trades.status, "none" before the row
    novated_at,     \* novated_at[l], once the row exists
    locks,          \* locks[l]: journals that lock margin for leg l
    events,         \* events[t]: outbox events about t, in order
    processed,      \* processed_events of service "trade-ingestion"
    dead,           \* trades whose record is in dead_letter_events
    \* --- Kafka ---
    acked,          \* trades whose record's offset was committed
    \* --- workers ---
    pc, job,        \* where a worker is, and with which trade
    start,          \* start[w]: now() of its transaction
    written,        \* written[w]: what its transaction wrote, in order
    faults,
    \* --- history, read by properties only ---
    gone,           \* gone[w]: members defaulted when the transaction began
    hit             \* trades that met a failing statement or commit

rows == <<trade, leg, novated_at, locks, events, processed>>
workerVars == <<pc, job, start, written, gone>>
vars == <<clock, terms, defaulted, rows, dead, acked, workerVars, faults, hit>>

Sides == {"BUY", "SELL"}
Legs == Trades \X Sides
Times == 0..MaxTime
Party(t, side) == IF side = "BUY" THEN terms[t].buyer ELSE terms[t].seller

(* "begun": process_if_new waits or runs.  "marked": its row is inserted.  *)
(* "buyer_ok", "validated": the checks passed so far.  "refused": an       *)
(* exception was caught and the trade is to be rejected.  "written": only  *)
(* the commit is left.  "failed": the callback raised, the dead letter is  *)
(* not written.  "ack": only the offset is left.                           *)
HoldsKey == {"marked", "buyer_ok", "validated", "refused", "written"}
InTransaction == HoldsKey \cup {"begun"}
PCs == InTransaction \cup {"idle", "polled", "failed", "ack"}

(* The writes of a transaction that others can tell apart. *)
Write(kind, side) == [kind |-> kind, side |-> side]
NovationWrites ==
    << Write("novated", "-"), Write("leg", "BUY"), Write("leg", "SELL"),
       Write("lock", "BUY"), Write("lock", "SELL"),
       Write("trade.novated", "-") >>
RejectionWrites == << Write("rejected", "-"), Write("trade.rejected", "-") >>
Writes == {NovationWrites[n] : n \in DOMAIN NovationWrites}
              \cup {RejectionWrites[n] : n \in DOMAIN RejectionWrites}

TypeOK ==
    /\ clock \in Times
    /\ terms \in [Trades -> Deals]
    /\ defaulted \subseteq Members
    /\ trade \in [Trades -> {"submitted", "novated", "rejected"}]
    /\ leg \in [Legs -> {"none", "open"}]
    /\ novated_at \in [Legs -> Times]
    /\ locks \in [Legs -> Nat]
    /\ events \in [Trades -> Seq({"trade.novated", "trade.rejected"})]
    /\ processed \subseteq Trades /\ dead \subseteq Trades
    /\ acked \subseteq Trades
    /\ pc \in [Workers -> PCs]
    /\ job \in [Workers -> Trades]
    /\ start \in [Workers -> Times]
    /\ written \in [Workers -> Seq(Writes)]
    /\ faults \in 0..MaxFaults
    /\ gone \in [Workers -> SUBSET Members]
    /\ hit \subseteq Trades

Init ==
    /\ clock = 0
    /\ terms \in [Trades -> Deals]
    /\ defaulted = {}
    /\ trade = [t \in Trades |-> "submitted"]
    /\ leg = [l \in Legs |-> "none"]
    /\ novated_at = [l \in Legs |-> 0]
    /\ locks = [l \in Legs |-> 0]
    /\ events = [t \in Trades |-> <<>>]
    /\ processed = {} /\ dead = {} /\ acked = {}
    /\ pc = [w \in Workers |-> "idle"]
    /\ job \in [Workers -> Trades]
    /\ start = [w \in Workers |-> 0]
    /\ written = [w \in Workers |-> <<>>]
    /\ faults = 0
    /\ gone = [w \in Workers |-> {}]
    /\ hit = {}

-----------------------------------------------------------------------------
(* The environment. *)

Tick ==
    /\ clock < MaxTime
    /\ clock' = clock + 1
    /\ UNCHANGED <<terms, defaulted, rows, dead, acked, workerVars, faults,
                   hit>>

(* execute_waterfall commits: the only writer of members.status. *)
Default(m) ==
    /\ m \notin defaulted
    /\ defaulted' = defaulted \cup {m}
    /\ UNCHANGED <<clock, terms, rows, dead, acked, workerVars, faults, hit>>

-----------------------------------------------------------------------------
(* The poll loop around the handler.                                       *)

(* What a worker's place becomes; every transaction it had open is over.   *)
Leave(w, label) ==
    /\ pc' = [pc EXCEPT ![w] = label]
    /\ start' = [start EXCEPT ![w] = 0]
    /\ written' = [written EXCEPT ![w] = <<>>]
    /\ gone' = [gone EXCEPT ![w] = {}]
    /\ UNCHANGED job

Goto(w, label) ==
    /\ pc' = [pc EXCEPT ![w] = label]
    /\ UNCHANGED <<job, start, gone>>

Poll(w, t) ==
    /\ pc[w] = "idle"
    /\ pc' = [pc EXCEPT ![w] = "polled"]
    /\ job' = [job EXCEPT ![w] = t]
    /\ UNCHANGED <<clock, terms, defaulted, rows, dead, acked, start, written,
                   faults, gone, hit>>

(* psycopg.connect, and the first statement of the transaction. *)
Begin(w) ==
    /\ pc[w] = "polled"
    /\ pc' = [pc EXCEPT ![w] = "begun"]
    /\ start' = [start EXCEPT ![w] = clock]
    /\ gone' = [gone EXCEPT ![w] = defaulted]
    /\ UNCHANGED <<clock, terms, defaulted, rows, dead, acked, job, written,
                   faults, hit>>

(* process_if_new: ON CONFLICT DO NOTHING waits for a transaction that has *)
(* inserted the key and is not over.                                       *)
KeyIsHeld(t) == \E v \in Workers : pc[v] \in HoldsKey /\ job[v] = t

SkipWithoutWaiting(w) ==        \* mutant: a held key counts as a duplicate
    /\ pc[w] = "begun"
    /\ job[w] \in processed \/ KeyIsHeld(job[w])
    /\ Leave(w, "ack")
    /\ UNCHANGED <<clock, terms, defaulted, rows, dead, acked, faults, hit>>

SkipDuplicate(w) ==
    /\ pc[w] = "begun"
    /\ job[w] \in processed
    /\ Leave(w, "ack")
    /\ UNCHANGED <<clock, terms, defaulted, rows, dead, acked, faults, hit>>

IgnoreProcessed(w) ==          \* mutant: the answer "not new" is ignored
    /\ pc[w] = "begun"
    /\ ~KeyIsHeld(job[w])
    /\ Goto(w, "marked")
    /\ UNCHANGED <<clock, terms, defaulted, rows, dead, acked, written, faults,
                   hit>>

InsertMarker(w) ==
    /\ pc[w] = "begun"
    /\ job[w] \notin processed
    /\ ~KeyIsHeld(job[w])
    /\ Goto(w, "marked")
    /\ UNCHANGED <<clock, terms, defaulted, rows, dead, acked, written, faults,
                   hit>>

-----------------------------------------------------------------------------
(* process_trade.                                                          *)

Active(m) == m \notin defaulted

(* validate_trade: the checks of the payload, then the buyer's status. *)
CheckBuyer(w) ==
    LET t == job[w] IN
    /\ pc[w] = "marked"
    /\ Goto(w, IF /\ terms[t].buyer # terms[t].seller
                  /\ terms[t].quantity > 0
                  /\ Active(terms[t].buyer)
               THEN "buyer_ok" ELSE "refused")
    /\ UNCHANGED <<clock, terms, defaulted, rows, dead, acked, written, faults,
                   hit>>

(* validate_trade: the seller's status, then the instrument's. *)
SellerIsNotAsked(w) ==          \* mutant: only the buyer is looked up
    /\ pc[w] = "buyer_ok"
    /\ Goto(w, IF terms[job[w]].instrument \in Listed
               THEN "validated" ELSE "refused")
    /\ UNCHANGED <<clock, terms, defaulted, rows, dead, acked, written, faults,
                   hit>>

CheckSeller(w) ==
    LET t == job[w] IN
    /\ pc[w] = "buyer_ok"
    /\ Goto(w, IF Active(terms[t].seller) /\ terms[t].instrument \in Listed
               THEN "validated" ELSE "refused")
    /\ UNCHANGED <<clock, terms, defaulted, rows, dead, acked, written, faults,
                   hit>>

(* _lock_margin raises: there are no accounts, or an amount of zero. *)
CannotLock(t, side) ==
    Party(t, side) \notin WithAccounts \/ terms[t].marginal

(* What novate_trade has written when an exception leaves it. *)
Written(n) == SubSeq(NovationWrites, 1, n)
DoneBefore(t) ==
    IF trade[t] # "submitted" THEN <<>>
    ELSE IF CannotLock(t, "BUY") THEN Written(3) ELSE Written(4)

novate_trade(w) ==
    LET t == job[w] IN
    /\ pc[w] = "validated"
    /\ trade[t] = "submitted"
    /\ \A side \in Sides : ~CannotLock(t, side)
    /\ Goto(w, "written")
    /\ written' = [written EXCEPT ![w] = NovationWrites]
    /\ UNCHANGED <<clock, terms, defaulted, rows, dead, acked, faults, hit>>

(* ROLLBACK TO SAVEPOINT, on leaving `with conn.transaction()'. *)
NoSavepoint(done) == done       \* mutant: process_trade opens no savepoint
RolledBackToSavepoint(done) == <<>>

(* novate_trade raises for good: the exception is caught. *)
CannotNovate(w) ==
    LET t == job[w] IN
    /\ pc[w] = "validated"
    /\ trade[t] # "submitted" \/ \E side \in Sides : CannotLock(t, side)
    /\ Goto(w, "refused")
    /\ written' = [written EXCEPT
                     ![w] = RolledBackToSavepoint(DoneBefore(t))]
    /\ UNCHANGED <<clock, terms, defaulted, rows, dead, acked, faults, hit>>

(* _reject_trade, which looks at no status. *)
_reject_trade(w) ==
    /\ pc[w] = "refused"
    /\ Goto(w, "written")
    /\ written' = [written EXCEPT ![w] = @ \o RejectionWrites]
    /\ UNCHANGED <<clock, terms, defaulted, rows, dead, acked, faults, hit>>

-----------------------------------------------------------------------------
(* The end of the transaction.                                             *)

Has(w, kind, side) == Write(kind, side) \in {written[w][n] :
                                             n \in DOMAIN written[w]}
NovatedAtWallClock(w) == clock  \* mutant: clock_timestamp() for now()
NovatedAt(w) == start[w]        \* DEFAULT now()

(* Everything a transaction wrote becomes visible, its marker with it. *)
Applied(w) ==
    LET t == job[w]
        tell(e) == IF Has(w, e, "-") THEN <<e>> ELSE <<>>
        isNew(l) == l[1] = t /\ Has(w, "leg", l[2])
    IN
    /\ trade' = [trade EXCEPT ![t] =
                   IF Has(w, "rejected", "-") THEN "rejected" ELSE "novated"]
    /\ leg' = [l \in Legs |-> IF isNew(l) THEN "open" ELSE leg[l]]
    /\ novated_at' = [l \in Legs |-> IF isNew(l) THEN NovatedAt(w)
                                     ELSE novated_at[l]]
    /\ locks' = [l \in Legs |-> IF l[1] = t /\ Has(w, "lock", l[2])
                                THEN locks[l] + 1 ELSE locks[l]]
    /\ events' = [events EXCEPT ![t] = @ \o tell("trade.novated")
                                         \o tell("trade.rejected")]
    /\ processed' = processed \cup {t}

Commit(w) ==
    /\ pc[w] = "written"
    /\ Applied(w)
    /\ Leave(w, "ack")
    /\ UNCHANGED <<clock, terms, defaulted, dead, acked, faults, hit>>

(* A fault, from which the handler learns. *)
Fail(w) ==
    /\ faults < MaxFaults
    /\ faults' = faults + 1
    /\ hit' = hit \cup {job[w]}
    /\ UNCHANGED <<clock, terms, defaulted, dead, acked>>

(* The commit succeeds and its answer is lost. *)
CommitUnanswered(w) ==
    /\ pc[w] = "written"
    /\ Applied(w)
    /\ Leave(w, "failed")
    /\ Fail(w)

(* Outside of the savepoint the transaction is lost: after a statement that*)
(* failed in validate_trade the SAVEPOINT of _reject_trade fails as well.  *)
StatementFails(w) ==
    /\ pc[w] \in InTransaction
    /\ Leave(w, "failed")
    /\ Fail(w)
    /\ UNCHANGED rows

(* Inside novate_trade's savepoint the same exception rejects the trade. *)
NovationFails(w, n) ==
    /\ pc[w] = "validated"
    /\ Goto(w, "refused")
    /\ written' = [written EXCEPT ![w] = RolledBackToSavepoint(Written(n))]
    /\ Fail(w)
    /\ UNCHANGED rows

(* _send_to_dlq, which has a connection of its own and swallows errors. *)
SendToDlq(w) ==
    /\ pc[w] = "failed"
    /\ dead' \in {dead, dead \cup {job[w]}}
    /\ Leave(w, "ack")
    /\ UNCHANGED <<clock, terms, defaulted, rows, acked, faults, hit>>

ReturnToPoll(w) ==              \* mutant: the offset is left to the next one
    /\ pc[w] = "ack"
    /\ Leave(w, "idle")
    /\ UNCHANGED <<clock, terms, defaulted, rows, dead, acked, faults, hit>>

Ack(w) ==
    /\ pc[w] = "ack"
    /\ acked' = acked \cup {job[w]}
    /\ Leave(w, "idle")
    /\ UNCHANGED <<clock, terms, defaulted, rows, dead, faults, hit>>

(* The process dies and is started again. *)
Crash(w) ==
    /\ pc[w] # "idle"
    /\ faults < MaxFaults
    /\ faults' = faults + 1
    /\ Leave(w, "idle")
    /\ UNCHANGED <<clock, terms, defaulted, rows, dead, acked, hit>>

-----------------------------------------------------------------------------
Handle(w) ==
    \/ Begin(w) \/ SkipDuplicate(w) \/ InsertMarker(w)
    \/ CheckBuyer(w) \/ CheckSeller(w)
    \/ novate_trade(w) \/ CannotNovate(w) \/ _reject_trade(w)
    \/ Commit(w) \/ SendToDlq(w) \/ Ack(w)

Trouble(w) ==
    \/ StatementFails(w) \/ CommitUnanswered(w) \/ Crash(w)
    \/ \E n \in 0..Len(NovationWrites) : NovationFails(w, n)

Next ==
    \/ Tick
    \/ \E m \in Members : Default(m)
    \/ \E w \in Workers, t \in Trades : Poll(w, t)
    \/ \E w \in Workers : Handle(w) \/ Trouble(w)

Spec == Init /\ [][Next]_vars

PollAgain(t) == t \notin acked /\ \E w \in Workers : Poll(w, t)

(* A worker that was handed a record goes on with it, and the group is     *)
(* handed a record again and again until its offset is committed.          *)
FairSpec ==
    /\ Spec
    /\ \A w \in Workers : WF_vars(Handle(w))
    /\ \A t \in Trades : SF_vars(PollAgain(t))

-----------------------------------------------------------------------------
(* Properties.                                                             *)

(* process_trade decides a trade whole or not at all (novation.py:313-320):*)
(* a novated one has both legs, margin locked once for each and one        *)
(* trade.novated; a rejected one has no leg, no lock and one               *)
(* trade.rejected; and a marker stands for a decision.                     *)
DecisionIsWhole ==
    \A t \in Trades :
        LET legs == {leg[<<t, side>>] : side \in Sides}
            locked == {locks[<<t, side>>] : side \in Sides}
        IN
        /\ t \in processed <=> trade[t] # "submitted"
        /\ \/ /\ trade[t] = "novated" /\ legs = {"open"} /\ locked = {1}
              /\ events[t] = <<"trade.novated">>
           \/ /\ trade[t] = "rejected" /\ legs = {"none"} /\ locked = {0}
              /\ events[t] = <<"trade.rejected">>
           \/ /\ trade[t] = "submitted" /\ legs = {"none"} /\ locked = {0}
              /\ events[t] = <<>>

Sound(t) ==
    /\ terms[t].buyer # terms[t].seller
    /\ terms[t].quantity > 0 /\ ~terms[t].marginal
    /\ terms[t].instrument \in Listed
    /\ \A side \in Sides : Party(t, side) \in WithAccounts

(* A trade that nothing speaks against is novated by the time its record   *)
(* is acknowledged (consumer.py:45-49): a copy of the record that another  *)
(* worker handles, or one whose worker died, costs it nothing.             *)
SoundIsNovated ==
    \A t \in acked \ hit :
        Sound(t) /\ (\A side \in Sides : Active(Party(t, side))) =>
            trade[t] = "novated"

(* A default that was committed before the novating transaction began keeps*)
(* its member from getting a leg (novation.py:47-48, waterfall.py:55).     *)
DefaultedGetsNoLeg ==
    [][\A t \in Trades : trade[t] = "submitted" /\ trade'[t] = "novated" =>
          \E w \in Workers :
              /\ job[w] = t /\ pc[w] = "written" /\ pc'[w] # "written"
              /\ \A side \in Sides : Party(t, side) \notin gone[w]]_vars

(* Every record is acknowledged one day, with a decision on its trade      *)
(* unless the database failed it (consumer.py:90-101).                     *)
EventuallyDecided ==
    \A t \in Trades :
        <>(t \in acked /\ (trade[t] # "submitted" \/ t \in hit))

-----------------------------------------------------------------------------
(* The netting engine's view of this service: Netting's four actions on the*)
(* trades, with no cycle running and no quote.                             *)

(* A quantity that is not positive is never netted: any one will do. *)
NettingTerms(t) ==
    [buyer |-> terms[t].buyer, seller |-> terms[t].seller,
     instrument |-> terms[t].instrument,
     quantity |-> IF terms[t].quantity = 0 THEN 1 ELSE terms[t].quantity]

N == INSTANCE Netting WITH
    Cycles <- {}, CCP <- "CCP", Unit <- 1, Quotes <- {0},
    Contract <- [n \in Instruments |->
                    [settlement_type |-> "cash", chain_id |-> "null"]],
    TermSets <- [Trades -> [buyer : Members, seller : Members,
                            instrument : Instruments, quantity : Nat \ {0}]],
    terms <- [t \in Trades |-> NettingTerms(t)],
    begun <- [t \in Trades |->
                IF trade[t] # "submitted" THEN {}
                ELSE {start[w] : w \in {w \in Workers :
                                          pc[w] \in InTransaction
                                          /\ job[w] = t}}],
    quote <- [n \in Instruments |-> 0],
    pc <- <<>>, cut_off_time <- <<>>, positions <- <<>>, priced <- <<>>,
    marked <- <<>>, obligations <- <<>>, instructions <- <<>>, known <- <<>>,
    before <- <<>>

(* Whatever the workers do with copies of a record, Netting's novation     *)
(* is all the other services see of it: two legs at once, with the start of*)
(* one transaction on the trade, or a rejection (novation.py:87-170).      *)
KeepsNovation == N!Spec

-----------------------------------------------------------------------------
(* Statements of the source and its documentation that the code does not   *)
(* keep; each has a configuration under which TLC refutes it.              *)

(* novation.py:55: "Check that a member exists and is active", of a status *)
(* that is read before the legs are committed: no trade is novated for a   *)
(* member in default.                                                      *)
OnlyActiveGetLegs ==
    [][\A t \in Trades : trade[t] = "submitted" /\ trade'[t] = "novated" =>
          \A side \in Sides : Active(Party(t, side))]_vars

(* README.md:320: "Failed messages retry 3 times before routing to the DLQ"*)
(* One failing statement alone costs no sound trade its novation.          *)
OneFailureIsRetried ==
    \A t \in acked :
        Sound(t) /\ (\A side \in Sides : Active(Party(t, side))) =>
            trade[t] = "novated"
=============================================================================
