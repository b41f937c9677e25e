------------------------------ MODULE Gateway ------------------------------
(***************************************************************************)
(* POST /trades of the API gateway: concurrent requests, each handled in a *)
(* thread and in one READ COMMITTED transaction of its own, that look up   *)
(* the Idempotency-Key, insert the trade and its outbox event, record the  *)
(* key in processed_events and commit.                                     *)
(*                                                                         *)
(* A trade's id is the number of its insert.  An INSERT that meets an      *)
(* uncommitted row of the same unique key waits for that transaction.      *)
(***************************************************************************)
EXTENDS Naturals, FiniteSets

CONSTANTS
    Handlers,       \* threads of the gateway's processes
    Keys,           \* Idempotency-Key headers
    NoKey,          \* a request without that header
    Externals,      \* external_trade_id of the bodies
    MaxRequests,    \* bound on the requests of a behaviour
    MaxFaults       \* bound on the failures of a behaviour

(* What Intake assumes of the gateway's constants, and TLC evaluates there. *)
GatewayAssumption ==
    /\ NoKey \notin Keys
    /\ MaxRequests \in Nat
    /\ MaxFaults \in Nat

VARIABLES
    trades,     \* committed trades: [id, ext]
    events,     \* ids of the trades with a committed trade.submitted event
    marker,     \* marker[k]: reference_id of the committed row of key k, or 0
    inserts,    \* trades inserted so far, also in transactions rolled back
    req,        \* req[h]: the request [key, ext, known] being handled; known:
                \* do the members and the instrument it names exist?
    hpc,        \* hpc[h]: the statement the handler is at
    row,        \* row[h]: the trade it has inserted, not committed; or {}
    holds,      \* does it hold an uncommitted row of its key?
    due,        \* due[h]: the marker of its key when it arrived
    replies,    \* what clients were told: [key, ext, due, code, trade]
    requests,   \* requests so far
    faults      \* failures so far

database == <<trades, events, marker>>
vars == <<trades, events, marker, inserts, req, hpc, row, holds, due, replies,
          requests, faults>>

Requests == [key : Keys \cup {NoKey}, ext : Externals, known : BOOLEAN]
NoRequest == [key |-> NoKey, ext |-> NoKey, known |-> FALSE]
TradeRows == [id : 1..MaxRequests, ext : Externals]
Ids == 0..MaxRequests

Statements == {"idle", "check", "insert", "mark", "commit", "respond"}

TypeOK ==
    /\ trades \subseteq TradeRows
    /\ events \subseteq Ids
    /\ marker \in [Keys -> Ids]
    /\ inserts \in Ids
    /\ req \in [Handlers -> Requests \cup {NoRequest}]
    /\ hpc \in [Handlers -> Statements]
    /\ \A h \in Handlers : row[h] \subseteq TradeRows /\ Cardinality(row[h]) <= 1
    /\ holds \in [Handlers -> BOOLEAN]
    /\ due \in [Handlers -> Ids]
    /\ replies \subseteq [key : Keys \cup {NoKey}, ext : Externals, due : Ids,
                          code : {201, 409, 422}, trade : Ids]
    /\ requests \in Ids
    /\ faults \in 0..MaxFaults

Init ==
    /\ trades = {}
    /\ events = {}
    /\ marker = [k \in Keys |-> 0]
    /\ inserts = 0
    /\ req = [h \in Handlers |-> NoRequest]
    /\ hpc = [h \in Handlers |-> "idle"]
    /\ row = [h \in Handlers |-> {}]
    /\ holds = [h \in Handlers |-> FALSE]
    /\ due = [h \in Handlers |-> 0]
    /\ replies = {}
    /\ requests = 0
    /\ faults = 0

-----------------------------------------------------------------------------
(* Transactions. *)

Reply(h, code, id) ==
    replies' = replies \cup {[key |-> req[h].key, ext |-> req[h].ext,
                              due |-> due[h], code |-> code, trade |-> id]}

Goto(h, to) == hpc' = [hpc EXCEPT ![h] = to]

(* The connection is closed: an open transaction is rolled back, its locks *)
(* are released, and the thread is free.                                   *)
RolledBack(h) == row' = [row EXCEPT ![h] = {}]

Finish(h) ==
    /\ RolledBack(h)
    /\ holds' = [holds EXCEPT ![h] = FALSE]
    /\ req' = [req EXCEPT ![h] = NoRequest]
    /\ due' = [due EXCEPT ![h] = 0]
    /\ Goto(h, "idle")

(* Does an uncommitted row of another transaction bar this insert? *)
Waits(h) ==
    \E g \in Handlers \ {h} :
        /\ hpc[g] # "respond"
        /\ \E t \in row[g] : t.ext = req[h].ext

-----------------------------------------------------------------------------
(* Steps of submit_trade. *)

Accept(h) ==
    /\ hpc[h] = "idle"
    /\ requests < MaxRequests
    /\ \E r \in Requests :
         /\ req' = [req EXCEPT ![h] = r]
         /\ due' = [due EXCEPT
               ![h] = IF r.key = NoKey THEN 0 ELSE marker[r.key]]
         /\ Goto(h, IF r.key = NoKey THEN "insert" ELSE "check")
    /\ requests' = requests + 1
    /\ UNCHANGED <<database, inserts, row, holds, replies, faults>>

(* _check_idempotency: the row of the key, then the trade it refers to. *)
NothingFound(h) == {}           \* mutant: looked up under another service name
Found(h) == {t \in trades : t.id = marker[req[h].key]}

Check(h) ==
    /\ hpc[h] = "check"
    /\ \/ /\ Found(h) = {}
          /\ Goto(h, "insert")
          /\ UNCHANGED <<req, row, holds, due, replies>>
       \/ /\ \E t \in Found(h) : Reply(h, 201, t.id)
          /\ Finish(h)
    /\ UNCHANGED <<database, inserts, requests, faults>>

(* _insert_trade and _insert_trade_outbox_event.  The unique index on      *)
(* external_trade_id is checked before the foreign keys.                   *)
Insert(h) ==
    LET taken == \E t \in trades : t.ext = req[h].ext IN
    /\ hpc[h] = "insert"
    /\ ~Waits(h)
    /\ inserts' = inserts + 1
    /\ \/ taken /\ Reply(h, 409, 0) /\ Finish(h)
       \/ ~taken /\ ~req[h].known /\ Reply(h, 422, 0) /\ Finish(h)
       \/ /\ ~taken /\ req[h].known
          /\ row' = [row EXCEPT
                ![h] = @ \cup {[id |-> inserts', ext |-> req[h].ext]}]
          /\ Goto(h, IF req[h].key = NoKey THEN "commit" ELSE "mark")
          /\ UNCHANGED <<req, holds, due, replies>>
    /\ UNCHANGED <<database, requests, faults>>

(* _mark_idempotent: INSERT ... ON CONFLICT DO NOTHING. *)
Mark(h) ==
    /\ hpc[h] = "mark"
    /\ \A g \in Handlers \ {h} : ~(holds[g] /\ req[g].key = req[h].key)
    /\ holds' = [holds EXCEPT ![h] = marker[req[h].key] = 0]
    /\ Goto(h, "commit")
    /\ UNCHANGED <<database, inserts, req, row, due, replies, requests,
                   faults>>

MarkerAfter(h) ==
    IF ~holds[h] THEN marker
    ELSE [marker EXCEPT ![req[h].key] = (CHOOSE t \in row[h] : TRUE).id]

RespondFirst(h) ==              \* mutant: the commit is left to the close
    UNCHANGED <<trades, events>>
Store(h) ==
    /\ trades' = trades \cup row[h]
    /\ events' = events \cup {t.id : t \in row[h]}

Commit(h) ==
    /\ hpc[h] = "commit"
    /\ Store(h)
    /\ marker' = MarkerAfter(h)
    /\ holds' = [holds EXCEPT ![h] = FALSE]
    /\ Goto(h, "respond")
    /\ UNCHANGED <<inserts, req, row, due, replies, requests, faults>>

Respond(h) ==
    /\ hpc[h] = "respond"
    /\ \E t \in row[h] : Reply(h, 201, t.id)
    /\ Finish(h)
    /\ UNCHANGED <<database, inserts, requests, faults>>

(* The process, its connection or the client's connection is lost, before  *)
(* or after the commit: what is uncommitted is rolled back, and the client *)
(* is told nothing it can use.                                             *)
Fail(h) ==
    /\ hpc[h] # "idle"
    /\ faults < MaxFaults
    /\ faults' = faults + 1
    /\ Finish(h)
    /\ UNCHANGED <<database, inserts, replies, requests>>

-----------------------------------------------------------------------------
submit_trade(h) ==
    Check(h) \/ Insert(h) \/ Mark(h) \/ Commit(h) \/ Respond(h)

Next == \E h \in Handlers : Accept(h) \/ submit_trade(h) \/ Fail(h)

Spec == Init /\ [][Next]_vars

(* The threads run, and PostgreSQL wakes the transaction that waits. *)
Fairness == \A h \in Handlers : WF_vars(submit_trade(h))

FairSpec == Spec /\ Fairness

-----------------------------------------------------------------------------
(* Properties. *)

(* A client that was told 201 was told of a trade that is committed with   *)
(* its event, and a key on record refers to such a trade, whichever request*)
(* failed, was rolled back or lost a race in between (main.py:87-103).     *)
AcceptedIsDurable ==
    /\ \A r \in replies : r.code = 201 => r.trade \in events
    /\ \A k \in Keys : marker[k] \in events \cup {0}
    /\ events = {t.id : t \in trades}

(* A request whose key was on record when it arrived is answered with the  *)
(* trade on record (main.py:81-84), after a crash, too.                    *)
RepeatIsAnswered ==
    \A r \in replies : r.due # 0 => r.code = 201 /\ r.trade = r.due

(* The trade a key refers to never changes: a request that finds its key   *)
(* taken at the last moment leaves the record alone (main.py:163-166).     *)
KeyNeverMoves ==
    [][\A k \in Keys : marker[k] # 0 => marker'[k] = marker[k]]_vars

(* main.py:65-66, "If the same key is resubmitted, the original trade is   *)
(* returned": no two requests with one key are told of different trades.   *)
SameKeySameTrade ==
    \A r, s \in {x \in replies : x.key # NoKey /\ x.code = 201} :
        r.key = s.key => r.trade = s.trade

(* No request waits for ever for the row of another one.                   *)
EveryRequestEnds ==
    \A h \in Handlers : hpc[h] # "idle" ~> hpc[h] = "idle"
=============================================================================
