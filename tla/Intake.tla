------------------------------- MODULE Intake -------------------------------
(***************************************************************************)
(* The way of a trade from a client's request to its two legs: Gateway and *)
(* TradeIngestion, which share the row of the trade and its event.         *)
(*                                                                         *)
(* The trades of TradeIngestion are the numbers of the gateway's inserts.  *)
(* Between the two are the outbox and the topic trades.submitted, of which *)
(* EventBus shows what is used here: a consumer is handed events of        *)
(* transactions that have committed, and no others.  It may be handed one  *)
(* again and again, by any worker, as in TradeIngestion.                   *)
(***************************************************************************)
EXTENDS TradeIngestion

CONSTANTS
    Handlers, Keys, NoKey, Externals, MaxRequests,      \* as in Gateway
    MaxFailures     \* bound on the failures of the gateway

VARIABLES
    submitted, announced,           \* Gateway's trades and events
    marker, inserts, req, hpc, row, holds, due, replies, requests,
    failures                        \* Gateway's faults

Api == INSTANCE Gateway WITH
         trades <- submitted, events <- announced,
         MaxFaults <- MaxFailures, faults <- failures

(* What a trade is called here, and that the gateway has finitely many     *)
(* threads: what the theorems about this module assume besides.            *)
IntakeAssumption ==
    /\ Api!GatewayAssumption
    /\ IsFiniteSet(Handlers)
    /\ Trades = 1..MaxRequests

apiVars == <<submitted, announced, marker, inserts, req, hpc, row, holds, due,
             replies, requests, failures>>
intakeVars == <<apiVars, vars>>

IntakeInit == Api!Init /\ Init

(* trades.submitted: what the outbox publisher may have published. *)
EventInItsOwnTransaction ==     \* mutant: written over another connection
    {x.id : x \in submitted \cup UNION {row[h] : h \in Handlers}}
Published == announced

Receive(w) == \E t \in Published : Poll(w, t)

Request == Api!Next /\ UNCHANGED vars

Ingest ==
    /\ \/ Tick
       \/ \E m \in Members : Default(m)
       \/ \E w \in Workers : Receive(w) \/ Handle(w) \/ Trouble(w)
    /\ UNCHANGED apiVars

IntakeNext == Request \/ Ingest

IntakeSpec == IntakeInit /\ [][IntakeNext]_intakeVars

-----------------------------------------------------------------------------
(* Properties.                                                             *)

(* While trades are novated, too, a 201 is about a committed trade with its*)
(* event, and so is every key on record (main.py:87-103).                  *)
AcceptedIsDurable == Api!AcceptedIsDurable

(* A request whose key was on record when it arrived is answered with the  *)
(* trade on record (main.py:81-84).                                        *)
RepeatIsAnswered == Api!RepeatIsAnswered

(* The trade a key on record refers to never changes (main.py:163-166).    *)
KeyNeverMoves == Api!KeyNeverMoves

(* The committed trades with an external id, and their open legs. *)
Of(e) == {x \in submitted : x.ext = e}
OpenLegs(e) == {l \in Legs : leg[l] = "open" /\ \E x \in Of(e) : x.id = l[1]}

(* What a client repeats, with a key or without, after a lost answer, a    *)
(* crash or in a race, gets at most one pair of legs with margin locked    *)
(* once for each; and no leg is of a trade that the gateway rolled back    *)
(* (main.py:79-103, novation.py:313-320).                                  *)
OnePairForAll ==
    /\ \A l \in Legs : leg[l] = "open" => \E e \in Externals : l \in OpenLegs(e)
    /\ \A e \in Externals : OpenLegs(e) # {} =>
         \E t \in Trades :
            OpenLegs(e) = {t} \X Sides /\ \A l \in OpenLegs(e) : locks[l] = 1

TheOnly(S) == CHOOSE x \in S : TRUE

Outcome == INSTANCE TradeOutcome WITH
    status <- [e \in Externals |-> IF Of(e) = {} THEN "unknown"
                                   ELSE trade[TheOnly(Of(e)).id]],
    legs <- [e \in Externals |-> Cardinality(OpenLegs(e))]

(* To the client of an external id, the two services are TradeOutcome. *)
KeepsOutcome == Outcome!Spec
=============================================================================
