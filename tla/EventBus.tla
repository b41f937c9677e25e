------------------------------ MODULE EventBus ------------------------------
(***************************************************************************)
(* The path of an event from the transaction that emits it to the handler  *)
(* of the service that consumes it: Outbox and ConsumerGroup, which share  *)
(* the partition `log'.                                                    *)
(***************************************************************************)
EXTENDS Naturals, Sequences

CONSTANTS Events, Publishers, BatchSize, Timeliness, MaxFaults,
          Consumers, Styles, MaxTrouble

VARIABLES outbox, ppc, batch, queue, log, timely, faults,
          style, offset, owner, next, cpc, cur, processed, effects, dead,
          given_up, trouble

Producing == INSTANCE Outbox
Consuming == INSTANCE ConsumerGroup WITH MaxLog <- 0

producerVars == <<outbox, ppc, batch, queue, timely, faults>>
consumerVars == <<style, offset, owner, next, cpc, cur, processed, effects,
                  dead, given_up, trouble>>
vars == <<log, producerVars, consumerVars>>

ASSUME BusAssumption ==
    /\ Producing!OutboxAssumption
    /\ Styles \subseteq Consuming!AllStyles
    /\ MaxTrouble \in Nat

Init == Producing!Init /\ Consuming!Init

Next ==
    \/ Producing!Next /\ UNCHANGED consumerVars
    \/ Consuming!Work /\ UNCHANGED producerVars

Spec == Init /\ [][Next]_vars

Fairness ==
    /\ \A p \in Publishers :
         /\ WF_vars(Producing!Publish(p) /\ UNCHANGED consumerVars)
         /\ WF_vars(Producing!Deliver(p) /\ UNCHANGED consumerVars)
    /\ \A c \in Consumers :
         WF_vars(Consuming!Consume(c) /\ UNCHANGED producerVars)

FairSpec == Spec /\ Fairness

-----------------------------------------------------------------------------
(* Work happens for committed events only, and once, whatever the publisher*)
(* replicas, the broker and the consumer processes go through.             *)
Delivery == INSTANCE EventDelivery WITH
              committed <- {e \in Events : outbox[e] # "none"},
              handled <- effects

KeepsDelivery == Delivery!Spec

(* A row marked published is in the partition or on its way there, and      *)
(* every copy of it beyond the first costs a fault of a replica             *)
(* (publisher.py:40-82, 133), whatever the consumers do with the partition. *)
NeverMissedInTime == Producing!NeverMissedInTime
CopiesCostFaults == Producing!CopiesCostFaults

(* If the broker answers in time and faults end, every committed event is  *)
(* dealt with by the service that consumes it.                             *)
EventuallyDealtWith ==
    \A e \in Events :
        timely /\ style # "mark_first" /\ outbox[e] = "pending"
            ~> Consuming!Finished(e)
=============================================================================
