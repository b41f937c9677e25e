--------------------------- MODULE EventDelivery ---------------------------
(***************************************************************************)
(* What the outbox and a consumer group promise together to the services   *)
(* at both ends: a handler does its work for an event only after the       *)
(* transaction that emitted the event has committed, and at most once.     *)
(*                                                                         *)
(* EventBus.tla is shown to implement this module.                         *)
(***************************************************************************)
EXTENDS Naturals

CONSTANT Events

VARIABLES
    committed,  \* events whose business transaction is committed
    handled     \* handled[e]: how often a handler has worked for e

vars == <<committed, handled>>

Init ==
    /\ committed = {}
    /\ handled = [e \in Events |-> 0]

Commit(e) ==
    /\ committed' = committed \cup {e}
    /\ UNCHANGED handled

Handle(e) ==
    /\ e \in committed
    /\ handled[e] = 0
    /\ handled' = [handled EXCEPT ![e] = 1]
    /\ UNCHANGED committed

Next == \E e \in Events : Commit(e) \/ Handle(e)

Spec == Init /\ [][Next]_vars
=============================================================================
