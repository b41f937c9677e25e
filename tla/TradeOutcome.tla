---------------------------- MODULE TradeOutcome ----------------------------
(***************************************************************************)
(* What the clearing house promises to a client that submits trades: of    *)
(* all requests with one external trade id at most one becomes a trade,    *)
(* which is decided once, for good, and by two legs or none.               *)
(*                                                                         *)
(* Intake.tla is shown to implement this module.                           *)
(***************************************************************************)
EXTENDS Naturals

CONSTANT Externals

VARIABLES
    status,     \* status[e]: of the trade with external id e
    legs        \* legs[e]: open legs of trades with external id e

vars == <<status, legs>>

Init ==
    /\ status = [e \in Externals |-> "unknown"]
    /\ legs = [e \in Externals |-> 0]

Submit(e) ==
    /\ status[e] = "unknown"
    /\ status' = [status EXCEPT ![e] = "submitted"]
    /\ UNCHANGED legs

Novate(e) ==
    /\ status[e] = "submitted"
    /\ status' = [status EXCEPT ![e] = "novated"]
    /\ legs' = [legs EXCEPT ![e] = 2]

Reject(e) ==
    /\ status[e] = "submitted"
    /\ status' = [status EXCEPT ![e] = "rejected"]
    /\ UNCHANGED legs

Next == \E e \in Externals : Submit(e) \/ Novate(e) \/ Reject(e)

Spec == Init /\ [][Next]_vars
=============================================================================
