------------------------- MODULE SettlementOutcome -------------------------
(***************************************************************************)
(* What the settlement engine promises about one settlement instruction,   *)
(* whatever happens to the process that executes it: the instruction gets  *)
(* at most one outcome, the ledger moves exactly when the outcome is       *)
(* "settled" (and only if the instruction is one that moves money), and    *)
(* exactly one outcome event is announced, in the same atomic step.        *)
(*                                                                         *)
(* Settlement.tla is shown to implement this module.                       *)
(***************************************************************************)
EXTENDS Naturals, Sequences

CONSTANT Instructions

VARIABLES
    due,        \* due[i]: number of journals a settled i is to post (0 or 1)
    outcome,    \* outcome[i]: "open", "settled" or "failed"
    paid,       \* paid[i]: journals posted for i
    news        \* news[i]: outcome events announced for i, oldest first

vars == <<due, outcome, paid, news>>

Init ==
    /\ due \in [Instructions -> {0, 1}]
    /\ outcome = [i \in Instructions |-> "open"]
    /\ paid = [i \in Instructions |-> 0]
    /\ news = [i \in Instructions |-> <<>>]

Settle(i) ==
    /\ outcome[i] = "open"
    /\ outcome' = [outcome EXCEPT ![i] = "settled"]
    /\ paid' = [paid EXCEPT ![i] = due[i]]
    /\ news' = [news EXCEPT ![i] = <<"settlement.completed">>]
    /\ UNCHANGED due

Fail(i) ==
    /\ outcome[i] = "open"
    /\ outcome' = [outcome EXCEPT ![i] = "failed"]
    /\ news' = [news EXCEPT ![i] = <<"settlement.failed">>]
    /\ UNCHANGED <<due, paid>>

Next == \E i \in Instructions : Settle(i) \/ Fail(i)

Spec == Init /\ [][Next]_vars
=============================================================================
