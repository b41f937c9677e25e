------------------------------ MODULE MCMargin ------------------------------
(* Instances of Margin for TLC. *)
EXTENDS Margin, TLC

CONSTANTS m1, m2, t1, t2, w1, w2

(* Two trades, in opposite directions: m1 ends up two long at an average   *)
(* of three, or flat when the cycle between them closes the first.         *)
TwoTrades ==
    t1 :> [buyer |-> m1, seller |-> m2, quantity |-> 3, price |-> 2] @@
    t2 :> [buyer |-> m2, seller |-> m1, quantity |-> 1, price |-> 6]

Seeded == [COLLATERAL |-> 12, IM_AVAILABLE |-> 8, IM_LOCKED |-> 0,
           VM_AVAILABLE |-> 4, VM_LOCKED |-> 0]

(* The repository as it is: no event_type, and a CHECK without the types.  *)
AsIs(trades, engines, desks) ==
    [submitted |-> trades, engines |-> engines, desks |-> desks,
     typed |-> FALSE, accepts |-> FALSE]

(* With events and journal types as proto/events and the services have it. *)
AsMeant(trades, engines, desks) ==
    [AsIs(trades, engines, desks) EXCEPT !.typed = TRUE, !.accepts = TRUE]

(* Two replicas of a service meet over one trade and one price; two trades *)
(* go with one margin engine, and no collateral manager, which is down.    *)
AllSites ==
    {AsIs({t1}, {w1, w2}, {w1}), AsMeant({t1}, {w1, w2}, {w1}),
     AsMeant({t1}, {w1}, {w1, w2}), AsIs({t1, t2}, {w1}, {w1}),
     AsMeant({t1, t2}, {w1}, {})}

(* Where the properties that do not hold are refuted: one replica of each  *)
(* service, two of either, and the repository as it is.                    *)
RefutingSites ==
    {AsMeant({t1}, {w1}, {w1}), AsMeant({t1}, {w1, w2}, {w1}),
     AsMeant({t1}, {w1}, {w1, w2}), AsIs({t1}, {w1}, {w1})}
=============================================================================
