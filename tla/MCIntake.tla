------------------------------ MODULE MCIntake ------------------------------
(* Two requests, for trades that are sound until a party defaults.          *)
EXTENDS Intake

ASSUME IntakeAssumption

CONSTANTS m1, m2, n1

MCTrades == 1..MaxRequests
MCMembers == {m1, m2}
MCDeals == {[buyer |-> m1, seller |-> m2, instrument |-> n1,
             quantity |-> 1, marginal |-> FALSE]}
=============================================================================
