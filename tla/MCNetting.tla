----------------------------- MODULE MCNetting -----------------------------
(* Instances of Netting for TLC. *)
EXTENDS Netting, TLC

CONSTANTS m1, m2, m3, x, y, t1, t2, c1, c2

(* Trades in a chain, in a ring, offsetting each other and in two          *)
(* instruments: m2 ends long, short or flat.                               *)
Deal(b, s, n, q) ==
    [buyer |-> b, seller |-> s, instrument |-> n, quantity |-> q]

Deals == { Deal(m1, m2, x, 1), Deal(m2, m3, x, 2), Deal(m2, m1, x, 1),
           Deal(m1, m2, y, 2) }

AllTerms == [Trades -> Deals]

(* x is settled in cash, y on a chain, as scripts/seed-members.py has it.  *)
Contracts ==
    [n \in Instruments |->
        IF n = x THEN [settlement_type |-> "cash", chain_id |-> "null"]
        ELSE [settlement_type |-> "dvp", chain_id |-> "registered"]]

(* Two trades in one instrument that leave three members with +1, +1, -2.  *)
ChainTerms ==
    {[t \in Trades |-> IF t = t1 THEN Deal(m1, m2, x, 1)
                                 ELSE Deal(m2, m3, x, 2)]}

Symmetry == Permutations(Cycles) \cup Permutations(Trades)
=============================================================================
