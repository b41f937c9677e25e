---------------------------- MODULE MCWaterfall ----------------------------
(* Instances of Waterfall for TLC. *)
EXTENDS Waterfall, TLC

CONSTANTS m1, m2, m3, w1, w2

CreditLimit == [m \in Members |-> IF m = m3 THEN 40 ELSE 20]

(* A ledger in which every member has the given margin balances, its own   *)
(* contribution to the default fund, and the CCP the given equity.         *)
Opening(margin, fund, equity) ==
    [a \in Accounts |->
        CASE a[2] \in DOMAIN margin -> margin[a[2]]
          [] a[2] = "DEFAULT_FUND" -> fund[a[1]]
          [] a[2] = "CCP_EQUITY" -> equity
          [] OTHER -> 0]

Posted == [IM_AVAILABLE |-> 3, IM_LOCKED |-> 0,
           VM_AVAILABLE |-> 1, VM_LOCKED |-> 0]

(* What novation leaves: the amount it locks is debited to the available   *)
(* pool and credited to the locked one (novation.py:233-246).              *)
Novated == [IM_AVAILABLE |-> 2, IM_LOCKED |-> -2,
            VM_AVAILABLE |-> 0, VM_LOCKED |-> 0]

Funds == {[m \in Members |-> IF m = m1 THEN 1 ELSE IF m = m2 THEN 2 ELSE 4],
          [m \in Members |-> IF m = m3 THEN 0 ELSE 3]}

Ledgers ==
    {Opening(margin, fund, equity) :
        margin \in {Posted, Novated}, fund \in Funds, equity \in {-5, 2}}

(* The CCP's equity as scripts/seed-members.py leaves it: minus the sum of *)
(* the contributions, each of which it credits to that account.            *)
Seeded ==
    {Opening([IM_AVAILABLE |-> 2, IM_LOCKED |-> 0, VM_AVAILABLE |-> 0,
              VM_LOCKED |-> 0], [m \in Members |-> 2], -6)}
=============================================================================
