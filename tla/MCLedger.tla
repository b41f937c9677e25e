------------------------------ MODULE MCLedger ------------------------------
(* Three journals, two reconciliations.  A journal may move 1 or 2 between  *)
(* two accounts, credit two accounts for one debit, be pending, or be one   *)
(* that the constraints refuse: half a journal, an entry of zero, one with  *)
(* both columns.                                                            *)
EXTENDS Ledger

CONSTANTS a1, a2, a3

MCAccounts == {a1, a2, a3}

Dr(a, n) == [account |-> a, debit |-> n, credit |-> 0]
Cr(a, n) == [account |-> a, debit |-> 0, credit |-> n]
Draft(s, E) == [status |-> s, entries |-> E]

Sound == {Draft("confirmed", {Dr(a1, 1), Cr(a2, 1)}),
          Draft("confirmed", {Dr(a2, 2), Cr(a1, 1), Cr(a3, 1)})}
Unconfirmed == {Draft("pending", {Dr(a3, 2), Cr(a1, 2)})}
Refused == {Draft("confirmed", {Dr(a2, 2)}),
            Draft("confirmed", {Dr(a1, 0), Cr(a2, 0)}),
            Draft("confirmed", {Dr(a1, 1), [Cr(a1, 1) EXCEPT !.debit = 1]})}

MCDrafts == Sound \cup Unconfirmed \cup Refused
=============================================================================
