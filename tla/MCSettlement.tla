---------------------------- MODULE MCSettlement ----------------------------
(* Instances of Settlement for TLC.                                        *)
EXTENDS Settlement, TLC

Row(type, ch, positive, accounts) ==
    [type |-> type, chain |-> ch, positive |-> positive,
     accounts |-> accounts]

(* Every row that takes a branch of its own in settler.py.                 *)
AllRows ==
    {Row("cash", "null", p, a) : p, a \in BOOLEAN}
    \cup {Row("dvp", "registered", p, a) : p, a \in BOOLEAN}
    \cup {Row("dvp", "null", TRUE, TRUE), Row("dvp", "unknown", TRUE, TRUE)}

(* One instruction of each of the two kinds that normally settle.          *)
MainRows == {Row("cash", "null", TRUE, TRUE),
             Row("dvp", "registered", TRUE, TRUE)}

(* Rows whose decision takes the most different paths.                     *)
LiveRows == MainRows \cup {Row("cash", "null", TRUE, FALSE),
                           Row("dvp", "null", TRUE, TRUE)}

OnChainRows == {Row("dvp", "registered", TRUE, TRUE)}

Symmetry == Permutations(Instructions) \cup Permutations(Workers)
=============================================================================
