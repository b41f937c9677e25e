---------------------------- MODULE ServiceProofs ---------------------------
(***************************************************************************)
(* What holds of the default waterfall of the liquidation engine, of the   *)
(* ledger and the reports on it, and of the signing gateway, for any values*)
(* of their constants.  The three do not interact here: each has a part of *)
(* its own, the last two as instances of their modules.                    *)
(***************************************************************************)
EXTENDS Waterfall, Sums

-----------------------------------------------------------------------------
(* The default waterfall: first what pro-rata shares add up to, then what  *)
(* each step does, then the induction over the steps of all replicas.      *)


(* A row more adds what it says was applied, and what is above zero of it. *)
LEMMA OneRowMore ==
    ASSUME NEW rows \in Seq(StepRows), NEW r \in StepRows
    PROVE  /\ Append(rows, r) \in Seq(StepRows)
           /\ Applied(rows) \in Int /\ Covered(rows) \in Int
           /\ Applied(Append(rows, r)) = Applied(rows) + r.applied
           /\ Covered(Append(rows, r))
                = Covered(rows) + (IF r.applied > 0 THEN r.applied ELSE 0)
<1> DEFINE more == Append(rows, r)
           D == DOMAIN rows
           l == Len(rows) + 1
           P == {k \in D : rows[k].applied > 0}
           Q == {k \in DOMAIN more : more[k].applied > 0}
           f == [n \in D |-> rows[n].applied]
           g == [n \in DOMAIN more |-> more[n].applied]
           fp == [n \in P |-> rows[n].applied]
           gp == [n \in Q |-> more[n].applied]
<1>1. /\ more \in Seq(StepRows) /\ D = 1..Len(rows) /\ l \notin D
      /\ DOMAIN more = D \cup {l} /\ more[l] = r /\ Len(rows) \in Nat
      /\ \A n \in D : more[n] = rows[n] /\ rows[n] \in StepRows
  OBVIOUS
<1>2. r.applied \in Int /\ \A n \in D : rows[n].applied \in Int
  BY <1>1 DEF StepRows
<1>3. IsFiniteSet(D) /\ IsFiniteSet(P) /\ P \subseteq D
  <2>1. IsFiniteSet(1..Len(rows))
    BY <1>1, FS_Interval
  <2>2. IsFiniteSet(D) /\ P \subseteq D
    BY <1>1, <2>1
  <2> QED
    BY <2>2, FS_Subset
<1>4. /\ Applied(rows) = SumFunctionOnSet(f, D)
      /\ Applied(more) = SumFunctionOnSet(g, D \cup {l})
      /\ Covered(rows) = SumFunctionOnSet(fp, P)
      /\ Covered(more) = SumFunctionOnSet(gp, Q)
  BY <1>1 DEF Applied, Covered, SumFunction
<1>5. /\ \A n \in D : f[n] = rows[n].applied /\ g[n] = rows[n].applied
      /\ g[l] = r.applied
      /\ \A n \in P : fp[n] = rows[n].applied /\ gp[n] = rows[n].applied
      /\ l \in Q => gp[l] = r.applied
      /\ Q = IF r.applied > 0 THEN P \cup {l} ELSE P
      /\ l \notin P
  BY <1>1
<1> HIDE DEF f, g, fp, gp, P, Q, D, l, more
<1>6. /\ SumFunctionOnSet(g, D \cup {l}) = r.applied + SumFunctionOnSet(g, D)
      /\ SumFunctionOnSet(g, D) = SumFunctionOnSet(f, D)
      /\ SumFunctionOnSet(f, D) \in Int
  <2>1. \A n \in D : f[n] = g[n] /\ f[n] \in Int /\ g[n] \in Int
    BY <1>2, <1>5
  <2>2. g[l] = r.applied /\ g[l] \in Int /\ l \notin D
    BY <1>1, <1>2, <1>5
  <2>3. SumFunctionOnSet(g, D \cup {l}) = g[l] + SumFunctionOnSet(g, D)
    BY <1>3, <2>1, <2>2, SumAdd
  <2>4. SumFunctionOnSet(f, D) = SumFunctionOnSet(g, D)
    BY <1>3, <2>1, SumOfEqual
  <2>5. SumFunctionOnSet(f, D) \in Int
    BY <1>3, <2>1, SumInt
  <2> QED
    BY <2>2, <2>3, <2>4, <2>5
<1>7. /\ SumFunctionOnSet(gp, P) = SumFunctionOnSet(fp, P)
      /\ SumFunctionOnSet(fp, P) \in Int
  BY <1>2, <1>3, <1>5, SumOfEqual, SumInt
<1>8. CASE r.applied > 0
  <2>1. SumFunctionOnSet(gp, P \cup {l}) = r.applied + SumFunctionOnSet(gp, P)
    BY <1>2, <1>3, <1>5, <1>8, SumAdd
  <2> QED
    BY <1>1, <1>2, <1>4, <1>5, <1>6, <1>7, <1>8, <2>1 DEF more
<1>9. CASE ~(r.applied > 0)
  BY <1>1, <1>2, <1>4, <1>5, <1>6, <1>7, <1>9 DEF more
<1> QED
  BY <1>8, <1>9

(* Nothing is applied, nor covered, by no rows. *)
LEMMA NoRows == Applied(<<>>) = 0 /\ Covered(<<>>) = 0
<1> DEFINE f == [n \in DOMAIN <<>> |-> <<>>[n].applied]
           g == [n \in {k \in DOMAIN <<>> : <<>>[k].applied > 0}
                    |-> <<>>[n].applied]
<1>1. DOMAIN f = {} /\ DOMAIN g = {}
  OBVIOUS
<1>2. /\ Applied(<<>>) = SumFunctionOnSet(f, DOMAIN f)
      /\ Covered(<<>>) = SumFunctionOnSet(g, DOMAIN g)
  BY DEF Applied, Covered, SumFunction
<1> HIDE DEF f, g
<1> QED
  BY <1>1, <1>2, SumEmpty

(* What a division to the nearest grain keeps. *)
LEMMA ShareRounds ==
    ASSUME NEW part \in Nat, NEW whole \in Nat \ {0}, NEW loss \in Nat
    PROVE  LET q == Share(part, whole, loss)
           IN  /\ q \in Nat
               /\ 2 * (whole * q) - 2 * (loss * part) <= whole
               /\ 2 * (whole * q) - 2 * (loss * part) >= -whole
<1> DEFINE x == 2 * part * loss + whole
           y == 2 * whole
           q == x \div y
<1>1. x \in Nat /\ y \in Nat \ {0} /\ x = 2 * (loss * part) + whole
      /\ loss * part \in Nat
  OBVIOUS
<1>2. q \in Nat /\ y * q <= x /\ x < y * q + y
  <2> HIDE DEF x, y
  <2>1. /\ x \div y \in Int /\ x % y \in 0..(y - 1)
        /\ x = y * (x \div y) + (x % y)
    BY <1>1
  <2>2. x \div y \in Nat
    BY <1>1
  <2> QED
    BY <2>1, <2>2, <1>1
<1>3. y * q = 2 * (whole * q) /\ whole * q \in Nat
  <2>1. q \in Nat
    BY <1>2
  <2> HIDE DEF q
  <2> QED
    BY <2>1
<1>4. Share(part, whole, loss) = q
  BY DEF Share
<1> HIDE DEF q
<1>5. 2 * (whole * q) <= 2 * (loss * part) + whole
      /\ 2 * (loss * part) + whole < 2 * (whole * q) + 2 * whole
  BY <1>1, <1>2, <1>3
<1>6. 2 * (whole * q) - 2 * (loss * part) <= whole
      /\ 2 * (whole * q) - 2 * (loss * part) >= -whole
  BY <1>1, <1>3, <1>5
<1> QED
  BY <1>2, <1>4, <1>6 DEF q

(* A payer's share of a loss that the parts cover is within its part; where*)
(* they do not cover it, min() leaves the part.                            *)
PaysItsShare(part, whole, loss, pay) ==
    /\ pay \in Nat /\ pay <= part
    /\ whole <= loss => pay = part
    /\ loss < whole => /\ 2 * (whole * pay) - 2 * (loss * part) <= whole
                       /\ 2 * (whole * pay) - 2 * (loss * part) >= -whole

(* What min() of the share and the part comes to. *)
LEMMA PartOrShare ==
    ASSUME NEW part \in Nat \ {0}, NEW whole \in Nat \ {0}, NEW loss \in Nat
    PROVE  PaysItsShare(part, whole, loss,
                        Smaller(Share(part, whole, loss), part))
<1> DEFINE q == Share(part, whole, loss)
<1>1. /\ q \in Nat /\ whole * q \in Nat /\ loss * part \in Nat
      /\ 2 * (whole * q) - 2 * (loss * part) <= whole
      /\ 2 * (whole * q) - 2 * (loss * part) >= -whole
  <2>1. /\ q \in Nat
        /\ 2 * (whole * q) - 2 * (loss * part) <= whole
        /\ 2 * (whole * q) - 2 * (loss * part) >= -whole
    BY ShareRounds
  <2>2. whole * q \in Nat /\ loss * part \in Nat
    <3> HIDE DEF q
    <3> QED
      BY <2>1
  <2> QED
    BY <2>1, <2>2
<1>2. Smaller(q, part) = IF q <= part THEN q ELSE part
  BY DEF Smaller
<1> HIDE DEF q
<1>3. ASSUME whole <= loss PROVE part <= q
  <2>1. SUFFICES ASSUME q + 1 <= part PROVE FALSE
    BY <1>1
  <2>2. whole * (q + 1) <= whole * part
    BY <1>1, <2>1
  <2>3. whole * part <= loss * part
    BY <1>3
  <2>4. whole * (q + 1) = whole * q + whole /\ whole * part \in Nat
    BY <1>1
  <2> QED
    BY <1>1, <2>2, <2>3, <2>4
<1>4. ASSUME loss < whole PROVE q <= part
  <2>1. SUFFICES ASSUME part + 1 <= q PROVE FALSE
    BY <1>1
  <2>2. whole * (part + 1) <= whole * q
    BY <1>1, <2>1
  <2>3. loss * part <= whole * part
    BY <1>4
  <2>4. whole * (part + 1) = whole * part + whole /\ whole * part \in Nat
    BY <1>1
  <2> QED
    BY <1>1, <2>2, <2>3, <2>4
<1> QED
  BY <1>1, <1>2, <1>3, <1>4 DEF PaysItsShare, q

(* Shared pro rata and to the grain, a loss is covered as far as the parts *)
(* go, give or take half a grain for each of them.                         *)
LEMMA ProRata ==
    ASSUME NEW P, IsFiniteSet(P), P # {}, NEW part, NEW pay, NEW whole,
           \A x \in P : part[x] \in Nat \ {0},
           whole = SumFunctionOnSet(part, P), NEW loss \in Nat,
           \A x \in P : pay[x] = Smaller(Share(part[x], whole, loss), part[x])
    PROVE  /\ whole \in Nat \ {0} /\ Cardinality(P) \in Nat
           /\ \A x \in P : pay[x] \in Nat /\ pay[x] <= part[x]
           /\ SumFunctionOnSet(pay, P) \in Int
           /\ 2 * SumFunctionOnSet(pay, P) - 2 * Smaller(whole, loss)
                <= Cardinality(P)
           /\ 2 * SumFunctionOnSet(pay, P) - 2 * Smaller(whole, loss)
                >= -Cardinality(P)
<1> DEFINE paid == SumFunctionOnSet(pay, P)
           n == Cardinality(P)
<1>1. whole \in Nat \ {0} /\ n \in Nat
  <2>1. PICK x : x \in P
    OBVIOUS
  <2>2. SumFunctionOnSet(part, P) = part[x] + SumFunctionOnSet(part, P \ {x})
    BY <2>1, SumRemove
  <2>3. IsFiniteSet(P \ {x}) /\ \A y \in P \ {x} : part[y] \in Nat
    BY FS_Subset
  <2>4. SumFunctionOnSet(part, P \ {x}) \in Nat
    BY <2>3, SumNat
  <2>5. part[x] \in Nat \ {0}
    BY <2>1
  <2> QED
    BY <2>2, <2>4, <2>5, FS_CardinalityType
<1>2. \A x \in P : PaysItsShare(part[x], whole, loss, pay[x])
  BY <1>1, PartOrShare
<1> USE DEF PaysItsShare
<1>3. paid \in Int
  BY <1>2, SumInt
<1>4. CASE whole <= loss
  <2>1. paid = whole
    BY <1>2, <1>4, SumOfEqual
  <2> QED
    BY <1>1, <1>2, <1>3, <1>4, <2>1 DEF Smaller
<1>5. CASE loss < whole
  <2> DEFINE up == [x \in P |-> (2 * whole) * pay[x]]
             down == [x \in P |-> (-2 * loss) * part[x]]
             d == [x \in P |-> up[x] + down[x]]
  <2>1. ASSUME NEW x \in P
        PROVE  /\ up[x] \in Int /\ down[x] \in Int /\ d[x] = up[x] + down[x]
               /\ d[x] \in Int /\ -whole <= d[x] /\ d[x] <= whole
    <3>1. /\ whole * pay[x] \in Int /\ loss * part[x] \in Int
          /\ (2 * whole) * pay[x] = 2 * (whole * pay[x])
          /\ (-2 * loss) * part[x] = -(2 * (loss * part[x]))
      BY <1>1, <1>2
    <3>2. d[x] = 2 * (whole * pay[x]) - 2 * (loss * part[x])
      BY <3>1
    <3> QED
      BY <1>1, <1>2, <1>5, <3>1, <3>2
  <2>2. SumFunctionOnSet(up, P) = (2 * whole) * paid
    <3>1. 2 * whole \in Int /\ \A x \in P : pay[x] \in Int
      BY <1>1, <1>2
    <3>2. \A x \in P : up[x] = (2 * whole) * pay[x]
      OBVIOUS
    <3> HIDE DEF up
    <3> QED
      BY <3>1, <3>2, SumScaled
  <2>3. SumFunctionOnSet(down, P) = (-2 * loss) * whole
    <3>1. -2 * loss \in Int /\ \A x \in P : part[x] \in Int
      OBVIOUS
    <3>2. \A x \in P : down[x] = (-2 * loss) * part[x]
      OBVIOUS
    <3> HIDE DEF down
    <3> QED
      BY <3>1, <3>2, SumScaled
  <2> HIDE DEF up, down, d
  <2>4. SumFunctionOnSet(d, P)
          = SumFunctionOnSet(up, P) + SumFunctionOnSet(down, P)
    BY <2>1, SumPlus
  <2>5. /\ -(whole * n) <= SumFunctionOnSet(d, P)
        /\ SumFunctionOnSet(d, P) <= whole * n
        /\ whole * n \in Nat
    BY <1>1, <2>1, SumBounded
  <2> HIDE DEF paid, n
  <2>6. (2 * whole) * paid + (-2 * loss) * whole
          = whole * (2 * paid - 2 * loss)
    BY <1>1, <1>3
  <2>7. /\ whole * (2 * paid - 2 * loss) <= whole * n
        /\ whole * (2 * paid - 2 * loss) >= whole * (-n)
    BY <1>1, <1>3, <2>2, <2>3, <2>4, <2>5, <2>6
  <2>8. 2 * paid - 2 * loss <= n /\ 2 * paid - 2 * loss >= -n
    BY <1>1, <1>3, <2>7
  <2>9. Smaller(whole, loss) = loss
    BY <1>1, <1>5 DEF Smaller
  <2> QED
    BY <1>1, <1>2, <1>3, <2>8, <2>9 DEF paid, n
<1> QED
  BY <1>1, <1>4, <1>5

(* A tenth of everything leaves the shares as they are. *)
LEMMA SharesOfTenths ==
    ASSUME NEW part \in Nat, NEW whole \in Nat \ {0}, NEW loss \in Nat
    PROVE  /\ Share(10 * part, 10 * whole, loss) = Share(part, whole, loss)
           /\ (10 * part) \div 10 = part
<1> DEFINE x == 2 * part * loss + whole
           y == 2 * whole
<1>1. x \in Nat /\ y \in Nat \ {0}
  <2>1. part * loss \in Nat
    OBVIOUS
  <2> QED
    BY <2>1
<1>2. /\ 2 * (10 * part) * loss + 10 * whole = 10 * x
      /\ 2 * (10 * whole) = 10 * y
  <2>1. part * loss \in Nat /\ 2 * (10 * part) * loss = 20 * (part * loss)
        /\ 2 * part * loss = 2 * (part * loss)
    OBVIOUS
  <2> QED
    BY <2>1
<1> HIDE DEF x, y
<1>3. (10 * x) \div (10 * y) = x \div y
  <2> DEFINE q == x \div y
             z == x % y
  <2>1. q \in Int /\ z \in 0..(y - 1) /\ x = y * q + z
    BY <1>1
  <2> HIDE DEF q, z
  <2>2. 10 * x = (10 * y) * q + 10 * z /\ 10 * z \in 0..(10 * y - 1)
    <3>1. y * q \in Int /\ (10 * y) * q = 10 * (y * q)
      BY <1>1, <2>1
    <3> QED
      BY <1>1, <2>1, <3>1
  <2>3. (10 * x) \div (10 * y) = q
    BY <1>1, <2>1, <2>2
  <2> QED
    BY <2>3 DEF q
<1> QED
  BY <1>2, <1>3 DEF Share, x, y

-----------------------------------------------------------------------------
Fund(m) == <<m, "DEFAULT_FUND">>
AtLeastZero(x) == IF x > 0 THEN x ELSE 0

(* What may come of rounding until a waterfall is at a place: half a grain *)
(* for each payer of the two steps that share a loss.                      *)
Slack(place) ==
    CASE place = "allocation" -> Cardinality(Members)
      [] place = "finish" -> 2 * Cardinality(Members)
      [] OTHER -> 0

(* What a waterfall has done when it is at a place. *)
WorkerInv(w) ==
    /\ wpc[w] = "idle" =>
         event[w] = NoEvent /\ moved[w] = Unmoved /\ steps[w] = <<>>
    /\ wpc[w] # "idle" =>
         /\ w \in crew
         /\ event[w] \in Events /\ event[w] \notin acked
         /\ Applied(steps[w]) + remaining[w] = todo[event[w]].loss
         /\ SumFunctionOnSet(moved[w], Accounts) = 0
         /\ 2 * (moved[w][Collected] - Covered(steps[w])) <= Slack(wpc[w])
         /\ 2 * (moved[w][Collected] - Covered(steps[w])) >= -Slack(wpc[w])
    /\ wpc[w] \in Layers => remaining[w] >= 0

EventsApart ==
    \A v, w \in Workers :
        v # w /\ event[v] = event[w] => event[v] = NoEvent

Gap == ledger[Collected] - opening[Collected]
          - SumFunction([e \in Recorded |-> Covered(done[e].steps)])

AloneInv ==
    Cardinality(crew) = 1 =>
        \A m \in Members : opening[Fund(m)] >= 0 =>
            /\ ledger[Fund(m)] >= 0
            /\ \A w \in Workers : Balance(w, Fund(m)) >= 0

IInv ==
    /\ TypeOK
    /\ opening \in [Accounts -> Int] /\ crew \subseteq Workers
    /\ \A w \in Workers : WorkerInv(w)
    /\ EventsApart
    /\ Recorded \subseteq acked
    /\ LedgerMatchesRecord
    /\ AloneInv

(* What a step of w takes from accounts: nothing from the one it pays into,*)
(* from no fund more than is there, and what it says it applied up to      *)
(* halves of s grains.                                                     *)
Pays(w, applied, pay, s) ==
    /\ applied \in Int /\ pay \in [Accounts -> Int] /\ pay[Collected] = 0
    /\ 2 * (SumFunction(pay) - AtLeastZero(applied)) <= s
    /\ 2 * (SumFunction(pay) - AtLeastZero(applied)) >= -s
    /\ \A m \in Members :
         pay[Fund(m)] = 0 \/ pay[Fund(m)] <= Balance(w, Fund(m))

-----------------------------------------------------------------------------
(* What the accounts are: finitely many, and not each other.               *)
LEMMA AccountsAre ==
    /\ IsFiniteSet(Accounts)
    /\ Collected \in Accounts /\ <<"CCP", "CCP_EQUITY">> \in Accounts
    /\ \A m \in Members :
         /\ Fund(m) \in Accounts /\ Fund(m) # Collected
         /\ <<m, "SETTLEMENT">> \in Accounts /\ <<m, "SETTLEMENT">> # Collected
         /\ <<m, "IM_AVAILABLE">> \in Accounts
         /\ MarginAccounts(m) \subseteq Accounts
    /\ Cardinality(Members) \in Nat
<1> DEFINE A == {"IM_AVAILABLE", "IM_LOCKED", "VM_AVAILABLE", "VM_LOCKED",
                 "DEFAULT_FUND", "SETTLEMENT"}
           B == {"CCP_EQUITY", "SETTLEMENT"}
<1>1. IsFiniteSet(A) /\ IsFiniteSet(B)
  <2>1. /\ A = ((((({} \cup {"IM_AVAILABLE"}) \cup {"IM_LOCKED"})
                  \cup {"VM_AVAILABLE"}) \cup {"VM_LOCKED"})
                  \cup {"DEFAULT_FUND"}) \cup {"SETTLEMENT"}
        /\ B = ({} \cup {"CCP_EQUITY"}) \cup {"SETTLEMENT"}
    OBVIOUS
  <2>2. \A S, x : IsFiniteSet(S) => IsFiniteSet(S \cup {x})
    BY FS_AddElement
  <2> HIDE DEF A, B
  <2> QED
    BY <2>1, <2>2, FS_EmptySet
<1>2. Accounts = (Members \X A) \cup ({"CCP"} \X B)
  BY DEF Accounts, MemberAccounts
<1>3. IsFiniteSet(Members) /\ IsFiniteSet({"CCP"})
  BY WaterfallAssumption, FS_Singleton
<1>4. IsFiniteSet(Accounts)
  <2> HIDE DEF A, B
  <2>1. IsFiniteSet(Members \X A) /\ IsFiniteSet({"CCP"} \X B)
    BY <1>1, <1>3, FS_Product
  <2> QED
    BY <1>2, <2>1, FS_Union
<1>5. Cardinality(Members) \in Nat
  BY <1>3, FS_CardinalityType
<1> QED
  BY <1>4, <1>5, WaterfallAssumption DEF Accounts, MemberAccounts, Collected,
     Fund, MarginAccounts

(* One account pays what is applied, if that is more than nothing. *)
LEMMA OnePays ==
    ASSUME NEW w, NEW account \in Accounts, account # Collected,
           NEW amount \in Int,
           \A m \in Members :
             account = Fund(m) => amount <= Balance(w, account)
    PROVE  Pays(w, amount, From(account, amount), 0)
<1> DEFINE pay == From(account, amount)
<1>1. /\ pay \in [Accounts -> Int] /\ pay[Collected] = 0
      /\ pay[account] = AtLeastZero(amount) /\ AtLeastZero(amount) \in Int
      /\ \A a \in Accounts \ {account} : pay[a] = 0
  BY AccountsAre DEF From, AtLeastZero
<1>2. SumFunction(pay) = SumFunctionOnSet(pay, Accounts)
  BY DEF SumFunction, From
<1>3. \A m \in Members :
        pay[Fund(m)] = 0 \/ pay[Fund(m)] <= Balance(w, Fund(m))
  BY AccountsAre DEF From
<1> HIDE DEF pay
<1>4. SumFunctionOnSet(pay, Accounts) = pay[account]
  <2>1. SumFunctionOnSet(pay, Accounts) = SumFunctionOnSet(pay, {account})
    BY <1>1, AccountsAre, SumWithin
  <2>2. SumFunctionOnSet(pay, {account}) = pay[account]
    BY <1>1, SumOfOne
  <2> QED
    BY <2>1, <2>2
<1>5. Pays(w, amount, pay, 0)
  BY <1>1, <1>2, <1>3, <1>4 DEF Pays
<1> QED
  BY <1>5 DEF pay

(* Balances are whole grains.                                              *)
LEMMA BalanceIsInt ==
    ASSUME TypeOK, NEW w \in Workers, NEW a \in Accounts
    PROVE  Balance(w, a) \in Int
  BY DEF TypeOK, Balance

(* What several accounts with something in them have is not below zero. *)
LEMMA TotalIsNat ==
    ASSUME TypeOK, NEW w \in Workers, NEW as \in SUBSET Accounts
    PROVE  Total(w, Positive(w, as)) \in Nat
<1> DEFINE P == Positive(w, as)
           f == [a \in P |-> Balance(w, a)]
<1>1. IsFiniteSet(P)
  BY AccountsAre, FS_Subset DEF Positive
<1>2. \A a \in P : f[a] \in Nat
  <2>1. ASSUME NEW a \in P PROVE Balance(w, a) \in Nat
    <3>1. a \in Accounts /\ Balance(w, a) > 0
      BY DEF Positive
    <3>2. Balance(w, a) \in Int
      BY <3>1, BalanceIsInt
    <3> QED
      BY <3>1, <3>2
  <2> QED
    BY <2>1
<1>3. Total(w, P) = SumFunctionOnSet(f, P)
  BY DEF Total, SumFunction
<1> HIDE DEF P, f
<1>4. SumFunctionOnSet(f, P) \in Nat
  BY <1>1, <1>2, SumNat
<1> QED
  BY <1>3, <1>4 DEF P

(* _step_surviving_default_fund takes from no contribution more than is    *)
(* there.                                                                  *)
LEMMA FundPays ==
    ASSUME TypeOK, NEW w \in Workers, remaining[w] >= 0
    PROVE  LET payers == Positive(w, Survivors(w) \X {"DEFAULT_FUND"})
               whole == Total(w, payers)
           IN  /\ whole \in Nat
               /\ Pays(w, Smaller(whole, remaining[w]), FundPay(w),
                       Cardinality(Members))
<1> DEFINE P == Positive(w, Survivors(w) \X {"DEFAULT_FUND"})
           part == [a \in P |-> Balance(w, a)]
           whole == Total(w, P)
           loss == remaining[w]
           pay == FundPay(w)
           applied == Smaller(whole, loss)
           n == Cardinality(Members)
<1>1. Survivors(w) \subseteq Members /\ loss \in Nat
  BY DEF Survivors, TypeOK
<1>2. /\ P \in SUBSET Accounts /\ P \in SUBSET (Members \X {"DEFAULT_FUND"})
      /\ Survivors(w) \X {"DEFAULT_FUND"} \in SUBSET Accounts
      /\ \A a \in P : Balance(w, a) \in Nat \ {0}
      /\ Collected \notin P /\ Collected \in Accounts
  <2>1. \A a \in Members \X {"DEFAULT_FUND"} : \E m \in Members : a = Fund(m)
    BY DEF Fund
  <2>2. Members \X {"DEFAULT_FUND"} \in SUBSET (Accounts \ {Collected})
    BY <2>1, AccountsAre
  <2>3. P \in SUBSET (Members \X {"DEFAULT_FUND"})
        /\ \A a \in P : Balance(w, a) > 0
    BY <1>1 DEF Positive
  <2>4. \A a \in P : Balance(w, a) \in Int
    BY <2>2, <2>3, BalanceIsInt
  <2> HIDE DEF P
  <2> QED
    BY <1>1, <2>2, <2>3, <2>4, AccountsAre
<1>3. whole \in Nat /\ whole = SumFunctionOnSet(part, P)
  BY <1>2, TotalIsNat DEF Total, SumFunction
<1>4. /\ \A a \in P : part[a] = Balance(w, a)
      /\ \A a \in P : pay[a] = Smaller(Share(part[a], whole, loss), part[a])
      /\ \A a \in Accounts \ P : pay[a] = 0
      /\ DOMAIN pay = Accounts
  BY <1>2 DEF FundPay, Capped
<1>5. /\ IsFiniteSet(P)
      /\ Cardinality(P) <= n
      /\ n \in Nat
      /\ Cardinality(P) \in Nat
  <2>1. /\ IsFiniteSet(Members \X {"DEFAULT_FUND"})
        /\ Cardinality(Members \X {"DEFAULT_FUND"}) = n * 1
    <3>1. IsFiniteSet(Members) /\ IsFiniteSet({"DEFAULT_FUND"})
          /\ Cardinality({"DEFAULT_FUND"}) = 1
      BY WaterfallAssumption, FS_Singleton
    <3> QED
      BY <3>1, FS_Product
  <2>2. P \subseteq Members \X {"DEFAULT_FUND"} /\ n \in Nat
    BY <1>2, AccountsAre
  <2> HIDE DEF P, n
  <2>3. n * 1 = n
    BY <2>2
  <2>4. IsFiniteSet(P) /\ Cardinality(P) <= n
    BY <2>1, <2>2, <2>3, FS_Subset
  <2> QED
    BY <2>2, <2>4, FS_CardinalityType
<1>6. SumFunction(pay) = SumFunctionOnSet(pay, Accounts)
  BY <1>4 DEF SumFunction
<1>7. Collected \notin P /\ Collected \in Accounts
  BY <1>2
<1> HIDE DEF P, part, whole, loss, pay, n
<1>8. /\ \A a \in P : pay[a] \in Nat /\ pay[a] <= part[a]
      /\ SumFunctionOnSet(pay, P) \in Int
      /\ 2 * SumFunctionOnSet(pay, P) - 2 * applied <= n
      /\ 2 * SumFunctionOnSet(pay, P) - 2 * applied >= -n
  <2>1. CASE P = {}
    <3>1. whole = 0 /\ SumFunctionOnSet(pay, P) = 0
      BY <1>3, <2>1, SumEmpty
    <3> QED
      BY <1>1, <1>5, <2>1, <3>1 DEF Smaller
  <2>2. CASE P # {}
    <3>1. /\ \A a \in P : pay[a] \in Nat /\ pay[a] <= part[a]
          /\ SumFunctionOnSet(pay, P) \in Int
          /\ 2 * SumFunctionOnSet(pay, P) - 2 * applied <= Cardinality(P)
          /\ 2 * SumFunctionOnSet(pay, P) - 2 * applied >= -Cardinality(P)
      <4>1. \A a \in P : part[a] \in Nat \ {0}
        BY <1>2, <1>4
      <4> QED
        BY <1>1, <1>3, <1>4, <1>5, <2>2, <4>1, ProRata
    <3>2. applied \in Int
      BY <1>1, <1>3 DEF Smaller
    <3> QED
      BY <1>5, <3>1, <3>2
  <2> QED
    BY <2>1, <2>2
<1>9. SumFunctionOnSet(pay, Accounts) = SumFunctionOnSet(pay, P)
  <2>1. \A a \in P : pay[a] \in Int
    BY <1>8
  <2>2. IsFiniteSet(Accounts)
    BY AccountsAre
  <2> QED
    BY <1>2, <1>4, <2>1, <2>2, SumWithin
<1>10. applied \in Int /\ AtLeastZero(applied) = applied
  BY <1>1, <1>3 DEF Smaller, AtLeastZero
<1>11. pay \in [Accounts -> Int]
  <2>1. \A a \in Accounts : pay[a] \in Int
    BY <1>4, <1>8
  <2>2. pay = [a \in Accounts |-> pay[a]]
    BY <1>4 DEF pay, FundPay
  <2> QED
    BY <2>1, <2>2
<1>12. \A m \in Members :
         pay[Fund(m)] = 0 \/ pay[Fund(m)] <= Balance(w, Fund(m))
  BY <1>4, <1>8, AccountsAre
<1> HIDE DEF applied
<1>13. Pays(w, applied, pay, n)
  <2>1. /\ 2 * (SumFunction(pay) - AtLeastZero(applied)) <= n
        /\ 2 * (SumFunction(pay) - AtLeastZero(applied)) >= -n
    BY <1>5, <1>6, <1>8, <1>9, <1>10
  <2> QED
    BY <1>4, <1>7, <1>10, <1>11, <1>12, <2>1 DEF Pays
<1> QED
  BY <1>3, <1>13 DEF P, whole, loss, pay, applied, n

(* The limits of the survivors and their tenths, over the paying accounts. *)
LEMMA TenthsOfLimits ==
    ASSUME TypeOK, NEW w \in Workers
    PROVE  LET P == Limited(w) \X {"SETTLEMENT"}
               tenth == [a \in P |-> Limit[a[1]] \div 10]
           IN  /\ IsFiniteSet(P) /\ P \in SUBSET (Members \X {"SETTLEMENT"})
               /\ \A a \in P : /\ tenth[a] \in Nat \ {0}
                               /\ Limit[a[1]] = 10 * tenth[a]
               /\ SumFunctionOnSet(tenth, P) \in Nat
               /\ AllLimits(w) = 10 * SumFunctionOnSet(tenth, P)
<1> DEFINE K == Limited(w)
           P == K \X {"SETTLEMENT"}
           tenth == [a \in P |-> Limit[a[1]] \div 10]
           all == [a \in P |-> Limit[a[1]]]
           limit == [m \in K |-> Limit[m]]
           account == [m \in K |-> <<m, "SETTLEMENT">>]
<1>1. K \subseteq Members /\ \A m \in K : Limit[m] > 0
  BY DEF Limited, Survivors, TypeOK
<1>2. IsFiniteSet(K) /\ IsFiniteSet(P)
  <2>1. IsFiniteSet(K) /\ IsFiniteSet({"SETTLEMENT"})
    BY <1>1, WaterfallAssumption, FS_Subset, FS_Singleton
  <2> HIDE DEF K
  <2> QED
    BY <2>1, FS_Product
<1>3. \A m \in K : /\ Limit[m] \in Nat /\ Limit[m] \div 10 \in Nat \ {0}
                   /\ Limit[m] = 10 * (Limit[m] \div 10)
  BY <1>1, WaterfallAssumption
<1>4. \A a \in P : a[1] \in K /\ a = account[a[1]]
  OBVIOUS
<1>5. /\ P = {account[m] : m \in K}
      /\ \A m \in K : account[m] \in P /\ all[account[m]] = limit[m]
      /\ \A m, k \in K : account[m] = account[k] => m = k
  <2>1. \A m \in K : /\ account[m] = <<m, "SETTLEMENT">> /\ account[m] \in P
                     /\ account[m][1] = m
    OBVIOUS
  <2>2. \A m \in K : all[account[m]] = limit[m]
    BY <2>1
  <2> HIDE DEF all, limit
  <2>3. P = {account[m] : m \in K}
    BY <1>4, <2>1
  <2> HIDE DEF P, K, account
  <2> QED
    BY <2>1, <2>2, <2>3
<1>6. AllLimits(w) = SumFunctionOnSet(limit, K)
  BY DEF AllLimits, SumFunction
<1>7. \A m \in K : limit[m] = Limit[m]
  OBVIOUS
<1>8. \A a \in P : all[a] = Limit[a[1]] /\ tenth[a] = Limit[a[1]] \div 10
  OBVIOUS
<1> HIDE DEF K, P, tenth, all, limit, account
<1>9. \A a \in P : /\ tenth[a] \in Nat \ {0}
                   /\ Limit[a[1]] = 10 * tenth[a] /\ all[a] = 10 * tenth[a]
  BY <1>3, <1>4, <1>8
<1>10. SumFunctionOnSet(all, P) = SumFunctionOnSet(limit, K)
  <2>1. \A m \in K : all[account[m]] \in Int /\ limit[m] = all[account[m]]
    BY <1>3, <1>5, <1>7
  <2>2. SumFunctionOnSet(all, {account[m] : m \in K})
          = SumFunctionOnSet(limit, K)
    BY <1>2, <1>5, <2>1, SumImage
  <2> QED
    BY <1>5, <2>2
<1>11. SumFunctionOnSet(all, P) = 10 * SumFunctionOnSet(tenth, P)
  <2>1. \A a \in P : tenth[a] \in Int /\ all[a] = 10 * tenth[a]
    BY <1>9
  <2> QED
    BY <1>2, <2>1, SumScaled
<1>12. SumFunctionOnSet(tenth, P) \in Nat
  <2>1. \A a \in P : tenth[a] \in Nat
    BY <1>9
  <2> QED
    BY <1>2, <2>1, SumNat
<1>13. P \in SUBSET (Members \X {"SETTLEMENT"})
  BY <1>1 DEF P
<1>14. AllLimits(w) = 10 * SumFunctionOnSet(tenth, P)
  BY <1>6, <1>10, <1>11
<1> QED
  BY <1>2, <1>9, <1>12, <1>13, <1>14 DEF P, tenth, K

(* _step_loss_allocation takes nothing from a contribution.                *)
LEMMA LimitPays ==
    ASSUME TypeOK, NEW w \in Workers, remaining[w] >= 0
    PROVE  /\ AllLimits(w) \in Nat
           /\ Pays(w, Smaller(AllLimits(w) \div 10, remaining[w]), LimitPay(w),
                   Cardinality(Members))
<1> DEFINE P == Limited(w) \X {"SETTLEMENT"}
           tenth == [a \in P |-> Limit[a[1]] \div 10]
           whole == SumFunctionOnSet(tenth, P)
           loss == remaining[w]
           pay == LimitPay(w)
           applied == Smaller(whole, loss)
           n == Cardinality(Members)
<1>1. loss \in Nat
  BY DEF TypeOK
<1>2. /\ IsFiniteSet(P) /\ P \in SUBSET (Members \X {"SETTLEMENT"})
      /\ \A a \in P : tenth[a] \in Nat \ {0} /\ Limit[a[1]] = 10 * tenth[a]
      /\ whole \in Nat /\ AllLimits(w) = 10 * whole
  BY TenthsOfLimits
<1>3. /\ \A a \in P : pay[a] = Smaller(Share(Limit[a[1]], AllLimits(w), loss),
                                       Limit[a[1]] \div 10)
      /\ \A a \in Accounts : a \notin P => pay[a] = 0
      /\ P \in SUBSET (Accounts \ {Collected}) /\ Collected \in Accounts
      /\ \A m \in Members : Fund(m) \in Accounts /\ Fund(m) \notin P
  <2>1. \A a \in Members \X {"SETTLEMENT"} :
          \E m \in Members : a = <<m, "SETTLEMENT">>
    OBVIOUS
  <2>2. Members \X {"SETTLEMENT"} \in SUBSET (Accounts \ {Collected})
    BY <2>1, AccountsAre
  <2>3. P \in SUBSET (Accounts \ {Collected})
    <3> HIDE DEF P
    <3> QED
      BY <1>2, <2>2
  <2>4. \A m \in Members : Fund(m) \notin P
    BY DEF Fund
  <2>5. \A a \in Accounts : pay[a] =
          IF a \in P THEN Smaller(Share(Limit[a[1]], AllLimits(w), loss),
                                 Limit[a[1]] \div 10)
          ELSE 0
    BY DEF LimitPay
  <2> HIDE DEF P, pay
  <2> QED
    BY <2>3, <2>4, <2>5, AccountsAre
<1>4. Cardinality(P) <= n /\ n \in Nat /\ Cardinality(P) \in Nat
  <2>1. /\ IsFiniteSet(Members \X {"SETTLEMENT"})
        /\ Cardinality(Members \X {"SETTLEMENT"}) = n * 1
    <3>1. IsFiniteSet(Members) /\ IsFiniteSet({"SETTLEMENT"})
          /\ Cardinality({"SETTLEMENT"}) = 1
      BY WaterfallAssumption, FS_Singleton
    <3> QED
      BY <3>1, FS_Product
  <2>2. n \in Nat
    BY AccountsAre
  <2> HIDE DEF P, n
  <2>3. n * 1 = n
    BY <2>2
  <2>4. Cardinality(P) <= n
    BY <1>2, <2>1, <2>3, FS_Subset
  <2> QED
    BY <1>2, <2>2, <2>4, FS_CardinalityType
<1>5. SumFunction(pay) = SumFunctionOnSet(pay, Accounts)
      /\ pay = [a \in Accounts |-> pay[a]]
  BY DEF SumFunction, LimitPay
<1>6. AllLimits(w) \in Nat /\ AllLimits(w) \div 10 = whole
  <2> HIDE DEF whole
  <2> QED
    BY <1>2
<1> HIDE DEF P, tenth, whole, loss, pay, n
<1>7. /\ \A a \in P : pay[a] \in Nat
      /\ SumFunctionOnSet(pay, P) \in Int
      /\ 2 * SumFunctionOnSet(pay, P) - 2 * applied <= n
      /\ 2 * SumFunctionOnSet(pay, P) - 2 * applied >= -n
  <2>1. CASE P = {}
    <3>1. whole = 0 /\ SumFunctionOnSet(pay, P) = 0
      BY <2>1, SumEmpty DEF whole
    <3> QED
      BY <1>1, <1>4, <2>1, <3>1 DEF Smaller
  <2>2. CASE P # {}
    <3>1. whole \in Nat \ {0}
      <4>1. PICK a \in P : TRUE
        BY <2>2
      <4>2. /\ SumFunctionOnSet(tenth, P)
                 = tenth[a] + SumFunctionOnSet(tenth, P \ {a})
            /\ SumFunctionOnSet(tenth, P \ {a}) \in Nat
        <5>1. \A b \in P : tenth[b] \in Int /\ tenth[b] \in Nat
          BY <1>2
        <5>2. IsFiniteSet(P \ {a})
          BY <1>2, FS_Subset
        <5> QED
          BY <1>2, <5>1, <5>2, SumRemove, SumNat
      <4>3. tenth[a] \in Nat \ {0}
        BY <1>2
      <4> QED
        BY <4>2, <4>3 DEF whole
    <3>2. \A a \in P : pay[a] = Smaller(Share(tenth[a], whole, loss), tenth[a])
      <4>1. SUFFICES ASSUME NEW a \in P
                     PROVE  pay[a]
                       = Smaller(Share(tenth[a], whole, loss), tenth[a])
        OBVIOUS
      <4>2. tenth[a] \in Nat /\ Limit[a[1]] = 10 * tenth[a]
        BY <1>2
      <4>3. /\ Share(10 * tenth[a], 10 * whole, loss)
                 = Share(tenth[a], whole, loss)
            /\ (10 * tenth[a]) \div 10 = tenth[a]
        BY <1>1, <3>1, <4>2, SharesOfTenths
      <4> QED
        BY <1>2, <1>3, <4>2, <4>3
    <3>3. /\ \A a \in P : pay[a] \in Nat
          /\ SumFunctionOnSet(pay, P) \in Int
          /\ 2 * SumFunctionOnSet(pay, P) - 2 * applied <= Cardinality(P)
          /\ 2 * SumFunctionOnSet(pay, P) - 2 * applied >= -Cardinality(P)
      BY <1>1, <1>2, <2>2, <3>2, ProRata DEF whole
    <3>4. applied \in Int
      BY <1>1, <3>1 DEF Smaller
    <3> QED
      BY <1>4, <3>3, <3>4
  <2> QED
    BY <2>1, <2>2
<1>8. SumFunctionOnSet(pay, Accounts) = SumFunctionOnSet(pay, P)
  <2>1. IsFiniteSet(Accounts) /\ P \subseteq Accounts
        /\ (\A a \in P : pay[a] \in Int)
        /\ (\A a \in Accounts \ P : pay[a] = 0)
    BY <1>3, <1>7, AccountsAre
  <2> QED
    BY <2>1, SumWithin
<1>9. applied \in Int /\ AtLeastZero(applied) = applied
  BY <1>1, <1>2 DEF Smaller, AtLeastZero
<1>10. pay \in [Accounts -> Int] /\ pay[Collected] = 0
       /\ \A m \in Members : pay[Fund(m)] = 0
  <2>1. \A a \in Accounts : pay[a] \in Int
    BY <1>3, <1>7
  <2> QED
    BY <1>3, <1>5, <2>1
<1> HIDE DEF applied
<1>11. Pays(w, applied, pay, n)
  <2>1. /\ 2 * (SumFunction(pay) - AtLeastZero(applied)) <= n
        /\ 2 * (SumFunction(pay) - AtLeastZero(applied)) >= -n
    BY <1>4, <1>5, <1>7, <1>8, <1>9
  <2> QED
    BY <1>9, <1>10, <2>1 DEF Pays
<1> QED
  BY <1>6, <1>11 DEF applied, loss, pay, n

-----------------------------------------------------------------------------
(* Balanced journals: what they take from the payers they give to the CCP. *)
LEMMA JournalsBalance ==
    ASSUME NEW old \in [Accounts -> Int], NEW pay \in [Accounts -> Int],
           pay[Collected] = 0
    PROVE  /\ WaterfallJournals(old, pay) \in [Accounts -> Int]
           /\ SumFunctionOnSet(WaterfallJournals(old, pay), Accounts)
                = SumFunctionOnSet(old, Accounts)
           /\ WaterfallJournals(old, pay)[Collected]
                = old[Collected] + SumFunction(pay)
           /\ SumFunction(pay) \in Int
           /\ \A a \in Accounts :
                a # Collected =>
                  WaterfallJournals(old, pay)[a] = old[a] - pay[a]
<1> DEFINE total == SumFunction(pay)
           J == WaterfallJournals(old, pay)
           less == [a \in Accounts |-> (-1) * pay[a]]
           rest == [a \in Accounts |-> old[a] + less[a]]
           gain == [a \in Accounts |-> IF a = Collected THEN total ELSE 0]
<1>1. IsFiniteSet(Accounts) /\ Collected \in Accounts
  BY AccountsAre
<1>2. total = SumFunctionOnSet(pay, Accounts)
  BY DEF SumFunction
<1>3. total \in Int
  BY <1>1, <1>2, SumInt
<1> HIDE DEF total
<1>4. \A a \in Accounts : J[a] = old[a] - pay[a] + gain[a]
  BY DEF WaterfallJournals, total
<1>5. /\ J = [a \in Accounts |-> J[a]]
      /\ gain[Collected] = total
      /\ \A a \in Accounts \ {Collected} : gain[a] = 0
      /\ \A a \in Accounts : gain[a] \in Int
  BY <1>1, <1>3 DEF WaterfallJournals
<1>6. \A a \in Accounts : /\ less[a] = (-1) * pay[a] /\ less[a] \in Int
                          /\ rest[a] = old[a] + less[a] /\ rest[a] \in Int
                          /\ less[a] = -pay[a]
  OBVIOUS
<1> HIDE DEF J, less, rest, gain
<1>7. \A a \in Accounts : J[a] = rest[a] + gain[a] /\ J[a] \in Int
  BY <1>4, <1>5, <1>6
<1>8. SumFunctionOnSet(J, Accounts)
        = SumFunctionOnSet(rest, Accounts) + SumFunctionOnSet(gain, Accounts)
  BY <1>1, <1>5, <1>6, <1>7, SumPlus
<1>9. SumFunctionOnSet(rest, Accounts)
        = SumFunctionOnSet(old, Accounts) + SumFunctionOnSet(less, Accounts)
  BY <1>1, <1>6, SumPlus
<1>10. SumFunctionOnSet(less, Accounts) = (-1) * total
  <2>1. /\ -1 \in Int
        /\ \A a \in Accounts : pay[a] \in Int /\ less[a] = (-1) * pay[a]
    BY <1>6
  <2> QED
    BY <1>1, <1>2, <2>1, SumScaled
<1>11. SumFunctionOnSet(gain, Accounts) = total
  <2>1. SumFunctionOnSet(gain, Accounts) = SumFunctionOnSet(gain, {Collected})
    BY <1>1, <1>3, <1>5, SumWithin
  <2>2. SumFunctionOnSet(gain, {Collected}) = gain[Collected]
    BY <1>3, <1>5, SumOfOne
  <2> QED
    BY <1>5, <2>1, <2>2
<1>12. SumFunctionOnSet(old, Accounts) \in Int
  BY <1>1, SumInt
<1>13. SumFunctionOnSet(J, Accounts) = SumFunctionOnSet(old, Accounts)
  BY <1>3, <1>8, <1>9, <1>10, <1>11, <1>12
<1>14. /\ J \in [Accounts -> Int]
       /\ J[Collected] = old[Collected] + total
       /\ \A a \in Accounts : a # Collected => J[a] = old[a] - pay[a]
  BY <1>1, <1>3, <1>4, <1>5, <1>7
<1> QED
  BY <1>3, <1>13, <1>14 DEF J, total

(* What a transaction that is done leaves of the others, in private. *)
Apart(w) ==
    \A v \in Workers \ {w} :
        /\ wpc'[v] = wpc[v] /\ event'[v] = event[v]
        /\ remaining'[v] = remaining[v] /\ moved'[v] = moved[v]
        /\ steps'[v] = steps[v]

(* A step that pays what Pays says leaves its waterfall as WorkerInv says, *)
(* with that much more slack.                                              *)
LEMMA RecordStep ==
    ASSUME TypeOK, NEW w \in Workers, wpc[w] \in Layers, WorkerInv(w),
           NEW layer \in Layers, NEW available \in Int, NEW applied, NEW pay,
           NEW crumb \in -1..1, NEW next \in Layers \cup {"finish"},
           NEW s \in Nat, Pays(w, applied, pay, s),
           Slack(wpc[w]) \in Nat, Slack(next) \in Nat, Slack("finish") \in Nat,
           Slack(wpc[w]) + s <= Slack(next),
           Slack(wpc[w]) + s <= Slack("finish"),
           Record(w, layer, available, applied, pay, crumb, next)
    PROVE  /\ TypeOK' /\ WorkerInv(w)' /\ Apart(w) /\ event' = event
           /\ UNCHANGED <<crew, opening, ledger, todo, done, acked>>
           /\ \A m \in Members : Balance(w, Fund(m)) >= 0 =>
                                    Balance(w, Fund(m))' >= 0
<1> DEFINE rest == remaining[w] - applied
           row == [layer |-> layer, available |-> available,
                   applied |-> applied, remaining |-> rest]
           to == IF IsLeft(rest, crumb) THEN next ELSE "finish"
<1>1. /\ moved[w] \in [Accounts -> Int] /\ remaining[w] \in Int
      /\ steps[w] \in Seq(StepRows)
  BY DEF TypeOK
<1>2. applied \in Int /\ pay \in [Accounts -> Int] /\ pay[Collected] = 0
  BY DEF Pays
<1>3. rest \in Int /\ row \in StepRows /\ row.applied = applied
  BY <1>1, <1>2 DEF StepRows
<1>4. /\ Append(steps[w], row) \in Seq(StepRows)
      /\ Applied(steps[w]) \in Int /\ Covered(steps[w]) \in Int
      /\ Applied(Append(steps[w], row)) = Applied(steps[w]) + applied
      /\ Covered(Append(steps[w], row))
           = Covered(steps[w]) + AtLeastZero(applied)
  <2> HIDE DEF row
  <2> QED
    BY <1>1, <1>3, OneRowMore DEF AtLeastZero
<1>5. LET J == WaterfallJournals(moved[w], pay)
      IN  /\ J \in [Accounts -> Int]
          /\ SumFunctionOnSet(J, Accounts)
               = SumFunctionOnSet(moved[w], Accounts)
          /\ J[Collected] = moved[w][Collected] + SumFunction(pay)
          /\ SumFunction(pay) \in Int
          /\ \A a \in Accounts : a # Collected => J[a] = moved[w][a] - pay[a]
  BY <1>1, <1>2, JournalsBalance
<1>6. /\ moved'[w] = WaterfallJournals(moved[w], pay)
      /\ steps'[w] = Append(steps[w], row)
      /\ remaining'[w] = rest /\ dust'[w] = crumb /\ wpc'[w] = to
      /\ UNCHANGED <<crew, opening, ledger, active, todo, event, done, acked,
                     faults>>
      /\ Apart(w)
  BY DEF Record, Apart, TypeOK
<1>7. to \in Layers \cup {"finish"}
  OBVIOUS
<1>8. TypeOK'
  <2>1. /\ moved' \in [Workers -> [Accounts -> Int]]
        /\ steps' \in [Workers -> Seq(StepRows)]
        /\ remaining' \in [Workers -> Int]
        /\ dust' \in [Workers -> -1..1]
        /\ wpc' \in [Workers -> {"idle", "finish"} \cup Layers]
    <3> HIDE DEF row, rest, to
    <3>1. /\ moved' = [moved EXCEPT ![w] = WaterfallJournals(@, pay)]
          /\ steps' = [steps EXCEPT ![w] = Append(@, row)]
          /\ remaining' = [remaining EXCEPT ![w] = rest]
          /\ dust' = [dust EXCEPT ![w] = crumb]
          /\ wpc' = [wpc EXCEPT ![w] = to]
      BY DEF Record, row, rest, to
    <3> QED
      BY <1>3, <1>4, <1>5, <1>7, <3>1 DEF TypeOK
  <2> QED
    BY <1>6, <2>1 DEF TypeOK
<1>9. wpc[w] # "idle" /\ wpc'[w] # "idle"
  BY <1>6, <1>7 DEF Layers
<1>10. wpc'[w] \in Layers => remaining'[w] >= 0
  <2>1. to \in Layers => rest >= 0
    BY <1>3 DEF IsLeft, Layers
  <2> QED
    BY <1>6, <2>1
<1>11. Slack(to) \in Nat /\ Slack(wpc[w]) + s <= Slack(to)
  OBVIOUS
<1>12. WorkerInv(w)'
  <2>1. /\ event'[w] \in Events /\ event'[w] \notin acked' /\ w \in crew'
        /\ SumFunctionOnSet(moved'[w], Accounts) = 0
    BY <1>5, <1>6, <1>9 DEF WorkerInv
  <2>2. Applied(steps'[w]) + remaining'[w] = todo'[event'[w]].loss
    <3>1. Applied(steps[w]) + remaining[w] = todo[event[w]].loss
      BY <1>9 DEF WorkerInv
    <3> QED
      BY <1>1, <1>2, <1>4, <1>6, <3>1
  <2>3. /\ 2 * (moved'[w][Collected] - Covered(steps'[w])) <= Slack(wpc'[w])
        /\ 2 * (moved'[w][Collected] - Covered(steps'[w])) >= -Slack(wpc'[w])
    <3>1. /\ 2 * (moved[w][Collected] - Covered(steps[w])) <= Slack(wpc[w])
          /\ 2 * (moved[w][Collected] - Covered(steps[w])) >= -Slack(wpc[w])
      BY <1>9 DEF WorkerInv
    <3>2. /\ 2 * (SumFunction(pay) - AtLeastZero(applied)) <= s
          /\ 2 * (SumFunction(pay) - AtLeastZero(applied)) >= -s
      BY DEF Pays
    <3>3. /\ moved'[w][Collected] = moved[w][Collected] + SumFunction(pay)
          /\ Covered(steps'[w]) = Covered(steps[w]) + AtLeastZero(applied)
      BY <1>4, <1>5, <1>6
    <3>4. /\ moved[w][Collected] \in Int /\ Covered(steps[w]) \in Int
          /\ SumFunction(pay) \in Int /\ AtLeastZero(applied) \in Int
      BY <1>1, <1>2, <1>4, <1>5, AccountsAre DEF AtLeastZero
    <3>5. Slack(wpc'[w]) = Slack(to)
      BY <1>6
    <3> HIDE DEF to
    <3>6. Slack(wpc[w]) + s <= Slack(wpc'[w]) /\ Slack(wpc'[w]) \in Nat
      BY <1>11, <3>5
    <3> QED
      BY <3>1, <3>2, <3>3, <3>4, <3>6
  <2> QED
    BY <1>9, <1>10, <2>1, <2>2, <2>3 DEF WorkerInv
<1>13. ASSUME NEW m \in Members, Balance(w, Fund(m)) >= 0
       PROVE  Balance(w, Fund(m))' >= 0
  <2>1. /\ moved'[w][Fund(m)] = moved[w][Fund(m)] - pay[Fund(m)]
        /\ ledger' = ledger /\ Fund(m) \in Accounts
    BY <1>5, <1>6, AccountsAre
  <2>2. /\ ledger[Fund(m)] \in Int /\ moved[w][Fund(m)] \in Int
        /\ pay[Fund(m)] \in Int
    BY <1>1, <1>2, <2>1 DEF TypeOK
  <2>3. pay[Fund(m)] = 0 \/ pay[Fund(m)] <= Balance(w, Fund(m))
    BY DEF Pays
  <2> QED
    BY <1>13, <2>1, <2>2, <2>3 DEF Balance
<1> QED
  BY <1>6, <1>8, <1>12, <1>13

(* The slack of each place.                                                *)
LEMMA SlackIs ==
    /\ \A p \in Layers \cup {"idle", "finish"} : Slack(p) \in Nat
    /\ \A p \in {"idle", "margin", "fund", "equity", "mutual"} : Slack(p) = 0
    /\ Slack("allocation") = Cardinality(Members)
    /\ Slack("finish") = 2 * Cardinality(Members)
    /\ Cardinality(Members) \in Nat
  BY AccountsAre DEF Slack, Layers

(* The same, where the next place allows the slack of the step.            *)
LEMMA StepWithin ==
    ASSUME TypeOK, NEW w \in Workers, wpc[w] \in Layers, WorkerInv(w),
           NEW layer \in Layers, NEW available \in Int, NEW applied, NEW pay,
           NEW crumb \in -1..1, NEW next \in Layers \cup {"finish"},
           NEW s \in Nat, Pays(w, applied, pay, s),
           Slack(wpc[w]) + s <= Slack(next), Slack(next) <= Slack("finish"),
           Record(w, layer, available, applied, pay, crumb, next)
    PROVE  /\ TypeOK' /\ WorkerInv(w)' /\ Apart(w) /\ event' = event
           /\ UNCHANGED <<crew, opening, ledger, todo, done, acked>>
           /\ \A m \in Members : Balance(w, Fund(m)) >= 0 =>
                                    Balance(w, Fund(m))' >= 0
<1>1. /\ Slack(wpc[w]) \in Nat /\ Slack(next) \in Nat
      /\ Slack("finish") \in Nat /\ Slack(wpc[w]) + s <= Slack("finish")
  <2>1. /\ Slack(wpc[w]) \in Nat /\ Slack(next) \in Nat
        /\ Slack("finish") \in Nat
    BY SlackIs
  <2> QED
    BY <2>1
<1> QED
  BY <1>1, RecordStep

(* Each step of execute_waterfall is such a record, of what Pays says. *)
LEMMA LayerStep ==
    ASSUME TypeOK, NEW w \in Workers, WorkerInv(w),
           \/ DefaulterMargin(w) \/ DefaulterDefaultFund(w) \/ CcpEquity(w)
           \/ SurvivingDefaultFund(w) \/ LossAllocation(w)
    PROVE  /\ TypeOK' /\ WorkerInv(w)' /\ Apart(w) /\ event' = event
           /\ UNCHANGED <<crew, opening, ledger, todo, done, acked>>
           /\ \A m \in Members : Balance(w, Fund(m)) >= 0 =>
                                    Balance(w, Fund(m))' >= 0
<1> DEFINE n == Cardinality(Members)
<1>1. wpc[w] \in Layers /\ wpc[w] # "idle" /\ remaining[w] \in Nat
  <2>1. wpc[w] \in Layers /\ wpc[w] # "idle" /\ remaining[w] \in Int
    BY DEF DefaulterMargin, DefaulterDefaultFund, CcpEquity,
       SurvivingDefaultFund, LossAllocation, Layers, TypeOK
  <2> QED
    BY <2>1 DEF WorkerInv
<1>2. Defaulter(w) \in Members
  BY <1>1 DEF WorkerInv, TypeOK, Defaulter, Defaults
<1>3. CASE DefaulterMargin(w)
  <2> DEFINE m == Defaulter(w)
             available == Total(w, Positive(w, MarginAccounts(m)))
             applied == Smaller(available, remaining[w])
             account == <<m, "IM_AVAILABLE">>
             pay == From(account, applied)
  <2>1. available \in Int
    <3>1. MarginAccounts(m) \in SUBSET Accounts
      BY <1>2, AccountsAre
    <3>2. Total(w, Positive(w, MarginAccounts(m))) \in Nat
      <4> HIDE DEF m
      <4> QED
        BY <3>1, TotalIsNat
    <3> QED
      BY <3>2
  <2>2. applied \in Int
    <3> HIDE DEF available
    <3> QED
      BY <1>1, <2>1 DEF Smaller
  <2>3. /\ account \in Accounts /\ account # Collected
        /\ \A k \in Members : account # Fund(k)
    BY <1>2, AccountsAre DEF Collected, Fund
  <2>4. Pays(w, applied, pay, 0)
    <3> HIDE DEF applied, account
    <3> QED
      BY <2>2, <2>3, OnePays
  <2>5. /\ wpc[w] = "margin"
        /\ Record(w, "margin", available, applied, pay, 0, "fund")
    BY <1>3 DEF DefaulterMargin
  <2> HIDE DEF available, applied, pay
  <2> QED
    BY <1>1, <2>1, <2>4, <2>5, StepWithin, SlackIs DEF Layers
<1>4. ASSUME NEW layer \in {"fund", "equity"}, wpc[w] = layer,
             NEW account \in Accounts, account # Collected,
             NEW next \in {"equity", "mutual"},
             SinglePayer(w, layer, account, next)
      PROVE  /\ TypeOK' /\ WorkerInv(w)' /\ Apart(w) /\ event' = event
             /\ UNCHANGED <<crew, opening, ledger, todo, done, acked>>
             /\ \A m \in Members : Balance(w, Fund(m)) >= 0 =>
                                      Balance(w, Fund(m))' >= 0
  <2> DEFINE available == Balance(w, account)
             applied == Smaller(available, remaining[w])
             pay == From(account, applied)
  <2>1. available \in Int /\ applied \in Int /\ applied <= available
    BY <1>1, BalanceIsInt DEF Smaller
  <2>2. Pays(w, applied, pay, 0)
    <3> HIDE DEF applied
    <3> QED
      BY <1>4, <2>1, OnePays
  <2>3. Record(w, layer, available, applied, pay, 0, next)
    BY <1>4 DEF SinglePayer
  <2>4. /\ Slack(wpc[w]) = 0 /\ Slack(next) = 0 /\ layer \in Layers
        /\ next \in Layers
    BY <1>4, SlackIs DEF Layers
  <2>5. /\ Slack(wpc[w]) + 0 <= Slack(next) /\ Slack(next) <= Slack("finish")
        /\ 0 \in Nat /\ 0 \in -1..1
    BY <2>4, SlackIs
  <2> HIDE DEF available, applied, pay
  <2> QED
    BY <1>1, <2>1, <2>2, <2>3, <2>4, <2>5, StepWithin
<1>5. CASE DefaulterDefaultFund(w)
  <2>1. /\ wpc[w] = "fund" /\ Fund(Defaulter(w)) \in Accounts
        /\ Fund(Defaulter(w)) # Collected
        /\ SinglePayer(w, "fund", Fund(Defaulter(w)), "equity")
    BY <1>2, <1>5, AccountsAre DEF DefaulterDefaultFund, Fund
  <2> QED
    BY <1>4, <2>1
<1>6. CASE CcpEquity(w)
  <2>1. /\ wpc[w] = "equity" /\ <<"CCP", "CCP_EQUITY">> \in Accounts
        /\ <<"CCP", "CCP_EQUITY">> # Collected
        /\ SinglePayer(w, "equity", <<"CCP", "CCP_EQUITY">>, "mutual")
    BY <1>6, AccountsAre DEF CcpEquity, Collected
  <2> QED
    BY <1>4, <2>1
<1>7. CASE SurvivingDefaultFund(w)
  <2> DEFINE payers == Positive(w, Survivors(w) \X {"DEFAULT_FUND"})
             whole == Total(w, payers)
             applied == Smaller(whole, remaining[w])
  <2>1. whole \in Int /\ Pays(w, applied, FundPay(w), n)
    BY <1>1, FundPays
  <2>2. wpc[w] = "mutual" /\ \E crumb \in -1..1 :
          Record(w, "mutual", whole, applied, FundPay(w), crumb, "allocation")
    BY <1>7 DEF SurvivingDefaultFund, DustOf
  <2>3. PICK crumb \in -1..1 :
          Record(w, "mutual", whole, applied, FundPay(w), crumb, "allocation")
    BY <2>2
  <2>4. /\ Slack(wpc[w]) = 0 /\ Slack("allocation") = n
        /\ Slack("finish") = 2 * n /\ n \in Nat
        /\ "mutual" \in Layers /\ "allocation" \in Layers
    BY <2>2, SlackIs DEF Layers
  <2> HIDE DEF whole, applied, n
  <2>5. /\ 0 <= Slack("allocation") - n /\ n <= Slack("finish")
        /\ Slack(wpc[w]) + n <= Slack("allocation")
    BY <2>4
  <2> QED
    BY <1>1, <2>1, <2>3, <2>4, <2>5, StepWithin
<1>8. CASE LossAllocation(w)
  <2> DEFINE whole == AllLimits(w)
             applied == Smaller(whole \div 10, remaining[w])
  <2>1. whole \in Int /\ Pays(w, applied, LimitPay(w), n)
    BY <1>1, LimitPays
  <2>2. wpc[w] = "allocation" /\ \E crumb \in -1..1 :
          Record(w, "allocation", whole, applied, LimitPay(w), crumb, "finish")
    <3> DEFINE crumbs == IF Limited(w) = {} THEN {dust[w]}
                         ELSE DustOf({Limit[m] : m \in Limited(w)}, whole,
                                     remaining[w], whole \div 10)
    <3>1. dust[w] \in -1..1
      BY DEF TypeOK
    <3>2. \A parts, x, loss, cover :
            DustOf(parts, x, loss, cover) \in SUBSET (-1..1)
      BY DEF DustOf
    <3>3. wpc[w] = "allocation" /\ \E crumb \in crumbs :
            Record(w, "allocation", whole, applied, LimitPay(w), crumb,
                   "finish")
      BY <1>8 DEF LossAllocation
    <3>4. crumbs \in SUBSET (-1..1)
      BY <3>1, <3>2
    <3> HIDE DEF crumbs, whole, applied
    <3> QED
      BY <3>3, <3>4
  <2>3. PICK crumb \in -1..1 :
          Record(w, "allocation", whole, applied, LimitPay(w), crumb, "finish")
    BY <2>2
  <2>4. /\ Slack(wpc[w]) = n /\ Slack("finish") = 2 * n /\ n \in Nat
        /\ "allocation" \in Layers
    BY <2>2, SlackIs DEF Layers
  <2> HIDE DEF whole, applied, n
  <2>5. /\ Slack(wpc[w]) + n <= Slack("finish")
        /\ Slack("finish") <= Slack("finish")
        /\ "finish" \in Layers \cup {"finish"}
    BY <2>4
  <2> QED
    BY <1>1, <2>1, <2>3, <2>4, <2>5, StepWithin
<1> QED
  BY <1>3, <1>5, <1>6, <1>7, <1>8

-----------------------------------------------------------------------------
(* A transaction that has written nothing. *)
LEMMA UnmovedIs ==
    /\ Unmoved \in [Accounts -> Int] /\ \A a \in Accounts : Unmoved[a] = 0
    /\ SumFunctionOnSet(Unmoved, Accounts) = 0
<1>1. Unmoved \in [Accounts -> Int] /\ \A a \in Accounts : Unmoved[a] = 0
  BY DEF Unmoved
<1> QED
  BY <1>1, AccountsAre, SumOfZeros

(* The inductive invariant holds before the first event. *)
LEMMA InitIInv ==
    ASSUME Init
    PROVE  IInv
<1>1. opening \in [Accounts -> Int] /\ crew \subseteq Workers
  BY WaterfallAssumption DEF Init
<1>2. TypeOK
  <2>1. 0 \in -1..1 /\ 0 \in 0..MaxFaults /\ <<>> \in Seq(StepRows)
    BY WaterfallAssumption
  <2> QED
    BY <1>1, <2>1, UnmovedIs DEF Init, TypeOK
<1>3. \A w \in Workers : WorkerInv(w)
  BY DEF Init, WorkerInv, Layers
<1>4. EventsApart
  BY DEF Init, EventsApart
<1>5. Recorded = {}
  BY DEF Init, Recorded
<1>6. LedgerMatchesRecord
  <2> DEFINE f == [e \in Recorded |-> Covered(done[e].steps)]
             gap == ledger[Collected] - opening[Collected] - SumFunction(f)
             shares == 2 * Cardinality(Members) * Cardinality(Recorded)
  <2>1. SumFunction(f) = 0
    <3>1. SumFunction(f) = SumFunctionOnSet(f, Recorded)
      BY DEF SumFunction
    <3> QED
      BY <1>5, <3>1, SumEmpty
  <2>2. ledger = opening /\ opening[Collected] \in Int
    BY <1>1, AccountsAre DEF Init
  <2>3. Cardinality(Recorded) = 0 /\ Cardinality(Members) \in Nat
    BY <1>5, FS_EmptySet, AccountsAre
  <2>4. shares = 0 /\ gap = 0
    <3> HIDE DEF f
    <3> QED
      BY <2>1, <2>2, <2>3
  <2>5. 2 * gap \in -shares..shares
    BY <2>4
  <2> QED
    BY <1>5, <2>2, <2>5 DEF LedgerMatchesRecord
<1>7. AloneInv
  <2>1. ASSUME NEW m \in Members, opening[Fund(m)] >= 0, NEW w \in Workers
        PROVE  ledger[Fund(m)] >= 0 /\ Balance(w, Fund(m)) >= 0
    <3>1. /\ ledger[Fund(m)] >= 0 /\ moved[w][Fund(m)] = 0
          /\ ledger[Fund(m)] \in Int
      BY <1>1, <2>1, AccountsAre, UnmovedIs DEF Init
    <3> QED
      BY <3>1 DEF Balance
  <2>2. \A m \in Members : opening[Fund(m)] >= 0 => ledger[Fund(m)] >= 0
    BY DEF Init
  <2> QED
    BY <2>1, <2>2 DEF AloneInv
<1> QED
  BY <1>1, <1>2, <1>3, <1>4, <1>5, <1>6, <1>7 DEF IInv

(* What is true of the other waterfalls stays true. *)
LEMMA OthersKeep ==
    ASSUME IInv, NEW w \in Workers, Apart(w), UNCHANGED <<crew, todo>>,
           acked' \subseteq acked \cup {event[w]}
    PROVE  \A v \in Workers \ {w} : WorkerInv(v)'
<1>1. SUFFICES ASSUME NEW v \in Workers \ {w} PROVE WorkerInv(v)'
  OBVIOUS
<1>2. /\ wpc'[v] = wpc[v] /\ event'[v] = event[v]
      /\ remaining'[v] = remaining[v] /\ moved'[v] = moved[v]
      /\ steps'[v] = steps[v]
  BY <1>1 DEF Apart
<1>3. WorkerInv(v)
  BY <1>1 DEF IInv
<1>4. wpc[v] # "idle" => event[v] \notin acked'
  <2>1. SUFFICES ASSUME wpc[v] # "idle" PROVE event[v] # event[w]
    BY <1>3 DEF WorkerInv
  <2>2. event[v] \in Events /\ NoEvent \notin Events
    BY <1>3, <2>1, WaterfallAssumption DEF WorkerInv
  <2> QED
    BY <1>1, <2>2 DEF IInv, EventsApart
<1> QED
  BY <1>2, <1>3, <1>4 DEF WorkerInv

(* A step that commits nothing leaves the ledger and the record alone. *)
LEMMA NothingCommitted ==
    ASSUME IInv, NEW w \in Workers, Apart(w), TypeOK', WorkerInv(w)',
           UNCHANGED <<crew, opening, ledger, todo, done>>,
           acked' \subseteq acked \cup {event[w]}, acked \subseteq acked',
           \A v \in Workers \ {w} :
             event'[w] = event[v] => event'[w] = NoEvent,
           \A m \in Members : ledger[Fund(m)] >= 0 /\ Balance(w, Fund(m)) >= 0
                                => Balance(w, Fund(m))' >= 0
    PROVE  IInv'
<1>1. \A v \in Workers : WorkerInv(v)'
  BY OthersKeep
<1>2. EventsApart'
  <2>1. SUFFICES ASSUME NEW v \in Workers, NEW u \in Workers, v # u,
                        event'[v] = event'[u]
                 PROVE  event'[v] = NoEvent
    BY DEF EventsApart
  <2>2. \A x \in Workers : x # w => event'[x] = event[x]
    BY DEF Apart
  <2>3. CASE v = w
    BY <2>1, <2>2, <2>3
  <2>4. CASE u = w
    BY <2>1, <2>2, <2>4
  <2>5. CASE v # w /\ u # w
    BY <2>1, <2>2, <2>5 DEF IInv, EventsApart
  <2> QED
    BY <2>3, <2>4, <2>5
<1>3. Recorded' = Recorded /\ Recorded' \subseteq acked'
  BY DEF IInv, Recorded
<1>4. LedgerMatchesRecord'
  BY <1>3 DEF IInv, LedgerMatchesRecord
<1>5. AloneInv'
  <2>1. ASSUME NEW m \in Members, NEW v \in Workers \ {w}
        PROVE  Balance(v, Fund(m))' = Balance(v, Fund(m))
    BY DEF Balance, Apart
  <2> QED
    BY <2>1 DEF IInv, AloneInv
<1> QED
  BY <1>1, <1>2, <1>3, <1>4, <1>5 DEF IInv

(* The five steps of a waterfall keep the invariant.                       *)
LEMMA LayerKeeps ==
    ASSUME IInv, NEW w \in Workers,
           \/ DefaulterMargin(w) \/ DefaulterDefaultFund(w) \/ CcpEquity(w)
           \/ SurvivingDefaultFund(w) \/ LossAllocation(w)
    PROVE  IInv'
<1>1. /\ TypeOK' /\ WorkerInv(w)' /\ Apart(w) /\ event' = event
      /\ UNCHANGED <<crew, opening, ledger, todo, done, acked>>
      /\ \A m \in Members : Balance(w, Fund(m)) >= 0 =>
                               Balance(w, Fund(m))' >= 0
  <2>1. TypeOK /\ WorkerInv(w)
    BY DEF IInv
  <2> QED
    BY <2>1, LayerStep
<1>2. \A v \in Workers \ {w} : event'[w] = event[v] => event'[w] = NoEvent
  BY <1>1 DEF IInv, EventsApart
<1> QED
  BY <1>1, <1>2, NothingCommitted

(* So does taking an event, which nobody else has in work.                 *)
LEMMA BeginKeeps ==
    ASSUME IInv, NEW w \in Workers, NEW e \in Events, Begin(w, e)
    PROVE  IInv'
<1>1. /\ wpc'[w] = "margin" /\ event'[w] = e /\ remaining'[w] = todo[e].loss
      /\ moved' = moved /\ steps' = steps /\ Apart(w)
      /\ UNCHANGED <<crew, opening, ledger, active, todo, dust, done, acked,
                     faults>>
      /\ wpc[w] = "idle" /\ w \in crew /\ e \notin acked
      /\ \A v \in Workers : event[v] # e
  BY DEF Begin, Apart, IInv, TypeOK
<1>2. todo[e].loss \in Nat
  BY WaterfallAssumption DEF IInv, TypeOK, Defaults
<1>3. TypeOK'
  <2>1. /\ wpc' \in [Workers -> {"idle", "finish"} \cup Layers]
        /\ event' \in [Workers -> Events \cup {NoEvent}]
        /\ remaining' \in [Workers -> Int]
    BY <1>2 DEF Begin, IInv, TypeOK, Layers
  <2> QED
    BY <1>1, <2>1 DEF IInv, TypeOK
<1>4. WorkerInv(w)'
  <2>1. moved[w] = Unmoved /\ steps[w] = <<>>
    BY <1>1 DEF IInv, WorkerInv
  <2>2. /\ SumFunctionOnSet(moved'[w], Accounts) = 0
        /\ moved'[w][Collected] = 0 /\ Covered(steps'[w]) = 0
        /\ Applied(steps'[w]) = 0
    BY <1>1, <2>1, UnmovedIs, NoRows, AccountsAre
  <2>3. Slack("margin") = 0
    BY SlackIs
  <2>4. Applied(steps'[w]) + remaining'[w] = todo'[event'[w]].loss
    BY <1>1, <1>2, <2>2
  <2>5. /\ 2 * (moved'[w][Collected] - Covered(steps'[w])) <= Slack(wpc'[w])
        /\ 2 * (moved'[w][Collected] - Covered(steps'[w])) >= -Slack(wpc'[w])
    BY <1>1, <2>2, <2>3
  <2>6. remaining'[w] >= 0
    BY <1>1, <1>2
  <2> QED
    BY <1>1, <2>2, <2>4, <2>5, <2>6 DEF WorkerInv
<1>5. \A m \in Members : Balance(w, Fund(m))' = Balance(w, Fund(m))
  BY <1>1 DEF Balance
<1> QED
  BY <1>1, <1>3, <1>4, <1>5, NothingCommitted

(* A transaction that is rolled back or done leaves nothing behind. *)
LEMMA ForgetClears ==
    ASSUME TypeOK, NEW w \in Workers, Forget(w)
    PROVE  /\ Apart(w) /\ WorkerInv(w)' /\ event'[w] = NoEvent
           /\ moved'[w] = Unmoved
           /\ wpc' \in [Workers -> {"idle", "finish"} \cup Layers]
           /\ event' \in [Workers -> Events \cup {NoEvent}]
           /\ remaining' \in [Workers -> Int]
           /\ dust' \in [Workers -> -1..1]
           /\ moved' \in [Workers -> [Accounts -> Int]]
           /\ steps' \in [Workers -> Seq(StepRows)]
<1>1. /\ wpc'[w] = "idle" /\ event'[w] = NoEvent /\ moved'[w] = Unmoved
      /\ steps'[w] = <<>> /\ Apart(w)
  BY DEF Forget, TypeOK, Apart
<1>2. WorkerInv(w)'
  BY <1>1 DEF WorkerInv, Layers
<1>3. 0 \in -1..1 /\ <<>> \in Seq(StepRows) /\ 0 \in Int
  OBVIOUS
<1>4. /\ wpc' \in [Workers -> {"idle", "finish"} \cup Layers]
      /\ event' \in [Workers -> Events \cup {NoEvent}]
      /\ remaining' \in [Workers -> Int]
      /\ dust' \in [Workers -> -1..1]
      /\ moved' \in [Workers -> [Accounts -> Int]]
      /\ steps' \in [Workers -> Seq(StepRows)]
  BY <1>3, UnmovedIs DEF TypeOK, Forget
<1> QED
  BY <1>1, <1>2, <1>4

(* So does losing the transaction, by an exception or with the process.    *)
LEMMA RollbackKeeps ==
    ASSUME IInv, NEW w \in Workers, Raise(w) \/ Crash(w)
    PROVE  IInv'
<1>1. /\ Forget(w) /\ UNCHANGED <<crew, opening, ledger, active, todo, done>>
      /\ wpc[w] # "idle" /\ acked \subseteq acked'
      /\ acked' \subseteq acked \cup {event[w]}
      /\ faults' = faults \/ (faults < MaxFaults /\ faults' = faults + 1)
  BY DEF Raise, Crash
<1>2. event[w] \in Events /\ TypeOK
  BY <1>1 DEF IInv, WorkerInv
<1>3. faults' \in 0..MaxFaults
  BY <1>1, <1>2, WaterfallAssumption DEF TypeOK
<1>4. TypeOK'
  BY <1>1, <1>2, <1>3, ForgetClears DEF TypeOK
<1>5. \A m \in Members : ledger[Fund(m)] >= 0 => Balance(w, Fund(m))' >= 0
  <2>1. SUFFICES ASSUME NEW m \in Members, ledger[Fund(m)] >= 0
                 PROVE  ledger'[Fund(m)] + moved'[w][Fund(m)] >= 0
    BY DEF Balance
  <2>2. /\ moved'[w][Fund(m)] = 0 /\ ledger'[Fund(m)] = ledger[Fund(m)]
        /\ ledger[Fund(m)] \in Int
    BY <1>1, <1>2, ForgetClears, UnmovedIs, AccountsAre DEF TypeOK
  <2> QED
    BY <2>1, <2>2
<1>6. Apart(w) /\ WorkerInv(w)' /\ event'[w] = NoEvent
  BY <1>1, <1>2, ForgetClears
<1> QED
  BY <1>1, <1>4, <1>5, <1>6, NothingCommitted

(* The commit adds the journals of the waterfall to the ledger and its     *)
(* rows to the record.                                                     *)
LEMMA FinishRecords ==
    ASSUME IInv, NEW w \in Workers, Finish(w)
    PROVE  /\ TypeOK' /\ Recorded' = Recorded \cup {event[w]}
           /\ event[w] \in Events \ Recorded
           /\ done'[event[w]].steps = steps[w]
           /\ done'[event[w]].remaining = remaining[w]
           /\ \A e \in Recorded : done'[e] = done[e]
<1> DEFINE e == event[w]
           new == [status |-> Status(w), steps |-> steps[w],
                   remaining |-> remaining[w]]
<1>1. /\ TypeOK
      /\ wpc[w] = "finish"
      /\ Forget(w)
      /\ e \in Events
      /\ e \notin acked
  BY DEF Finish, IInv, WorkerInv
<1>2. new \in Outcomes /\ new.status # "none"
  BY <1>1 DEF Status, Outcomes, TypeOK
<1>3. new # Nothing
  <2>1. Nothing.status = "none"
    BY DEF Nothing
  <2> HIDE DEF new
  <2> QED
    BY <1>2, <2>1
<1>4. /\ done' = [done EXCEPT ![e] = new] /\ acked' = acked \cup {e}
      /\ ledger' = [a \in Accounts |-> ledger[a] + moved[w][a]]
      /\ active' = active \ {Defaulter(w)}
      /\ UNCHANGED <<crew, opening, todo, faults>>
      /\ new.steps = steps[w] /\ new.remaining = remaining[w]
  BY DEF Finish
<1> HIDE DEF new, e
<1>5. e \notin Recorded
  BY <1>1 DEF IInv
<1>6. /\ done'[e] = new /\ \A x \in Events \ {e} : done'[x] = done[x]
      /\ done' \in [Events -> {Nothing} \cup Outcomes]
  BY <1>1, <1>2, <1>4 DEF TypeOK
<1>7. Recorded' = Recorded \cup {e}
  BY <1>1, <1>3, <1>6 DEF Recorded
<1>8. \A x \in Recorded : done'[x] = done[x]
  BY <1>5, <1>6 DEF Recorded
<1>9. ledger' \in [Accounts -> Int]
  BY <1>1, <1>4 DEF TypeOK
<1>10. active' \subseteq Members /\ acked' \subseteq Events
  BY <1>1, <1>4 DEF TypeOK
<1>11. TypeOK'
  BY <1>1, <1>4, <1>6, <1>9, <1>10, ForgetClears DEF TypeOK
<1> QED
  BY <1>1, <1>4, <1>5, <1>6, <1>7, <1>8, <1>11 DEF e

(* What the record says was moved to the CCP follows what was moved: half  *)
(* a grain for each share of one default more.                             *)
LEMMA FinishMatches ==
    ASSUME IInv, NEW w \in Workers, Finish(w)
    PROVE  LedgerMatchesRecord'
<1> DEFINE e == event[w]
           c == Cardinality(Members)
           n == Cardinality(Recorded)
           f == [x \in Recorded |-> Covered(done[x].steps)]
           g == [x \in Recorded' |-> Covered(done'[x].steps)]
           S == SumFunctionOnSet(f, Recorded)
           T == SumFunctionOnSet(g, Recorded')
           R == Recorded
<1>1. /\ TypeOK' /\ Recorded' = R \cup {e} /\ e \in Events \ R
      /\ done'[e].steps = steps[w] /\ done'[e].remaining = remaining[w]
      /\ \A x \in R : done'[x] = done[x]
  BY FinishRecords
<1>2. /\ TypeOK /\ wpc[w] = "finish" /\ IsFiniteSet(R) /\ c \in Nat
      /\ opening \in [Accounts -> Int] /\ LedgerMatchesRecord
      /\ WorkerInv(w)
  <2>1. IsFiniteSet(R)
    BY WaterfallAssumption, FS_Subset DEF Recorded
  <2> QED
    BY <2>1, AccountsAre DEF Finish, IInv
<1>3. /\ ledger' = [a \in Accounts |-> ledger[a] + moved[w][a]]
      /\ UNCHANGED <<opening, todo>>
  BY DEF Finish
<1>4. /\ Applied(steps[w]) + remaining[w] = todo[e].loss
      /\ SumFunctionOnSet(moved[w], Accounts) = 0
      /\ 2 * (moved[w][Collected] - Covered(steps[w])) <= 2 * c
      /\ 2 * (moved[w][Collected] - Covered(steps[w])) >= -(2 * c)
  BY <1>2, SlackIs DEF WorkerInv
<1>5. /\ n \in Nat /\ Cardinality(Recorded') = n + 1
  BY <1>1, <1>2, FS_CardinalityType, FS_AddElement
<1>6. Covered(steps[w]) \in Int
  <2>1. steps[w] \in Seq(StepRows) /\ [layer |-> "margin", available |-> 0,
                  applied |-> 0, remaining |-> 0] \in StepRows
    BY <1>2 DEF TypeOK, StepRows, Layers
  <2> QED
    BY <2>1, OneRowMore
<1>7. \A x \in R : Covered(done[x].steps) \in Int
  <2>1. SUFFICES ASSUME NEW x \in R PROVE Covered(done[x].steps) \in Int
    OBVIOUS
  <2>2. done[x].steps \in Seq(StepRows)
    BY <1>2 DEF TypeOK, Recorded, Outcomes
  <2>3. [layer |-> "margin", available |-> 0, applied |-> 0, remaining |-> 0]
          \in StepRows
    BY DEF StepRows, Layers
  <2> QED
    BY <2>2, <2>3, OneRowMore
<1>8. /\ \A x \in R : f[x] = Covered(done[x].steps) /\ f[x] \in Int
                      /\ g[x] = f[x]
      /\ g[e] = Covered(steps[w])
      /\ SumFunction(f) = S /\ SumFunction(g) = T
  BY <1>1, <1>7 DEF SumFunction
<1> HIDE DEF f, g, e, R
<1>9. T = Covered(steps[w]) + S /\ S \in Int
  <2>1. T = SumFunctionOnSet(g, R \cup {e})
    BY <1>1
  <2>2. SumFunctionOnSet(g, R \cup {e}) = g[e] + SumFunctionOnSet(g, R)
    BY <1>1, <1>2, <1>6, <1>8, SumAdd
  <2>3. SumFunctionOnSet(g, R) = S /\ S \in Int
    BY <1>2, <1>8, SumOfEqual, SumInt DEF R
  <2> QED
    BY <1>8, <2>1, <2>2, <2>3
<1>10. \A x \in Recorded' :
          Applied(done'[x].steps) + done'[x].remaining = todo'[x].loss
  <2>1. \A x \in R : Applied(done[x].steps) + done[x].remaining = todo[x].loss
    BY <1>2 DEF LedgerMatchesRecord, R
  <2> QED
    BY <1>1, <1>3, <1>4, <2>1
<1>11. SumFunction(ledger') = SumFunction(opening')
  <2>1. /\ ledger \in [Accounts -> Int] /\ moved[w] \in [Accounts -> Int]
        /\ IsFiniteSet(Accounts)
        /\ \A a \in Accounts : ledger'[a] = ledger[a] + moved[w][a]
    BY <1>2, <1>3, AccountsAre DEF TypeOK
  <2>2. SumFunctionOnSet(ledger', Accounts)
          = SumFunctionOnSet(ledger, Accounts)
              + SumFunctionOnSet(moved[w], Accounts)
    BY <2>1, SumPlus
  <2>3. SumFunctionOnSet(ledger, Accounts) \in Int
    BY <2>1, SumInt
  <2>4. /\ SumFunction(ledger') = SumFunctionOnSet(ledger', Accounts)
        /\ SumFunction(ledger) = SumFunctionOnSet(ledger, Accounts)
    BY <1>3, <2>1 DEF SumFunction
  <2>5. SumFunction(ledger) = SumFunction(opening)
    BY <1>2 DEF LedgerMatchesRecord
  <2> QED
    BY <1>3, <1>4, <2>2, <2>3, <2>4, <2>5
<1>12. LET gap == ledger'[Collected] - opening'[Collected] - SumFunction(g)
           shares == 2 * c * Cardinality(Recorded')
       IN  2 * gap \in -shares..shares
  <2> DEFINE old == ledger[Collected] - opening[Collected] - S
             move == moved[w][Collected]
             d == move - Covered(steps[w])
             gap == ledger'[Collected] - opening'[Collected] - T
             few == 2 * c * n
             more == 2 * c * (n + 1)
  <2>1. /\ ledger'[Collected] = ledger[Collected] + move
        /\ ledger[Collected] \in Int /\ move \in Int
        /\ opening'[Collected] = opening[Collected]
        /\ opening[Collected] \in Int
    BY <1>2, <1>3, AccountsAre DEF TypeOK
  <2>2. gap = old + d /\ old \in Int /\ d \in Int
    BY <1>6, <1>9, <2>1
  <2>3. 2 * old \in -few..few
    BY <1>2, <1>8 DEF LedgerMatchesRecord, f
  <2>4. 2 * d <= 2 * c /\ 2 * d >= -(2 * c)
    BY <1>4
  <2>5. more = few + 2 * c /\ few \in Int
    <3>1. 2 * c \in Int /\ n \in Int /\ 1 \in Int
      BY <1>2, <1>5
    <3> HIDE DEF c, n
    <3>2. (2 * c) * (n + 1) = (2 * c) * n + (2 * c) * 1 /\ (2 * c) * n \in Int
      BY <3>1, Distributes
    <3>3. (2 * c) * 1 = 2 * c
      BY <3>1
    <3> QED
      BY <3>2, <3>3
  <2> HIDE DEF old, d, few, more, c, gap
  <2>6. 2 * gap \in -more..more
    BY <1>2, <2>2, <2>3, <2>4, <2>5
  <2>7. more = 2 * c * Cardinality(Recorded')
    BY <1>5 DEF more
  <2> QED
    BY <1>8, <2>6, <2>7 DEF gap
<1> QED
  BY <1>10, <1>11, <1>12 DEF LedgerMatchesRecord, g

(* So does the commit; alone, the waterfall leaves its own balances        *)
(* behind.                                                                 *)
LEMMA FinishKeeps ==
    ASSUME IInv, NEW w \in Workers, Finish(w)
    PROVE  IInv'
<1>1. /\ TypeOK' /\ Recorded' = Recorded \cup {event[w]}
  BY FinishRecords
<1>2. /\ TypeOK /\ wpc[w] = "finish" /\ Forget(w) /\ w \in crew
      /\ ledger' = [a \in Accounts |-> ledger[a] + moved[w][a]]
      /\ acked' = acked \cup {event[w]} /\ UNCHANGED <<crew, opening, todo>>
  BY DEF Finish, IInv, WorkerInv
<1>3. Apart(w) /\ WorkerInv(w)' /\ event'[w] = NoEvent /\ moved'[w] = Unmoved
  BY <1>2, ForgetClears
<1>4. \A v \in Workers : WorkerInv(v)'
  BY <1>2, <1>3, OthersKeep
<1>5. EventsApart'
  BY <1>3 DEF IInv, EventsApart, Apart
<1>6. Recorded' \subseteq acked'
  BY <1>1, <1>2 DEF IInv
<1>7. LedgerMatchesRecord'
  BY FinishMatches
<1>8. AloneInv'
  <2>1. SUFFICES ASSUME Cardinality(crew) = 1, NEW m \in Members,
                        opening[Fund(m)] >= 0
                 PROVE  /\ ledger'[Fund(m)] >= 0
                        /\ \A v \in Workers :
                             ledger'[Fund(m)] + moved'[v][Fund(m)] >= 0
    BY <1>2 DEF AloneInv, Balance
  <2>2. crew = {w}
    <3>1. IsFiniteSet(crew)
      BY WaterfallAssumption, FS_Subset DEF IInv
    <3>2. PICK x : crew = {x}
      BY <2>1, <3>1, FS_Singleton
    <3> QED
      BY <1>2, <3>2
  <2>3. \A v \in Workers : moved'[v] = Unmoved
    <3>1. SUFFICES ASSUME NEW v \in Workers \ {w} PROVE moved'[v] = Unmoved
      BY <1>3
    <3>2. WorkerInv(v) /\ moved'[v] = moved[v]
      BY <1>3 DEF IInv, Apart
    <3> QED
      BY <2>2, <3>2 DEF WorkerInv
  <2>4. ledger'[Fund(m)] = Balance(w, Fund(m)) /\ Fund(m) \in Accounts
    BY <1>2, AccountsAre DEF Balance
  <2>5. Balance(w, Fund(m)) >= 0 /\ Balance(w, Fund(m)) \in Int
    BY <1>2, <2>1, <2>4, BalanceIsInt DEF IInv, AloneInv
  <2>6. \A v \in Workers : moved'[v][Fund(m)] = 0
    BY <2>3, <2>4, UnmovedIs
  <2> QED
    BY <2>4, <2>5, <2>6
<1> QED
  BY <1>1, <1>2, <1>4, <1>5, <1>6, <1>7, <1>8 DEF IInv

(* Every step keeps the invariant. *)
LEMMA NextIInv ==
    ASSUME IInv, [Next]_vars
    PROVE  IInv'
<1>1. CASE UNCHANGED vars
  BY <1>1 DEF vars, IInv, TypeOK, WorkerInv, EventsApart, AloneInv, Balance,
     Recorded, LedgerMatchesRecord
<1>2. CASE Next
  <2>1. PICK w \in Workers : Consume(w) \/ Crash(w)
    BY <1>2 DEF Next
  <2> QED
    BY <2>1, LayerKeeps, BeginKeeps, FinishKeeps, RollbackKeeps
    DEF Consume, execute_waterfall
<1> QED
  BY <1>1, <1>2

(* The types, and what the proofs below rest on. *)
THEOREM WaterfallInvariant == Spec => []IInv
  BY InitIInv, NextIInv, PTL DEF Spec

(* LedgerMatchesRecord, for any members, replicas, events and faults: the  *)
(* rows of a recorded default add up to its loss, and what they say was    *)
(* covered is what reached the CCP, give or take the rounding.             *)
THEOREM RecordMatchesLedger == Spec => []LedgerMatchesRecord
<1>1. IInv => LedgerMatchesRecord
  BY DEF IInv
<1> QED
  BY <1>1, WaterfallInvariant, PTL

(* AloneNotOverdrawn: one waterfall at a time takes from no contribution   *)
(* to the default fund more than is there.                                 *)
THEOREM AloneWithinFunds == Spec => []AloneNotOverdrawn
<1>1. IInv => AloneNotOverdrawn
  BY DEF IInv, AloneInv, AloneNotOverdrawn, FundsNotOverdrawn, Fund
<1> QED
  BY <1>1, WaterfallInvariant, PTL

-----------------------------------------------------------------------------
(* The ledger (Ledger).  First sums over the entries of a set of journals, *)
(* then the induction over the statements of the services and              *)
(* reconciliations.                                                        *)
CONSTANTS Holders, Postings, Reconciliations, ThroughGateway, Drafts
VARIABLES state, journal, pc, global_ok, journal_ok, recomputed, report, last,
          seen, viewed, recent

GL == INSTANCE Ledger WITH Accounts <- Holders, Journals <- Postings,
                           Requests <- Reconciliations

(* The instance sums and counts as this module does. *)
LEMMA BooksSum == \A f : GL!SumFunction(f) = SumFunction(f)
  BY DEF GL!SumFunction, SumFunction, GL!SumFunctionOnSet,
     SumFunctionOnSet, GL!FoldFunctionOnSet, FoldFunctionOnSet,
     GL!MapThenFoldSet, MapThenFoldSet

(* What the assumption of the instance says, in terms of this module.      *)
LEMMA LedgerFacts ==
    ASSUME GL!LedgerAssumption
    PROVE  /\ IsFiniteSet(Postings) /\ IsFiniteSet(Holders)
           /\ ThroughGateway \subseteq Reconciliations
           /\ \A d \in Drafts : /\ d.status \in GL!Statuses
                                /\ IsFiniteSet(d.entries)
                                /\ d.entries \subseteq GL!EntryType
<1>1. \A S : GL!IsFiniteSet(S) = IsFiniteSet(S)
  BY DEF GL!IsFiniteSet, IsFiniteSet
<1> QED
  BY <1>1 DEF GL!LedgerAssumption

(* The rows are finitely many, and their columns are numbers. *)
LEMMA RowsAreFinite ==
    ASSUME GL!LedgerAssumption, GL!TypeOK, NEW S \in SUBSET Postings
    PROVE  /\ IsFiniteSet(GL!Rows(S))
           /\ \A row \in GL!Rows(S) : row \in S \X GL!EntryType
<1>1. \A j \in S : IsFiniteSet(journal[j].entries)
                   /\ journal[j].entries \subseteq GL!EntryType
  BY LedgerFacts DEF GL!TypeOK
<1> DEFINE each == [j \in S |-> {j} \X journal[j].entries]
<1>2. GL!Rows(S) = UNION {each[j] : j \in S}
  BY DEF GL!Rows
<1>3. \A j \in S : IsFiniteSet(each[j])
  <2>1. \A j \in S : IsFiniteSet({j} \X journal[j].entries)
    BY <1>1, FS_Singleton, FS_Product
  <2> QED
    BY <2>1
<1>4. IsFiniteSet({each[j] : j \in S})
  <2>1. IsFiniteSet(S)
    BY LedgerFacts, FS_Subset
  <2> HIDE DEF each
  <2> QED
    BY <2>1, FiniteImage
<1>5. IsFiniteSet(UNION {each[j] : j \in S})
  <2>1. \A T \in {each[j] : j \in S} : IsFiniteSet(T)
    BY <1>3
  <2> HIDE DEF each
  <2> QED
    BY <1>4, <2>1, FS_UNION
<1>6. \A row \in GL!Rows(S) : row \in S \X GL!EntryType
  BY <1>1 DEF GL!Rows
<1> QED
  BY <1>2, <1>5, <1>6

(* The rows of one journal, among those of several. *)
LEMMA RowsOfOne ==
    ASSUME NEW S \in SUBSET Postings, NEW j \in S
    PROVE  {row \in GL!Rows(S) : row[1] = j} = GL!Rows({j})
  BY DEF GL!Rows

(* Totals of a set of journals are the totals of each, added up. *)
LEMMA TotalsOfEach ==
    ASSUME GL!LedgerAssumption, GL!TypeOK, NEW S \in SUBSET Postings
    PROVE  /\ GL!Debits(S) = SumFunctionOnSet([j \in S |-> GL!Debits({j})], S)
           /\ GL!Credits(S)
                = SumFunctionOnSet([j \in S |-> GL!Credits({j})], S)
           /\ GL!Debits(S) \in Int /\ GL!Credits(S) \in Int
<1> DEFINE f == [row \in GL!Rows(S) |-> row[2].debit]
           g == [row \in GL!Rows(S) |-> row[2].credit]
           key == [row \in GL!Rows(S) |-> row[1]]
<1>1. /\ IsFiniteSet(GL!Rows(S)) /\ IsFiniteSet(S)
      /\ \A row \in GL!Rows(S) : row \in S \X GL!EntryType
  BY LedgerFacts, RowsAreFinite, FS_Subset
<1>2. \A row \in GL!Rows(S) :
        f[row] \in Int /\ g[row] \in Int /\ key[row] \in S
  BY <1>1 DEF GL!EntryType
<1>3. ASSUME NEW j \in S
      PROVE  /\ GL!Debits({j}) = SumFunctionOnSet(f, Group(GL!Rows(S), key, j))
             /\ GL!Credits({j})
                  = SumFunctionOnSet(g, Group(GL!Rows(S), key, j))
  <2> DEFINE d == [row \in GL!Rows({j}) |-> row[2].debit]
             c == [row \in GL!Rows({j}) |-> row[2].credit]
  <2>1. Group(GL!Rows(S), key, j) = GL!Rows({j})
    BY RowsOfOne DEF Group
  <2>2. /\ GL!Rows({j}) \subseteq GL!Rows(S) /\ IsFiniteSet(GL!Rows({j}))
        /\ \A row \in GL!Rows({j}) : f[row] = d[row] /\ g[row] = c[row]
    BY <1>1, <2>1, FS_Subset DEF Group
  <2>3. /\ GL!Debits({j}) = SumFunctionOnSet(d, GL!Rows({j}))
        /\ GL!Credits({j}) = SumFunctionOnSet(c, GL!Rows({j}))
    BY BooksSum DEF GL!Debits, GL!Credits, SumFunction
  <2> HIDE DEF f, g, d, c, key
  <2>4. /\ SumFunctionOnSet(f, GL!Rows({j}))
             = SumFunctionOnSet(d, GL!Rows({j}))
        /\ SumFunctionOnSet(g, GL!Rows({j}))
             = SumFunctionOnSet(c, GL!Rows({j}))
    BY <2>2, SumOfEqual
  <2> QED
    BY <2>1, <2>3, <2>4, Zenon
<1> DEFINE D == [j \in S |-> GL!Debits({j})]
           C == [j \in S |-> GL!Credits({j})]
<1>4. \A j \in S :
        /\ D[j] = SumFunctionOnSet(f, Group(GL!Rows(S), key, j))
        /\ C[j] = SumFunctionOnSet(g, Group(GL!Rows(S), key, j))
  BY <1>3, Zenon
<1>5. /\ GL!Debits(S) = SumFunctionOnSet(f, GL!Rows(S))
      /\ GL!Credits(S) = SumFunctionOnSet(g, GL!Rows(S))
  BY BooksSum DEF GL!Debits, GL!Credits, SumFunction
<1>6. /\ SumFunctionOnSet(D, S) = SumFunctionOnSet(f, GL!Rows(S))
      /\ SumFunctionOnSet(C, S) = SumFunctionOnSet(g, GL!Rows(S))
  <2> HIDE DEF f, g, key, D, C
  <2>1. SumFunctionOnSet(D, S) = SumFunctionOnSet(f, GL!Rows(S))
    <3>1. /\ \A row \in GL!Rows(S) : f[row] \in Int /\ key[row] \in S
          /\ \A j \in S : D[j] = SumFunctionOnSet(f, Group(GL!Rows(S), key, j))
          /\ IsFiniteSet(GL!Rows(S)) /\ IsFiniteSet(S)
      BY <1>1, <1>2, <1>4
    <3> QED
      BY <3>1, SumGroups
  <2>2. SumFunctionOnSet(C, S) = SumFunctionOnSet(g, GL!Rows(S))
    <3>1. /\ \A row \in GL!Rows(S) : g[row] \in Int /\ key[row] \in S
          /\ \A j \in S : C[j] = SumFunctionOnSet(g, Group(GL!Rows(S), key, j))
          /\ IsFiniteSet(GL!Rows(S)) /\ IsFiniteSet(S)
      BY <1>1, <1>2, <1>4
    <3> QED
      BY <3>1, SumGroups
  <2> QED
    BY <2>1, <2>2
<1>7. GL!Debits(S) \in Int /\ GL!Credits(S) \in Int
  <2> HIDE DEF f, g
  <2> QED
    BY <1>1, <1>2, <1>5, SumInt
<1> QED
  BY <1>5, <1>6, <1>7, Zenon

(* Journals that balance one by one balance together, whatever their number.*)
LEMMA BalancedTogether ==
    ASSUME GL!LedgerAssumption, GL!TypeOK, NEW S \in SUBSET Postings,
           \A j \in S : GL!Debits({j}) = GL!Credits({j})
    PROVE  GL!Debits(S) = GL!Credits(S)
<1>1. [j \in S |-> GL!Debits({j})] = [j \in S |-> GL!Credits({j})]
  OBVIOUS
<1> QED
  BY <1>1, TotalsOfEach, Zenon

(* The balances of all accounts add up to debits less credits. *)
LEMMA BalancesAddUp ==
    ASSUME GL!LedgerAssumption, GL!TypeOK, NEW S \in SUBSET Postings,
           GL!Debits(S) = GL!Credits(S)
    PROVE  SumFunction([a \in Holders |-> GL!Balance(a, S)]) = 0
<1> DEFINE f == [row \in GL!Rows(S) |-> row[2].debit - row[2].credit]
           g == [row \in GL!Rows(S) |-> row[2].credit]
           h == [row \in GL!Rows(S) |-> row[2].debit]
           key == [row \in GL!Rows(S) |-> row[2].account]
           B == [a \in Holders |-> GL!Balance(a, S)]
<1>1. /\ IsFiniteSet(GL!Rows(S)) /\ IsFiniteSet(Holders)
      /\ \A row \in GL!Rows(S) : row \in S \X GL!EntryType
  BY LedgerFacts, RowsAreFinite
<1>2. \A row \in GL!Rows(S) : /\ f[row] \in Int /\ g[row] \in Int
                           /\ h[row] = f[row] + g[row]
                           /\ key[row] \in Holders
  BY <1>1 DEF GL!EntryType
<1>3. ASSUME NEW a \in Holders
      PROVE  GL!Balance(a, S) = SumFunctionOnSet(f, Group(GL!Rows(S), key, a))
  <2> DEFINE b == [row \in GL!RowsOn(a, S) |-> row[2].debit - row[2].credit]
  <2>1. Group(GL!Rows(S), key, a) = GL!RowsOn(a, S)
    BY DEF GL!RowsOn, Group
  <2>2. /\ GL!RowsOn(a, S) \subseteq GL!Rows(S) /\ IsFiniteSet(GL!RowsOn(a, S))
        /\ \A row \in GL!RowsOn(a, S) : f[row] = b[row]
    BY <1>1, FS_Subset DEF GL!RowsOn
  <2>3. GL!Balance(a, S) = SumFunctionOnSet(b, GL!RowsOn(a, S))
    BY BooksSum DEF GL!Balance, SumFunction
  <2> HIDE DEF f, b, key
  <2>4. SumFunctionOnSet(f, GL!RowsOn(a, S))
          = SumFunctionOnSet(b, GL!RowsOn(a, S))
    BY <2>2, SumOfEqual
  <2> QED
    BY <2>1, <2>3, <2>4, Zenon
<1>4. \A a \in Holders :
        B[a] = SumFunctionOnSet(f, Group(GL!Rows(S), key, a))
  BY <1>3, Zenon
<1>5. /\ GL!Debits(S) = SumFunctionOnSet(h, GL!Rows(S))
      /\ GL!Credits(S) = SumFunctionOnSet(g, GL!Rows(S))
  BY BooksSum DEF GL!Debits, GL!Credits, SumFunction
<1>6. SumFunction(B) = SumFunctionOnSet(B, Holders)
  BY DEF SumFunction
<1> HIDE DEF f, g, h, key, B
<1>7. SumFunctionOnSet(B, Holders) = SumFunctionOnSet(f, GL!Rows(S))
  BY <1>1, <1>2, <1>4, SumGroups
<1>8. SumFunctionOnSet(h, GL!Rows(S))
        = SumFunctionOnSet(f, GL!Rows(S)) + SumFunctionOnSet(g, GL!Rows(S))
  BY <1>1, <1>2, SumPlus
<1>9. /\ SumFunctionOnSet(f, GL!Rows(S)) \in Int
      /\ SumFunctionOnSet(g, GL!Rows(S)) \in Int
  BY <1>1, <1>2, SumInt
<1>10. SumFunctionOnSet(g, GL!Rows(S))
         = SumFunctionOnSet(f, GL!Rows(S)) + SumFunctionOnSet(g, GL!Rows(S))
  BY <1>5, <1>8, Zenon
<1>11. SumFunctionOnSet(f, GL!Rows(S)) = 0
  BY <1>9, <1>10
<1> QED
  BY <1>6, <1>7, <1>11, Zenon DEF B

-----------------------------------------------------------------------------
(* Every journal that is committed balances: what the trigger leaves. *)
BooksJournalsBalance ==
    \A j \in GL!Committed : GL!Debits({j}) = GL!Credits({j})

VerdictsHold == \A r \in Reconciliations : global_ok[r] /\ journal_ok[r]

(* What was recomputed, in terms of the journals committed at the time. *)
ConfirmedOf(S) == {j \in S : journal[j].status = "confirmed"}

RecomputedIsOfSeen ==
    \A r \in Reconciliations : pc[r] \in {"view", "report", "done"} =>
        /\ seen[r] \subseteq GL!Committed
        /\ recomputed[r] =
             [a \in {a \in Holders :
               GL!RowsOn(a, ConfirmedOf(seen[r])) # {}} |->
                 GL!Balance(a, ConfirmedOf(seen[r]))]

(* What was reported, in terms of those committed when the view was read. *)
ReportIsOfViewed ==
    \A r \in Reconciliations : pc[r] \in {"report", "done"} =>
        /\ seen[r] \subseteq viewed[r]
        /\ viewed[r] \subseteq GL!Committed
        /\ report[r] = {a \in DOMAIN recomputed[r] :
                            recomputed[r][a] # GL!Balance(a, viewed[r])}

BooksInv ==
    /\ GL!TypeOK
    /\ BooksJournalsBalance
    /\ VerdictsHold
    /\ RecomputedIsOfSeen
    /\ ReportIsOfViewed

(* A balance is a number. *)
LEMMA BookBalanceIsInt ==
    ASSUME GL!LedgerAssumption, GL!TypeOK, NEW S \in SUBSET Postings, NEW a
    PROVE  GL!Balance(a, S) \in Int
<1> DEFINE b == [row \in GL!RowsOn(a, S) |-> row[2].debit - row[2].credit]
<1>1. /\ IsFiniteSet(GL!RowsOn(a, S))
      /\ \A row \in GL!RowsOn(a, S) : b[row] \in Int
  BY RowsAreFinite, FS_Subset DEF GL!RowsOn, GL!EntryType
<1>2. GL!Balance(a, S) = SumFunctionOnSet(b, GL!RowsOn(a, S))
  BY BooksSum DEF GL!Balance, SumFunction
<1> HIDE DEF b
<1> QED
  BY <1>1, <1>2, SumInt

(* A committed journal is there to stay, as it is (migration 013). *)
LEMMA LedgerOnlyGrows ==
    ASSUME GL!TypeOK, [GL!Next]_(GL!vars)
    PROVE  journal' = journal /\ GL!Committed \subseteq GL!Committed'
           /\ GL!Committed \in SUBSET Postings
<1> USE DEF GL!TypeOK, GL!Committed
<1>1. CASE \E j \in Postings : GL!Insert(j) \/ GL!Commit(j) \/ GL!RollBack(j)
  BY <1>1 DEF GL!Insert, GL!Commit, GL!RollBack
<1>2. CASE \E r \in Reconciliations :
          \/ GL!Reconcile(r) \/ GL!check_global_balance(r)
          \/ GL!check_journal_integrity(r) \/ GL!Recompute(r)
          \/ GL!ReadView(r) \/ GL!Return(r) \/ GL!Answer(r)
  BY <1>2 DEF GL!Reconcile, GL!check_global_balance,
     GL!check_journal_integrity, GL!Recompute, GL!ReadView,
     GL!Return, GL!Answer, GL!Goto, GL!ledger
<1>3. CASE UNCHANGED GL!vars
  BY <1>3 DEF GL!vars, GL!ledger
<1> QED
  BY <1>1, <1>2, <1>3 DEF GL!Next

(* Each statement, and each transaction, leaves values of the right kind. *)
LEMMA BooksTypeStep ==
    ASSUME GL!LedgerAssumption, GL!TypeOK, [GL!Next]_(GL!vars) PROVE GL!TypeOK'
<1>1. ASSUME NEW j \in Postings, GL!Insert(j) \/ GL!Commit(j) \/ GL!RollBack(j)
      PROVE  GL!TypeOK'
  BY <1>1 DEF GL!TypeOK, GL!Insert, GL!Commit, GL!RollBack,
     GL!findings
<1>2. ASSUME NEW r \in Reconciliations, GL!Recompute(r) PROVE GL!TypeOK'
  <2>1. \A a \in Holders : GL!Balance(a, GL!Confirmed) \in Int
    <3>1. GL!Confirmed \in SUBSET Postings
      BY DEF GL!Confirmed, GL!Committed
    <3> QED
      BY <3>1, BookBalanceIsInt
  <2> QED
    BY <1>2, <2>1 DEF GL!TypeOK, GL!Recompute, GL!Goto,
       GL!ledger, GL!PCs, GL!Committed
<1>3. ASSUME NEW r \in Reconciliations,
             \/ GL!Reconcile(r) \/ GL!check_global_balance(r)
             \/ GL!check_journal_integrity(r)
      PROVE  GL!TypeOK'
  BY <1>3 DEF GL!TypeOK, GL!Reconcile, GL!check_global_balance,
     GL!check_journal_integrity, GL!Goto, GL!ledger, GL!findings,
     GL!PCs
<1>4. ASSUME NEW r \in Reconciliations, GL!ReadView(r) PROVE GL!TypeOK'
  <2>1. report' \in [Reconciliations -> SUBSET Holders]
    BY <1>4 DEF GL!TypeOK, GL!ReadView
  <2> QED
    BY <1>4, <2>1 DEF GL!TypeOK, GL!ReadView, GL!Goto, GL!ledger,
       GL!PCs, GL!Committed
<1>5. ASSUME NEW r \in Reconciliations, GL!Return(r) \/ GL!Answer(r)
      PROVE  GL!TypeOK'
  BY <1>5 DEF GL!TypeOK, GL!Return, GL!Answer, GL!Goto,
     GL!ledger, GL!findings, GL!PCs
<1>6. CASE UNCHANGED GL!vars
  BY <1>6 DEF GL!TypeOK, GL!vars, GL!ledger, GL!findings
<1> QED
  BY <1>1, <1>2, <1>3, <1>4, <1>5, <1>6 DEF GL!Next

(* The trigger admits a journal to the books only if it balances. *)
LEMMA BooksJournalsStep ==
    ASSUME GL!TypeOK, BooksJournalsBalance, [GL!Next]_(GL!vars)
    PROVE  BooksJournalsBalance'
<1>1. journal' = journal
  BY LedgerOnlyGrows
<1>2. \A j : /\ GL!Debits({j})' = GL!Debits({j})
             /\ GL!Credits({j})' = GL!Credits({j})
  BY <1>1 DEF GL!Debits, GL!Credits, GL!Rows
<1>3. ASSUME NEW j \in GL!Committed' PROVE GL!Debits({j}) = GL!Credits({j})
  <2>1. CASE j \in GL!Committed
    BY <2>1 DEF BooksJournalsBalance
  <2>2. CASE j \notin GL!Committed
    <3>1. j \in Postings /\ GL!Commit(j)
      <4>1. CASE \E i \in Postings :
              GL!Insert(i) \/ GL!Commit(i) \/ GL!RollBack(i)
        BY <2>2, <1>3, <4>1 DEF GL!Insert, GL!Commit, GL!RollBack,
           GL!Committed, GL!TypeOK
      <4>2. CASE UNCHANGED state
        BY <2>2, <1>3, <4>2 DEF GL!Committed
      <4> QED
        BY <4>1, <4>2 DEF GL!Next, GL!Reconcile,
           GL!check_global_balance, GL!vars, GL!ledger,
           GL!check_journal_integrity, GL!Recompute, GL!ReadView,
           GL!Return, GL!Answer, GL!Goto
    <3> QED
      BY <3>1 DEF GL!Commit, GL!ValidateJournalBalance
  <2> QED
    BY <2>1, <2>2
<1> QED
  BY <1>2, <1>3 DEF BooksJournalsBalance

(* Confirmed journals are committed ones: together they balance too. *)
LEMMA VerdictsStep ==
    ASSUME GL!LedgerAssumption, GL!TypeOK, BooksJournalsBalance,
           VerdictsHold, [GL!Next]_(GL!vars)
    PROVE  VerdictsHold'
<1>1. GL!Confirmed \in SUBSET Postings
      /\ \A j \in GL!Confirmed : GL!Debits({j}) = GL!Credits({j})
  BY DEF GL!Confirmed, BooksJournalsBalance, GL!Committed
<1>2. GL!Debits(GL!Confirmed) = GL!Credits(GL!Confirmed)
  BY <1>1, BalancedTogether
<1>3. ASSUME NEW r \in Reconciliations, GL!check_global_balance(r)
      PROVE  VerdictsHold'
  BY <1>2, <1>3 DEF VerdictsHold, GL!check_global_balance, GL!TypeOK
<1>4. ASSUME NEW r \in Reconciliations, GL!check_journal_integrity(r)
      PROVE  VerdictsHold'
  BY <1>1, <1>4 DEF VerdictsHold, GL!check_journal_integrity, GL!TypeOK
<1>5. CASE UNCHANGED <<global_ok, journal_ok>>
  BY <1>5 DEF VerdictsHold
<1> QED
  BY <1>3, <1>4, <1>5 DEF GL!Next, GL!Insert, GL!Commit,
     GL!RollBack, GL!Reconcile, GL!Recompute, GL!ReadView,
     GL!Return, GL!Answer, GL!vars, GL!findings

(* What was recomputed is of the journals then committed (reconciler.py:86). *)
LEMMA RecomputedStep ==
    ASSUME GL!TypeOK, RecomputedIsOfSeen, [GL!Next]_(GL!vars)
    PROVE  RecomputedIsOfSeen'
<1>1. journal' = journal /\ GL!Committed \subseteq GL!Committed'
  BY LedgerOnlyGrows
<1>2. \A S : ConfirmedOf(S)' = ConfirmedOf(S)
  BY <1>1 DEF ConfirmedOf
<1>3. \A a, S : /\ GL!Balance(a, S)' = GL!Balance(a, S)
                /\ GL!RowsOn(a, S)' = GL!RowsOn(a, S)
  BY <1>1 DEF GL!Balance, GL!RowsOn, GL!Rows
<1>4. ASSUME NEW q \in Reconciliations, pc'[q] \in {"view", "report", "done"},
             pc[q] \in {"view", "report", "done"},
             seen'[q] = seen[q], recomputed'[q] = recomputed[q]
      PROVE  /\ seen'[q] \subseteq GL!Committed'
             /\ recomputed'[q] =
                 [a \in {a \in Holders :
                   GL!RowsOn(a, ConfirmedOf(seen[q])) # {}} |->
                     GL!Balance(a, ConfirmedOf(seen[q]))]'
  <2>1. /\ seen[q] \subseteq GL!Committed
        /\ recomputed[q] =
            [a \in {a \in Holders :
              GL!RowsOn(a, ConfirmedOf(seen[q])) # {}} |->
                GL!Balance(a, ConfirmedOf(seen[q]))]
    BY <1>4 DEF RecomputedIsOfSeen
  <2>2. ConfirmedOf(seen[q])' = ConfirmedOf(seen[q])
    BY <1>1, <1>4 DEF ConfirmedOf
  <2> QED
    BY <1>1, <1>3, <1>4, <2>1, <2>2
<1>5. ASSUME NEW r \in Reconciliations, GL!Recompute(r)
      PROVE  RecomputedIsOfSeen'
  <2>1. GL!Confirmed = ConfirmedOf(seen'[r]) /\ seen'[r] = GL!Committed'
    BY <1>5 DEF GL!Recompute, GL!Confirmed, ConfirmedOf, GL!TypeOK,
       GL!Goto, GL!ledger, GL!Committed
  <2>2. recomputed'[r] =
          [a \in {a \in Holders : GL!RowsOn(a, ConfirmedOf(seen'[r])) # {}} |->
              GL!Balance(a, ConfirmedOf(seen'[r]))]
    <3>1. recomputed'[r]
            = [a \in {a \in Holders : GL!RowsOn(a, GL!Confirmed) # {}} |->
                  GL!Balance(a, GL!Confirmed)]
      BY <1>5 DEF GL!Recompute, GL!TypeOK
    <3> QED
      BY <2>1, <3>1, Zenon
  <2>3. recomputed'[r] =
          [a \in {a \in Holders : GL!RowsOn(a, ConfirmedOf(seen[r])) # {}} |->
              GL!Balance(a, ConfirmedOf(seen[r]))]'
    <3>1. ConfirmedOf(seen[r])' = ConfirmedOf(seen'[r])
      BY <1>1 DEF ConfirmedOf
    <3> QED
      BY <1>3, <2>2, <3>1
  <2>4. ASSUME NEW q \in Reconciliations, q # r
        PROVE  pc'[q] = pc[q] /\ seen'[q] = seen[q]
               /\ recomputed'[q] = recomputed[q]
    BY <1>5, <2>4 DEF GL!Recompute, GL!TypeOK, GL!Goto
  <2> QED
    BY <1>4, <2>1, <2>3, <2>4 DEF RecomputedIsOfSeen
<1>6. CASE UNCHANGED <<recomputed, seen>> /\ \A q \in Reconciliations :
               pc'[q] \in {"view", "report", "done"} =>
               pc[q] \in {"view", "report", "done"}
  BY <1>4, <1>6 DEF RecomputedIsOfSeen
<1> QED
  BY <1>5, <1>6 DEF GL!Next, GL!Insert, GL!Commit, GL!RollBack,
     GL!Reconcile, GL!vars, GL!findings, GL!check_global_balance,
     GL!check_journal_integrity, GL!ReadView, GL!Return,
     GL!Answer, GL!Goto, GL!TypeOK

(* What was reported is of those committed at the view (reconciler.py:100). *)
LEMMA ReportStep ==
    ASSUME GL!TypeOK, RecomputedIsOfSeen, ReportIsOfViewed, [GL!Next]_(GL!vars)
    PROVE  ReportIsOfViewed'
<1>1. journal' = journal /\ GL!Committed \subseteq GL!Committed'
  BY LedgerOnlyGrows
<1>2. \A a, S : GL!Balance(a, S)' = GL!Balance(a, S)
  BY <1>1 DEF GL!Balance, GL!RowsOn, GL!Rows
<1>3. ASSUME NEW q \in Reconciliations, pc[q] \in {"report", "done"},
             seen'[q] = seen[q], viewed'[q] = viewed[q],
             recomputed'[q] = recomputed[q], report'[q] = report[q]
      PROVE  /\ seen'[q] \subseteq viewed'[q]
             /\ viewed'[q] \subseteq GL!Committed'
             /\ report'[q] = {a \in DOMAIN recomputed[q] :
                                 recomputed[q][a] # GL!Balance(a, viewed[q])}'
  BY <1>1, <1>2, <1>3 DEF ReportIsOfViewed
<1>4. ASSUME NEW r \in Reconciliations, GL!ReadView(r) PROVE ReportIsOfViewed'
  <2>1. /\ seen'[r] = seen[r] /\ recomputed'[r] = recomputed[r]
        /\ viewed'[r] = GL!Committed /\ GL!Committed' = GL!Committed
        /\ seen[r] \subseteq GL!Committed
    BY <1>4 DEF GL!ReadView, GL!TypeOK, GL!Goto, GL!ledger,
       RecomputedIsOfSeen, GL!Committed
  <2>2. report'[r] = {a \in DOMAIN recomputed[r] :
                         recomputed[r][a] # GL!Balance(a, viewed'[r])}
    BY <1>4, <2>1 DEF GL!ReadView, GL!TypeOK, GL!AccountBalance
  <2>3. ASSUME NEW q \in Reconciliations, q # r
        PROVE  /\ pc'[q] = pc[q] /\ seen'[q] = seen[q]
               /\ viewed'[q] = viewed[q] /\ recomputed'[q] = recomputed[q]
               /\ report'[q] = report[q]
    BY <1>4, <2>3 DEF GL!ReadView, GL!TypeOK, GL!Goto
  <2> QED
    BY <1>2, <1>3, <2>1, <2>2, <2>3 DEF ReportIsOfViewed
<1>5. ASSUME NEW r \in Reconciliations, GL!Recompute(r) PROVE ReportIsOfViewed'
  <2>1. ASSUME NEW q \in Reconciliations, pc'[q] \in {"report", "done"}
        PROVE  /\ pc'[q] = pc[q] /\ seen'[q] = seen[q]
               /\ viewed'[q] = viewed[q] /\ recomputed'[q] = recomputed[q]
               /\ report'[q] = report[q]
    BY <1>5, <2>1 DEF GL!Recompute, GL!TypeOK, GL!Goto
  <2> QED
    BY <1>3, <2>1 DEF ReportIsOfViewed
<1>6. CASE UNCHANGED <<recomputed, seen, viewed, report>>
           /\ \A q \in Reconciliations :
               pc'[q] \in {"report", "done"} => pc[q] \in {"report", "done"}
  BY <1>3, <1>6 DEF ReportIsOfViewed
<1> QED
  BY <1>4, <1>5, <1>6 DEF GL!Next, GL!Insert, GL!Commit,
     GL!RollBack, GL!Reconcile, GL!vars, GL!findings,
     GL!check_global_balance, GL!check_journal_integrity, GL!Return,
     GL!Answer, GL!Goto, GL!TypeOK

(* The invariant holds of an empty ledger. *)
LEMMA BooksInvStart ==
    ASSUME GL!LedgerAssumption PROVE GL!Init => BooksInv
  BY DEF GL!Init, BooksInv, GL!TypeOK, BooksJournalsBalance,
     VerdictsHold, RecomputedIsOfSeen, ReportIsOfViewed, GL!Committed,
     GL!PCs

(* Every step keeps it. *)
LEMMA BooksInvStep ==
    ASSUME GL!LedgerAssumption
    PROVE  BooksInv /\ [GL!Next]_(GL!vars) => BooksInv'
  BY BooksTypeStep, BooksJournalsStep, VerdictsStep, RecomputedStep,
     ReportStep DEF BooksInv

(* The ledger and the state of each reconciliation have their types. *)
THEOREM BooksTyped ==
    ASSUME GL!LedgerAssumption PROVE GL!Spec => []GL!TypeOK
  BY BooksInvStart, BooksInvStep, PTL DEF GL!Spec, BooksInv

(* The invariant holds throughout. *)
LEMMA BooksInvHolds ==
    ASSUME GL!LedgerAssumption PROVE GL!Spec => []BooksInv
  BY BooksInvStart, BooksInvStep, PTL DEF GL!Spec

-----------------------------------------------------------------------------
(* The books balance in every state and every verdict is positive, however *)
(* many journals there are and however the SELECTs of reconciler.py:35-79  *)
(* fall between their commits.                                             *)
THEOREM BooksAlwaysBalance ==
    ASSUME GL!LedgerAssumption PROVE GL!Spec => []GL!BooksBalance
<1>1. BooksInv => GL!BooksBalance
  <2> SUFFICES ASSUME BooksInv PROVE GL!BooksBalance
    OBVIOUS
  <2>1. GL!Committed \in SUBSET Postings
        /\ \A j \in GL!Committed : GL!Debits({j}) = GL!Credits({j})
    BY DEF BooksInv, BooksJournalsBalance, GL!Committed
  <2>2. GL!Debits(GL!Committed) = GL!Credits(GL!Committed)
    BY <2>1, BalancedTogether DEF BooksInv
  <2>3. SumFunction([a \in Holders |-> GL!Balance(a, GL!Committed)])
          = 0
    BY <2>1, <2>2, BalancesAddUp DEF BooksInv
  <2> QED
    BY BooksSum, <2>3 DEF GL!BooksBalance, GL!AccountBalance, BooksInv,
       VerdictsHold, GL!Done
<1> QED
  BY <1>1, BooksInvHolds, PTL

(* Whatever a report lists has an entry that is not confirmed, or that was *)
(* committed between the two SELECTs of reconciler.py:86-117.              *)
THEOREM MismatchesAreExplained ==
    ASSUME GL!LedgerAssumption PROVE GL!Spec => []GL!MismatchIsExplained
<1>1. BooksInv => GL!MismatchIsExplained
  <2> SUFFICES ASSUME BooksInv, NEW r \in GL!Done, NEW a \in report[r],
                      GL!RowsOn(a, {j \in viewed[r] :
                                   \/ journal[j].status # "confirmed"
                                   \/ j \notin seen[r]}) = {}
               PROVE  FALSE
    BY DEF GL!MismatchIsExplained
  <2> DEFINE Was == ConfirmedOf(seen[r])
  <2>1. r \in Reconciliations /\ pc[r] = "done"
    BY DEF GL!Done
  <2>2. /\ a \in Holders /\ recomputed[r][a] = GL!Balance(a, Was)
        /\ recomputed[r][a] # GL!Balance(a, viewed[r])
        /\ seen[r] \subseteq viewed[r]
    BY <2>1 DEF BooksInv, RecomputedIsOfSeen, ReportIsOfViewed
  <2>3. GL!RowsOn(a, Was) = GL!RowsOn(a, viewed[r])
    BY <2>2 DEF GL!RowsOn, GL!Rows, ConfirmedOf
  <2>4. GL!Balance(a, Was) = GL!Balance(a, viewed[r])
    BY <2>3, Zenon DEF GL!Balance
  <2> QED
    BY <2>2, <2>4
<1> QED
  BY <1>1, BooksInvHolds, PTL

-----------------------------------------------------------------------------
(* The signing gateway and the MPC nodes (Signing). *)
CONSTANTS Transactions, mpc_total_nodes, mpc_threshold, Timeout, ChainIds
VARIABLES health, chain_id, client, age, handler, asked, wait,
          partial_signatures, answer, notUp, slow, killed

Mpc == INSTANCE Signing WITH Requests <- Transactions

(* What a partial signature collected for r is: one of a node, on r. *)
OwnSignatures ==
    \A r \in Transactions : partial_signatures[r] \subseteq Mpc!Nodes \X {r}

AnsweredInv ==
    \A r \in Transactions : client[r] = "answered" =>
        /\ answer[r] \subseteq Mpc!Nodes \X {r}
        /\ Cardinality(answer[r]) >= mpc_threshold

(* As long as the client waits, the gateway works for it, and what went    *)
(* wrong with the nodes is on record.  Time passes and a node is left      *)
(* behind without a signature only if one was slow, or was not up.         *)
Awaited(r) ==
    /\ client[r] = "idle" =>
         handler[r] = "none" /\ asked[r] = 1 /\ age[r] = 0 /\ wait[r] = 0
    /\ client[r] = "waiting" =>
         /\ handler[r] = "asking"
         /\ \A n \in Mpc!Nodes : health[n] # "up" => n \in notUp[r]
         /\ \A n \in Mpc!Nodes : health[n] = "slow" => n \in slow[r]
         /\ slow[r] = {} =>
              /\ age[r] = 0 /\ wait[r] = 0
              /\ \A n \in Mpc!Nodes : n < asked[r] =>
                   n \in notUp[r] \/ <<n, r>> \in partial_signatures[r]

AwaitedInv == \A r \in Transactions : Awaited(r)

SigningInv ==
    /\ Mpc!TypeOK
    /\ OwnSignatures
    /\ AnsweredInv
    /\ AwaitedInv
    /\ Mpc!WorkingNodesSuffice

-----------------------------------------------------------------------------
(* The instance counts as this module does. *)
LEMMA MpcCounts == \A S : Mpc!Cardinality(S) = Cardinality(S)
  BY DEF Mpc!Cardinality, Cardinality, Mpc!IsFiniteSet, IsFiniteSet

(* The nodes are finitely many, and so are their signatures on a request. *)
LEMMA NodesFinite ==
    ASSUME Mpc!SigningAssumption
    PROVE  /\ IsFiniteSet(Mpc!Nodes)
           /\ \A r : IsFiniteSet(Mpc!Nodes \X {r})
           /\ \A S \in SUBSET Mpc!Nodes :
                IsFiniteSet(S) /\ Cardinality(S) \in Nat
<1>1. IsFiniteSet(Mpc!Nodes)
  BY FS_Interval DEF Mpc!Nodes, Mpc!SigningAssumption
<1> QED
  BY <1>1, FS_Product, FS_Singleton, FS_Subset, FS_CardinalityType

(* Signatures on one transaction are as many as their nodes. *)
LEMMA SignersCounted ==
    ASSUME Mpc!SigningAssumption, NEW r, NEW S \in SUBSET (Mpc!Nodes \X {r})
    PROVE  /\ IsFiniteSet(S) /\ Cardinality(S) \in Nat
           /\ Cardinality({n \in Mpc!Nodes : <<n, r>> \in S})
                = Cardinality(S)
<1> DEFINE Signers == {n \in Mpc!Nodes : <<n, r>> \in S}
           f == [n \in Signers |-> <<n, r>>]
<1>1. IsFiniteSet(Signers) /\ IsFiniteSet(S) /\ Cardinality(S) \in Nat
  BY NodesFinite, FS_Subset, FS_CardinalityType
<1>2. f \in Bijection(Signers, S)
  <2>1. \A s \in S : \E n \in Signers : s = <<n, r>>
    OBVIOUS
  <2> QED
    BY <2>1 DEF Bijection, Injection, IsInjective, Surjection
<1> QED
  BY <1>1, <1>2, FS_Bijection DEF ExistsBijection

(* Nothing has been asked for. *)
LEMMA SigningInit ==
    ASSUME Mpc!SigningAssumption PROVE Mpc!Init => SigningInv
  BY DEF Mpc!SigningAssumption, Mpc!Init, SigningInv, Mpc!TypeOK,
     OwnSignatures, AnsweredInv, AwaitedInv, Awaited,
     Mpc!WorkingNodesSuffice, Mpc!Nodes

(* Each step of a client, of the gateway and of a node keeps the types. *)
LEMMA SigningType ==
    ASSUME Mpc!SigningAssumption
    PROVE  Mpc!TypeOK /\ [Mpc!Next]_(Mpc!vars) => Mpc!TypeOK'
<1>1. SUFFICES ASSUME Mpc!TypeOK, [Mpc!Next]_(Mpc!vars) PROVE Mpc!TypeOK'
  OBVIOUS
<1> USE <1>1 DEF Mpc!SigningAssumption, Mpc!TypeOK
<1>2. ASSUME NEW r \in Transactions, Mpc!Accept(r) PROVE Mpc!TypeOK'
  BY <1>2 DEF Mpc!Accept, Mpc!Health
<1>3. ASSUME NEW r \in Transactions, Mpc!RefuseType(r) PROVE Mpc!TypeOK'
  BY <1>3 DEF Mpc!RefuseType, Mpc!ghosts
<1>4. ASSUME NEW r \in Transactions, Mpc!ClientTimesOut(r) PROVE Mpc!TypeOK'
  BY <1>4 DEF Mpc!ClientTimesOut, Mpc!ghosts, Mpc!handlerVars
<1>5. ASSUME NEW r \in Transactions, Mpc!NodeSigns(r) PROVE Mpc!TypeOK'
  <2>1. asked[r] \in Mpc!Nodes /\ asked[r] + 1 \in 1..mpc_total_nodes + 1
    BY <1>5 DEF Mpc!NodeSigns, Mpc!Asking, Mpc!Nodes
  <2>2. partial_signatures[r] \cup {<<asked[r], r>>}
          \in SUBSET (Mpc!Nodes \X Transactions)
    BY <2>1
  <2>3. /\ partial_signatures'
             \in [Transactions -> SUBSET (Mpc!Nodes \X Transactions)]
        /\ asked' \in [Transactions -> 1..mpc_total_nodes + 1]
        /\ wait' \in [Transactions -> 0..Timeout]
    BY <1>5, <2>1, <2>2 DEF Mpc!NodeSigns
  <2> QED
    BY <1>5, <2>3 DEF Mpc!NodeSigns, Mpc!ghosts, Mpc!clientVars
<1>6. ASSUME NEW r \in Transactions, Mpc!NodeRefuses(r) \/ Mpc!NodeTimesOut(r)
      PROVE  Mpc!TypeOK'
  <2>1. asked[r] + 1 \in 1..mpc_total_nodes + 1
    BY <1>6 DEF Mpc!NodeRefuses, Mpc!NodeTimesOut, Mpc!NodeDue, Mpc!Asking,
       Mpc!Nodes
  <2>2. /\ asked' \in [Transactions -> 1..mpc_total_nodes + 1]
        /\ wait' \in [Transactions -> 0..Timeout]
    BY <1>6, <2>1 DEF Mpc!NodeRefuses, Mpc!NodeTimesOut, Mpc!AskNext
  <2> QED
    BY <1>6, <2>2 DEF Mpc!NodeRefuses, Mpc!NodeTimesOut, Mpc!ghosts,
       Mpc!clientVars
<1>7. ASSUME NEW r \in Transactions, Mpc!Respond(r) PROVE Mpc!TypeOK'
  BY <1>7 DEF Mpc!Respond, Mpc!Collected, Mpc!ghosts
<1>8. CASE Mpc!Tick
  <2>1. \A r \in Transactions : client[r] = "waiting" => age[r] < Timeout
    <3>1. \A r \in Transactions : age[r] \in 0..Timeout /\ ~Mpc!ClientDue(r)
      BY <1>8 DEF Mpc!Tick
    <3> QED
      BY <3>1 DEF Mpc!ClientDue
  <2>2. /\ age' \in [Transactions -> 0..Timeout]
        /\ wait' \in [Transactions -> 0..Timeout]
    BY <1>8, <2>1 DEF Mpc!Tick
  <2> QED
    BY <1>8, <2>2 DEF Mpc!Tick, Mpc!ghosts
<1>9. ASSUME NEW n \in Mpc!Nodes, NEW h \in Mpc!Health, Mpc!NodeBecomes(n, h)
      PROVE  Mpc!TypeOK'
  BY <1>9 DEF Mpc!NodeBecomes, Mpc!clientVars, Mpc!handlerVars
<1>10. CASE Mpc!GatewayRestarts
  BY <1>10 DEF Mpc!GatewayRestarts, Mpc!Waiting
<1>11. CASE UNCHANGED Mpc!vars
  BY <1>11 DEF Mpc!vars, Mpc!clientVars, Mpc!handlerVars, Mpc!ghosts
<1> QED
  BY <1>2, <1>3, <1>4, <1>5, <1>6, <1>7, <1>8, <1>9, <1>10, <1>11
     DEF Mpc!Next, Mpc!Step

(* No request gets the signatures of another one. *)
LEMMA OwnSignaturesStep ==
    ASSUME Mpc!TypeOK, OwnSignatures, [Mpc!Next]_(Mpc!vars)
    PROVE  OwnSignatures'
<1>1. ASSUME NEW r \in Transactions, Mpc!NodeSigns(r) PROVE OwnSignatures'
  <2>1. /\ asked[r] \in Mpc!Nodes
        /\ \A q \in Transactions : partial_signatures'[q] =
            IF q = r THEN partial_signatures[r] \cup {<<asked[r], r>>}
            ELSE partial_signatures[q]
    BY <1>1 DEF Mpc!NodeSigns, Mpc!Asking, Mpc!TypeOK
  <2> QED
    BY <2>1 DEF OwnSignatures
<1>2. ASSUME UNCHANGED partial_signatures PROVE OwnSignatures'
  BY <1>2 DEF OwnSignatures
<1> QED
  BY <1>1, <1>2 DEF Mpc!Next, Mpc!Step, Mpc!Accept, Mpc!RefuseType,
     Mpc!ClientTimesOut, Mpc!NodeRefuses, Mpc!NodeTimesOut, Mpc!Respond,
     Mpc!Tick, Mpc!NodeBecomes, Mpc!GatewayRestarts, Mpc!vars,
     Mpc!handlerVars

(* Whoever has an answer keeps it, and a new one has enough signatures. *)
LEMMA AnsweredStep ==
    ASSUME Mpc!TypeOK, OwnSignatures, AnsweredInv, [Mpc!Next]_(Mpc!vars)
    PROVE  AnsweredInv'
<1>1. ASSUME NEW r \in Transactions, Mpc!Respond(r) PROVE AnsweredInv'
  <2>1. \A q \in Transactions \ {r} :
          client'[q] = client[q] /\ answer'[q] = answer[q]
    BY <1>1 DEF Mpc!Respond, Mpc!TypeOK
  <2>2. client'[r] = "answered" =>
            \/ client[r] = "answered" /\ answer'[r] = answer[r]
            \/ /\ answer'[r] = partial_signatures[r]
               /\ Cardinality(partial_signatures[r]) >= mpc_threshold
    BY MpcCounts, <1>1 DEF Mpc!Respond, Mpc!Collected, Mpc!threshold_met,
       Mpc!TypeOK
  <2> QED
    BY <2>1, <2>2 DEF AnsweredInv, OwnSignatures
<1>2. ASSUME UNCHANGED answer,
             \A r \in Transactions :
               client'[r] = "answered" => client[r] = "answered"
      PROVE  AnsweredInv'
  BY <1>2 DEF AnsweredInv
<1>3. ASSUME NEW r \in Transactions,
             \/ Mpc!Accept(r) \/ Mpc!RefuseType(r) \/ Mpc!ClientTimesOut(r)
             \/ Mpc!NodeRefuses(r) \/ Mpc!NodeTimesOut(r) \/ Mpc!NodeSigns(r)
      PROVE  AnsweredInv'
  BY <1>2, <1>3 DEF Mpc!Accept, Mpc!RefuseType, Mpc!ClientTimesOut,
     Mpc!NodeRefuses, Mpc!NodeTimesOut, Mpc!NodeSigns, Mpc!clientVars,
     Mpc!TypeOK
<1>4. CASE Mpc!Tick \/ Mpc!GatewayRestarts \/ UNCHANGED Mpc!vars
  BY <1>2, <1>4 DEF Mpc!Tick, Mpc!GatewayRestarts, Mpc!vars, Mpc!clientVars,
     Mpc!TypeOK
<1>5. ASSUME NEW n \in Mpc!Nodes, NEW h \in Mpc!Health, Mpc!NodeBecomes(n, h)
      PROVE  AnsweredInv'
  BY <1>2, <1>5 DEF Mpc!NodeBecomes, Mpc!clientVars
<1> QED
  BY <1>1, <1>3, <1>4, <1>5 DEF Mpc!Next, Mpc!Step

(* While nothing is slow, no time passes for the client. *)
LEMMA AwaitedStep ==
    ASSUME Mpc!SigningAssumption, Mpc!TypeOK, AwaitedInv,
           [Mpc!Next]_(Mpc!vars)
    PROVE  AwaitedInv'
<1>1. SUFFICES ASSUME NEW r \in Transactions, Awaited(r) PROVE Awaited(r)'
  BY DEF AwaitedInv
<1>2. ASSUME UNCHANGED <<client[r], age[r], handler[r], asked[r], wait[r],
                         partial_signatures[r], health, notUp[r], slow[r]>>
      PROVE  Awaited(r)'
  BY <1>1, <1>2 DEF Awaited
<1>3. CASE Mpc!Accept(r)
  <2>1. /\ client'[r] = "waiting" /\ handler'[r] = "asking"
        /\ notUp'[r] = {n \in Mpc!Nodes : health[n] # "up"}
        /\ slow'[r] = {n \in Mpc!Nodes : health[n] = "slow"}
        /\ UNCHANGED <<health, age, asked, wait>>
        /\ asked[r] = 1 /\ age[r] = 0 /\ wait[r] = 0
    BY <1>1, <1>3 DEF Mpc!Accept, Awaited, Mpc!TypeOK
  <2>2. \A n \in Mpc!Nodes : ~(n < 1)
    BY DEF Mpc!Nodes
  <2> QED
    BY <2>1, <2>2 DEF Awaited
<1>4. CASE Mpc!RefuseType(r) \/ Mpc!ClientTimesOut(r) \/ Mpc!Respond(r)
  <2>1. client[r] = "idle" => ~Mpc!Respond(r)
    BY <1>1 DEF Awaited, Mpc!Respond, Mpc!Collecting
  <2>2. client'[r] \notin {"idle", "waiting"}
    BY <1>4, <2>1 DEF Mpc!RefuseType, Mpc!ClientTimesOut, Mpc!ClientDue,
       Mpc!Respond, Mpc!TypeOK
  <2> QED
    BY <2>2 DEF Awaited
<1>5. CASE Mpc!NodeSigns(r)
  <2>1. /\ UNCHANGED <<health, client, age, handler, notUp, slow>>
        /\ handler[r] = "asking" /\ asked[r] \in Mpc!Nodes
        /\ asked'[r] = asked[r] + 1 /\ wait'[r] = 0
        /\ partial_signatures'[r]
             = partial_signatures[r] \cup {<<asked[r], r>>}
    BY <1>5 DEF Mpc!NodeSigns, Mpc!Asking, Mpc!clientVars, Mpc!ghosts,
       Mpc!TypeOK
  <2>2. \A n \in Mpc!Nodes : n < asked[r] + 1 => n < asked[r] \/ n = asked[r]
    BY <2>1 DEF Mpc!Nodes
  <2> QED
    BY <1>1, <2>1, <2>2 DEF Awaited
<1>6. CASE Mpc!NodeRefuses(r)
  <2>1. /\ UNCHANGED <<health, client, age, handler, notUp, slow,
                       partial_signatures>>
        /\ handler[r] = "asking" /\ asked[r] \in Mpc!Nodes
        /\ asked'[r] = asked[r] + 1 /\ wait'[r] = 0
        /\ health[asked[r]] # "up"
    BY <1>6 DEF Mpc!NodeRefuses, Mpc!AskNext, Mpc!Asking, Mpc!clientVars,
       Mpc!ghosts, Mpc!TypeOK
  <2>2. \A n \in Mpc!Nodes : n < asked[r] + 1 => n < asked[r] \/ n = asked[r]
    BY <2>1 DEF Mpc!Nodes
  <2> QED
    BY <1>1, <2>1, <2>2 DEF Awaited
<1>7. CASE Mpc!NodeTimesOut(r)
  <2>1. /\ UNCHANGED <<health, client, age, handler, notUp, slow>>
        /\ handler[r] = "asking" /\ wait[r] # 0
    BY <1>7 DEF Mpc!SigningAssumption, Mpc!NodeTimesOut, Mpc!NodeDue,
       Mpc!Asking, Mpc!clientVars, Mpc!ghosts
  <2> QED
    BY <1>1, <2>1 DEF Awaited
<1>8. ASSUME NEW q \in Transactions, q # r,
             \/ Mpc!Accept(q) \/ Mpc!RefuseType(q)
             \/ Mpc!Step(q) \/ Mpc!NodeSigns(q)
      PROVE  Awaited(r)'
  BY <1>2, <1>8 DEF Mpc!Accept, Mpc!RefuseType, Mpc!Step,
     Mpc!ClientTimesOut, Mpc!NodeRefuses, Mpc!NodeTimesOut, Mpc!Respond,
     Mpc!NodeSigns, Mpc!AskNext, Mpc!clientVars, Mpc!handlerVars,
     Mpc!ghosts, Mpc!TypeOK
<1>9. CASE Mpc!Tick
  <2>1. UNCHANGED <<client, handler, asked, partial_signatures, health, notUp,
                    slow>>
    BY <1>9 DEF Mpc!Tick, Mpc!ghosts
  <2>2. client[r] = "idle" => age'[r] = age[r] /\ wait'[r] = wait[r]
    BY <1>1, <1>9 DEF Mpc!Tick, Mpc!Asking, Awaited
  <2>3. client[r] = "waiting" => slow[r] # {}
    <3>1. SUFFICES ASSUME client[r] = "waiting" PROVE slow[r] # {}
      OBVIOUS
    <3>2. asked[r] \in Mpc!Nodes /\ health[asked[r]] = "slow"
      BY <1>1, <1>9, <3>1 DEF Mpc!Tick, Mpc!Prompt, Mpc!Collecting,
         Mpc!Asking, Awaited
    <3> QED
      BY <1>1, <3>1, <3>2 DEF Awaited
  <2> QED
    BY <1>1, <2>1, <2>2, <2>3 DEF Awaited
<1>10. ASSUME NEW n \in Mpc!Nodes, NEW h \in Mpc!Health, Mpc!NodeBecomes(n, h)
       PROVE  Awaited(r)'
  <2>1. /\ UNCHANGED <<client, age, handler, asked, wait, partial_signatures>>
        /\ \A m \in Mpc!Nodes : health'[m] = IF m = n THEN h ELSE health[m]
    BY <1>10 DEF Mpc!NodeBecomes, Mpc!clientVars, Mpc!handlerVars, Mpc!TypeOK
  <2>2. client[r] = "waiting" =>
          /\ notUp'[r] = IF h # "up" THEN notUp[r] \cup {n} ELSE notUp[r]
          /\ slow'[r] = IF h = "slow" THEN slow[r] \cup {n} ELSE slow[r]
    BY <1>10 DEF Mpc!NodeBecomes, Mpc!Waiting
  <2> QED
    BY <1>1, <2>1, <2>2 DEF Awaited
<1>11. CASE Mpc!GatewayRestarts
  <2>1. /\ UNCHANGED <<age, asked, wait>>
        /\ client'[r] # "waiting"
        /\ client'[r] = "idle" => client[r] = "idle"
        /\ handler[r] = "none" => handler'[r] = "none"
    BY <1>11 DEF Mpc!GatewayRestarts, Mpc!Waiting
  <2> QED
    BY <1>1, <2>1 DEF Awaited
<1>12. CASE UNCHANGED Mpc!vars
  BY <1>2, <1>12 DEF Mpc!vars, Mpc!clientVars, Mpc!handlerVars, Mpc!ghosts
<1> QED
  BY <1>3, <1>4, <1>5, <1>6, <1>7, <1>8, <1>9, <1>10, <1>11, <1>12
     DEF Mpc!Next, Mpc!Step

(* A request that fails has met too many nodes that did not work. *)
LEMMA SufficesStep ==
    ASSUME Mpc!SigningAssumption, Mpc!TypeOK, OwnSignatures, AwaitedInv,
           Mpc!WorkingNodesSuffice, [Mpc!Next]_(Mpc!vars)
    PROVE  Mpc!WorkingNodesSuffice'
<1>1. SUFFICES ASSUME NEW r \in Transactions, r \notin killed',
                      client'[r] = "failed", chain_id'[r] = "string",
                      slow'[r] = {}
               PROVE  Cardinality(Mpc!Nodes \ notUp'[r]) < mpc_threshold
  BY MpcCounts DEF Mpc!WorkingNodesSuffice
<1>2. r \notin killed /\ chain_id[r] = "string"
  BY <1>1 DEF Mpc!Next, Mpc!Step, Mpc!Accept, Mpc!RefuseType,
     Mpc!ClientTimesOut, Mpc!NodeSigns, Mpc!NodeRefuses, Mpc!NodeTimesOut,
     Mpc!Respond, Mpc!Tick, Mpc!NodeBecomes, Mpc!GatewayRestarts, Mpc!vars,
     Mpc!ghosts
<1>3. CASE client[r] = "failed"
  <2>1. notUp'[r] = notUp[r] /\ slow'[r] = slow[r]
    BY <1>3 DEF Mpc!Next, Mpc!Step, Mpc!Accept, Mpc!RefuseType,
       Mpc!ClientTimesOut, Mpc!NodeSigns, Mpc!NodeRefuses, Mpc!NodeTimesOut,
       Mpc!Respond, Mpc!Tick, Mpc!NodeBecomes, Mpc!Waiting,
       Mpc!GatewayRestarts, Mpc!vars, Mpc!ghosts, Mpc!TypeOK
  <2> QED
    BY <1>1, <1>2, <1>3, <2>1, MpcCounts
       DEF Mpc!WorkingNodesSuffice
<1>4. CASE client[r] # "failed"
  <2>1. Mpc!ClientTimesOut(r) \/ Mpc!Respond(r)
    <3>1. ~Mpc!GatewayRestarts
      <4>1. SUFFICES ASSUME Mpc!GatewayRestarts PROVE FALSE
        OBVIOUS
      <4>2. r \in Mpc!Waiting /\ killed' = killed \cup Mpc!Waiting
        BY <1>1, <1>4, <4>1 DEF Mpc!GatewayRestarts
      <4> QED
        BY <1>1, <4>2
    <3>2. client' # client
      BY <1>1, <1>4
    <3>3. ASSUME NEW q \in Transactions, Mpc!Accept(q) \/ Mpc!RefuseType(q)
          PROVE  FALSE
      BY <1>1, <1>2, <1>4, <3>3 DEF Mpc!Accept, Mpc!RefuseType, Mpc!TypeOK
    <3>4. ASSUME NEW q \in Transactions,
                 Mpc!ClientTimesOut(q) \/ Mpc!Respond(q)
          PROVE  q = r
      BY <1>1, <1>4, <3>4 DEF Mpc!ClientTimesOut, Mpc!Respond, Mpc!TypeOK
    <3> QED
      BY <3>1, <3>2, <3>3, <3>4 DEF Mpc!Next, Mpc!Step, Mpc!NodeSigns,
         Mpc!NodeRefuses, Mpc!NodeTimesOut, Mpc!Tick, Mpc!NodeBecomes,
         Mpc!vars, Mpc!clientVars
  <2>2. slow[r] = {} /\ notUp'[r] = notUp[r]
    BY <1>1, <2>1 DEF Mpc!ClientTimesOut, Mpc!Respond, Mpc!ghosts
  <2>3. client[r] = "waiting"
    BY <1>1, <1>4, <2>1 DEF Mpc!ClientTimesOut, Mpc!ClientDue, Mpc!Respond
  <2>4. /\ age[r] = 0
        /\ \A n \in Mpc!Nodes : n < asked[r] =>
             n \in notUp[r] \/ <<n, r>> \in partial_signatures[r]
    BY <2>2, <2>3 DEF AwaitedInv, Awaited
  <2>5. Mpc!Respond(r)
    BY <2>1, <2>4 DEF Mpc!SigningAssumption, Mpc!ClientTimesOut,
       Mpc!ClientDue
  <2>6. ~(Cardinality(partial_signatures[r]) >= mpc_threshold)
    BY MpcCounts, <1>1, <2>3, <2>5 DEF Mpc!Respond, Mpc!threshold_met, Mpc!Collected,
       Mpc!TypeOK
  <2>7. \A n \in Mpc!Nodes : n < asked[r]
    BY <2>5 DEF Mpc!SigningAssumption, Mpc!Respond, Mpc!Collecting,
       Mpc!TypeOK, Mpc!Nodes
  <2> DEFINE Signers == {n \in Mpc!Nodes : <<n, r>> \in partial_signatures[r]}
  <2>8. Mpc!Nodes \ notUp[r] \subseteq Signers /\ Signers \in SUBSET Mpc!Nodes
    BY <2>4, <2>7
  <2>9. /\ Cardinality(Signers) = Cardinality(partial_signatures[r])
        /\ Cardinality(partial_signatures[r]) \in Nat
    BY SignersCounted DEF OwnSignatures
  <2> HIDE DEF Signers
  <2>10. /\ Cardinality(Mpc!Nodes \ notUp[r]) <= Cardinality(Signers)
         /\ Cardinality(Mpc!Nodes \ notUp[r]) \in Nat
    BY <2>8, NodesFinite, FS_Subset
  <2> QED
    BY <2>2, <2>6, <2>9, <2>10 DEF Mpc!SigningAssumption
<1> QED
  BY <1>3, <1>4

-----------------------------------------------------------------------------
(* What the steps of the transactions and the nodes preserve together. *)
LEMMA SigningStep ==
    ASSUME Mpc!SigningAssumption
    PROVE  SigningInv /\ [Mpc!Next]_(Mpc!vars) => SigningInv'
  BY SigningType, OwnSignaturesStep, AnsweredStep, AwaitedStep, SufficesStep
     DEF SigningInv

(* What holds at every moment of the client, the coroutine and the nodes   *)
(* (signing_gateway/main.py:46-88): see the parts of SigningInv.           *)
THEOREM SigningInvariant ==
    ASSUME Mpc!SigningAssumption PROVE Mpc!Spec => []SigningInv
  BY SigningInit, SigningStep, PTL DEF Mpc!Spec

(* An answer carries the signatures of mpc_threshold different nodes, each *)
(* on the transaction that was asked for (signing_gateway/main.py:46-88),  *)
(* for any number of nodes and any threshold.                              *)
THEOREM ThresholdSigned ==
    ASSUME Mpc!SigningAssumption PROVE Mpc!Spec => []Mpc!SignedByThreshold
<1>1. SigningInv => Mpc!SignedByThreshold
  <2>1. SUFFICES ASSUME SigningInv, NEW r \in Transactions,
                        client[r] = "answered"
                 PROVE  Cardinality({n \in Mpc!Nodes : <<n, r>> \in answer[r]})
                          >= mpc_threshold
    BY MpcCounts DEF Mpc!SignedByThreshold
  <2>2. /\ answer[r] \in SUBSET (Mpc!Nodes \X {r})
        /\ Cardinality(answer[r]) >= mpc_threshold
    BY <2>1 DEF SigningInv, AnsweredInv
  <2>3. Cardinality({n \in Mpc!Nodes : <<n, r>> \in answer[r]})
          = Cardinality(answer[r])
    BY <2>2, SignersCounted
  <2> QED
    BY <2>2, <2>3
<1> QED
  BY SigningInvariant, <1>1, PTL

(* If no node was slow meanwhile, only too few nodes that stayed up make a *)
(* request fail: the loop goes on over a node that failed                  *)
(* (signing_gateway/main.py:67).                                           *)
THEOREM WorkingNodesSign ==
    ASSUME Mpc!SigningAssumption PROVE Mpc!Spec => []Mpc!WorkingNodesSuffice
<1>1. SigningInv => Mpc!WorkingNodesSuffice
  BY DEF SigningInv
<1> QED
  BY SigningInvariant, <1>1, PTL
=============================================================================
