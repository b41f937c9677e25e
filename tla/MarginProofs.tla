---------------------------- MODULE MarginProofs ----------------------------
(***************************************************************************)
(* Proofs about Margin for any number of members, trades and replicas, any *)
(* prices, deposits and faults: what the margin engine requires and calls, *)
(* what the balances of a member are made of, and what two services that   *)
(* run once may rely on.                                                   *)
(***************************************************************************)
EXTENDS Margin, Sums, SequenceTheorems

(* A recalculation under way: its event is not through yet, and no member  *)
(* is assessed twice.                                                      *)
JobInv(w) ==
    LET todo == job[w].todo
        done == job[w].done
    IN  /\ w \in site.engines
        /\ job[w].event \notin acked
        /\ IsFiniteSet(done)
        /\ \A a \in done : a.call = a.im
        /\ \A a, b \in done : a.member = b.member => a = b
        /\ \A i, j \in 1..Len(todo) : todo[i].member = todo[j].member => i = j
        /\ \A i \in 1..Len(todo), a \in done : todo[i].member # a.member

(* No two replicas have the same event, or the same call. *)
JobsInv ==
    /\ \A w \in Replicas : job[w] # Idle => JobInv(w)
    /\ \A v, w \in Replicas :
         v # w /\ job[v] # Idle /\ job[w] # Idle => job[v].event # job[w].event

DesksInv ==
    /\ \A v \in Replicas :
         desk[v] # Idle => v \in site.desks /\ desk[v].call \notin closed
    /\ \A v, w \in Replicas :
         v # w /\ desk[v] # Idle /\ desk[w] # Idle =>
             desk[v].call # desk[w].call

(* Nothing is ever posted, and a call is written with its event's marker. *)
RowsInv ==
    /\ requirements = [r \in DOMAIN requirements |-> requirements[r]]
    /\ \A r \in DOMAIN requirements : requirements[r].posted = 0
    /\ \A c \in DOMAIN calls : c[1] \in handled
    /\ IsFiniteSet(paid)

Base == TypeOK /\ JobsInv /\ DesksInv /\ RowsInv

(* One collateral manager: what it has checked is still there. *)
CheckedIsThere ==
    Alone(site.desks) =>
        \A v \in Replicas : desk[v] # Idle =>
            ledger[<<desk[v].call[2], "COLLATERAL">>] >= calls[desk[v].call]

(* One margin engine: unless something was published since it began, it    *)
(* has, or will have, assessed the positions as they are.                  *)
Covers(w, m) ==
    LET p == Position(m) IN
    \/ \E i \in 1..Len(job[w].todo) : job[w].todo[i] = p
    \/ \E a \in job[w].done :
         /\ a.member = m
         /\ a.im = calculate_initial_margin(p.net, p.latest)
         /\ a.vm = calculate_variation_margin(p.net, p.latest, p.avg)

RecalculatesCurrent ==
    Alone(site.engines) /\ Unnetted =>
        \A w \in Replicas :
            job[w] # Idle /\ Published \subseteq handled \cup {job[w].event} =>
                \A m \in {m \in Members : NetQuantity(m) # 0} : Covers(w, m)

IInv ==
    /\ Base
    /\ ShortfallIsCalled
    /\ LedgerIsExplained
    /\ CheckedIsThere /\ AloneCollateralNotOverdrawn
    /\ RecalculatesCurrent /\ AloneIsCurrent

-----------------------------------------------------------------------------
(* Arithmetic and sums.                                                    *)

(* Products, magnitudes and quotients of what the prices are made of. *)
LEMMA Products ==
    /\ \A a, b \in Nat : a * b \in Nat
    /\ \A a, b \in Int : a * b \in Int
    /\ \A a \in Int : Magnitude(a) \in Nat
    /\ \A a \in Nat, b \in Nat \ {0} : a \div b \in Nat
<1>1. \A a, b \in Nat : a * b \in Nat
  OBVIOUS
<1>2. \A a, b \in Int : a * b \in Int
  OBVIOUS
<1>3. \A a \in Int : Magnitude(a) \in Nat
  BY DEF Magnitude
<1>4. \A a \in Nat, b \in Nat \ {0} : a \div b \in Nat
  OBVIOUS
<1> QED
  BY <1>1, <1>2, <1>3, <1>4

(* A sum of positive numbers, one at least, is positive. *)
LEMMA SumPositive ==
    ASSUME NEW f, NEW S, IsFiniteSet(S), S # {}, \A x \in S : f[x] \in Nat \ {0}
    PROVE  SumFunctionOnSet(f, S) \in Nat \ {0}
<1>1. PICK x \in S : TRUE
  OBVIOUS
<1>2. IsFiniteSet(S \ {x})
  BY FS_RemoveElement
<1>3. SumFunctionOnSet(f, S) = f[x] + SumFunctionOnSet(f, S \ {x})
  BY SumRemove
<1>4. SumFunctionOnSet(f, S \ {x}) \in Nat
  BY <1>2, SumNat
<1> QED
  BY <1>3, <1>4

(* What is known of the terms of a trade. *)
LEMMA TermsTyped ==
    ASSUME NEW t \in Trades
    PROVE  /\ Terms[t].buyer \in Members /\ Terms[t].seller \in Members
           /\ Terms[t].buyer # Terms[t].seller
           /\ Terms[t].quantity \in Nat \ {0} /\ Terms[t].price \in Nat \ {0}
           /\ Terms[t].quantity * Terms[t].price \in Nat
           /\ Terms[t].quantity * Terms[t].price * Rate \in Nat
           /\ \A m : /\ Side(m, t) \in Int
                     /\ Side(m, t) * Terms[t].quantity \in Int
<1>1. /\ Terms[t].buyer \in Members /\ Terms[t].seller \in Members
      /\ Terms[t].buyer # Terms[t].seller
      /\ Terms[t].quantity \in Nat \ {0} /\ Terms[t].price \in Nat \ {0}
      /\ Rate \in Nat
  BY MarginAssumption
<1>2. \A m : Side(m, t) \in Int
  BY DEF Side
<1> DEFINE q == Terms[t].quantity
           p == Terms[t].price
<1>3. q \in Nat /\ p \in Nat /\ q \in Int
  BY <1>1
<1> HIDE DEF q, p
<1>4. q * p \in Nat /\ q * p * Rate \in Nat
  BY <1>1, <1>3, Products
<1>5. \A m : Side(m, t) * q \in Int
  BY <1>2, <1>3, Products
<1> QED
  BY <1>1, <1>2, <1>4, <1>5 DEF q, p

(* The open legs of a member are finitely many trades. *)
LEMMA LegsFinite ==
    ASSUME NEW m
    PROVE  IsFiniteSet(LegsOf(m)) /\ LegsOf(m) \subseteq Trades
<1>1. LegsOf(m) \subseteq Trades
  BY DEF LegsOf, Open
<1> QED
  BY <1>1, MarginAssumption, FS_Subset

(* A position that is not flat has legs, and is a row of the SELECT. *)
LEMMA PositionTyped ==
    ASSUME TypeOK, NEW m \in Members
    PROVE  /\ NetQuantity(m) \in Int
           /\ NetQuantity(m) # 0 => Position(m) \in Row
           /\ Position(m).member = m
<1> DEFINE net == [t \in LegsOf(m) |-> Side(m, t) * Terms[t].quantity]
           value == [t \in LegsOf(m) |-> Terms[t].quantity * Terms[t].price]
           size == [t \in LegsOf(m) |-> Terms[t].quantity]
           N == NetQuantity(m)
           A == AvgPrice(m)
<1>1. N = SumFunctionOnSet(net, LegsOf(m))
  BY DEF NetQuantity, SumFunction
<1>2. A = SumFunctionOnSet(value, LegsOf(m))
            \div SumFunctionOnSet(size, LegsOf(m))
  BY DEF AvgPrice, SumFunction
<1>3. \A t \in LegsOf(m) : /\ net[t] \in Int /\ value[t] \in Nat
                           /\ size[t] \in Nat \ {0}
  BY LegsFinite, TermsTyped
<1> HIDE DEF net, value, size
<1>4. N \in Int
  BY <1>1, <1>3, LegsFinite, SumInt
<1>5. ASSUME N # 0 PROVE A \in Nat
  <2>1. LegsOf(m) # {}
    BY <1>1, <1>5, SumEmpty
  <2>2. SumFunctionOnSet(value, LegsOf(m)) \in Nat
    BY <1>3, LegsFinite, SumNat
  <2>3. SumFunctionOnSet(size, LegsOf(m)) \in Nat \ {0}
    BY <1>3, <2>1, LegsFinite, SumPositive
  <2> QED
    BY <1>2, <2>2, <2>3, Products
<1>6. price \in Nat
  BY MarginAssumption DEF TypeOK, NoPrice
<1>7. N # 0 => Position(m) \in Row
  BY <1>4, <1>5, <1>6 DEF Position, Row
<1> QED
  BY <1>4, <1>7 DEF Position

(* The rows of the SELECT, once each and in some order. *)
LEMMA SelectedRows ==
    ASSUME TypeOK, NEW rows \in Bijection(1..Cardinality(Positions), Positions)
    PROVE  /\ rows \in Seq(Row)
           /\ \A i, j \in 1..Len(rows) :
                rows[i].member = rows[j].member => i = j
           /\ \A m \in {m \in Members : NetQuantity(m) # 0} :
                \E i \in 1..Len(rows) : rows[i] = Position(m)
<1> DEFINE held == {m \in Members : NetQuantity(m) # 0}
           at == [m \in held |-> Position(m)]
           n == Cardinality(Positions)
<1>1. /\ Positions \subseteq Row
      /\ \A p \in Positions : \E m \in held : p = Position(m)
  BY PositionTyped DEF Positions
<1>2. IsFiniteSet(Positions)
  <2>1. IsFiniteSet(held)
    BY MarginAssumption, FS_Subset
  <2>2. at \in Surjection(held, Positions)
    BY DEF Surjection, Positions
  <2> HIDE DEF held, at
  <2> QED
    BY <2>1, <2>2, FS_Surjection
<1>3. n \in Nat
  BY <1>2, FS_CardinalityType
<1>4. rows \in [1..n -> Positions] /\ rows \in Injection(1..n, Positions)
      /\ \A p \in Positions : \E i \in 1..n : rows[i] = p
  BY DEF Bijection, Injection, Surjection
<1> HIDE DEF n
<1>5. rows \in Seq(Row) /\ Len(rows) = n
  BY <1>1, <1>3, <1>4
<1>6. ASSUME NEW i \in 1..n, NEW j \in 1..n, rows[i].member = rows[j].member
      PROVE  i = j
  <2>1. PICK l \in held, m \in held :
          rows[i] = Position(l) /\ rows[j] = Position(m)
    BY <1>1, <1>4
  <2>2. l = m
    BY <1>6, <2>1, PositionTyped
  <2>3. rows[i] = rows[j]
    BY <2>1, <2>2
  <2> QED
    BY <1>4, <2>3 DEF Injection, IsInjective
<1>7. \A m \in held : Position(m) \in Positions
  BY DEF Positions
<1> QED
  BY <1>4, <1>5, <1>6, <1>7

-----------------------------------------------------------------------------
(* Types, and who has which event and which call.                          *)

(* Only a novation or a price publishes an event. *)
LEMMA PublishedStays ==
    ASSUME UNCHANGED <<legs, ticks>>
    PROVE  Published' = Published
  BY DEF Published

(* The tables are empty and every replica waits. *)
LEMMA InitBase ==
    Init => Base
<1> SUFFICES ASSUME Init PROVE Base
  OBVIOUS
<1>1. \A x : <<>> = [c \in {} |-> x]
  OBVIOUS
<1>2. DOMAIN requirements = {} /\ DOMAIN calls = {}
  BY DEF Init
<1>3. ledger \in [Accounts -> Int]
  <2>1. \A a \in Accounts : a = House \/ a[2] \in Pools
    BY DEF Accounts
  <2> QED
    BY <2>1, MarginAssumption DEF Init
<1>4. TypeOK
  BY <1>2, <1>3, MarginAssumption DEF Init, TypeOK
<1>5. requirements = [r \in DOMAIN requirements |-> requirements[r]]
  BY <1>2 DEF Init
<1>6. JobsInv /\ DesksInv
  BY DEF Init, JobsInv, DesksInv
<1>7. RowsInv
  BY <1>2, <1>5, FS_EmptySet DEF Init, RowsInv
<1> QED
  BY <1>4, <1>6, <1>7 DEF Base

(* The market changes no row of the two services. *)
LEMMA MarketBase ==
    ASSUME Base, UNCHANGED <<site, marginVars, desk, paid, closed, faults>>,
           legs' \in [Trades -> {"none", "open", "netted"}],
           price' \in Prices \cup {NoPrice}, ticks' \in 0..MaxTicks,
           Published \subseteq Published',
           ledger' \in [Accounts -> Int],
           deposited' \in [Members -> Nat], deposits' \in 0..MaxDeposits
    PROVE  Base'
<1>1. TypeOK'
  BY DEF Base, TypeOK, marginVars
<1>2. \A w : JobInv(w)' = JobInv(w)
  BY DEF JobInv, marginVars
<1>3. JobsInv'
  BY <1>2 DEF Base, JobsInv, marginVars
<1>4. DesksInv' /\ RowsInv'
  BY DEF Base, DesksInv, RowsInv, marginVars
<1> QED
  BY <1>1, <1>3, <1>4 DEF Base

(* One replica of the engine goes on, or is through with its event. *)
LEMMA JobBase ==
    ASSUME Base, NEW w \in Replicas, NEW new,
           job' = [job EXCEPT ![w] = new],
           UNCHANGED <<site, marketVars, requirements, calls, handled,
                       collateralVars, ledger>>,
           faults' \in 0..MaxFaults,
           \/ acked' = acked
           \/ /\ job[w] # Idle /\ new = Idle
              /\ acked' = acked \cup {job[w].event},
           new # Idle =>
               /\ new \in [status : {"recalculating"}, event : Published,
                           todo : Seq(Row), done : SUBSET Assessment]
               /\ JobInv(w)'
               /\ \A v \in Replicas \ {w} :
                    job[v] # Idle => job[v].event # new.event
    PROVE  Base'
<1>1. TypeOK /\ JobsInv /\ DesksInv /\ RowsInv
  BY DEF Base
<1>2. /\ Published' = Published /\ DOMAIN job' = Replicas /\ job'[w] = new
      /\ \A v \in Replicas \ {w} : job'[v] = job[v]
  BY <1>1, PublishedStays DEF TypeOK, marketVars
<1>3. job[w] # Idle => job[w].event \in Published
  BY <1>1 DEF TypeOK
<1>4. TypeOK'
  BY <1>1, <1>2, <1>3 DEF TypeOK, marketVars, collateralVars
<1>5. ASSUME NEW v \in Replicas \ {w}, job[v] # Idle PROVE JobInv(v)'
  <2>1. JobInv(v) /\ job[v].event \notin acked'
    BY <1>1, <1>5 DEF JobsInv, JobInv
  <2> QED
    BY <1>2, <1>5, <2>1 DEF JobInv
<1>6. JobsInv'
  BY <1>1, <1>2, <1>5 DEF JobsInv
<1>7. DesksInv' /\ RowsInv'
  BY <1>1 DEF DesksInv, RowsInv, collateralVars
<1> QED
  BY <1>4, <1>6, <1>7 DEF Base

(* One replica of the collateral manager goes on, or is through. *)
LEMMA DeskBase ==
    ASSUME Base, NEW v \in Replicas, NEW new,
           desk' = [desk EXCEPT ![v] = new],
           UNCHANGED <<site, marketVars, marginVars, deposited, deposits>>,
           ledger' \in [Accounts -> Int], faults' \in 0..MaxFaults,
           closed' \subseteq DOMAIN calls,
           paid' \subseteq closed', IsFiniteSet(paid'),
           \A u \in Replicas \ {v} :
               desk[u] # Idle => desk[u].call \notin closed',
           new # Idle =>
               /\ new \in [status : {"transferring"}, call : DOMAIN calls]
               /\ v \in site.desks /\ new.call \notin closed'
               /\ \A u \in Replicas \ {v} :
                    desk[u] # Idle => desk[u].call # new.call
    PROVE  Base'
<1>1. TypeOK /\ JobsInv /\ DesksInv /\ RowsInv
  BY DEF Base
<1>2. /\ Published' = Published /\ DOMAIN desk' = Replicas /\ desk'[v] = new
      /\ \A u \in Replicas \ {v} : desk'[u] = desk[u]
  BY <1>1, PublishedStays DEF TypeOK, marketVars
<1>3. TypeOK'
  BY <1>1, <1>2 DEF TypeOK, marketVars, marginVars
<1>4. \A w : JobInv(w)' = JobInv(w)
  BY DEF JobInv, marginVars
<1>5. JobsInv'
  BY <1>1, <1>4 DEF JobsInv, marginVars
<1>6. DesksInv'
  BY <1>1, <1>2 DEF DesksInv
<1>7. RowsInv'
  BY <1>1 DEF RowsInv, marginVars
<1> QED
  BY <1>3, <1>5, <1>6, <1>7 DEF Base

-----------------------------------------------------------------------------
(* The ledger.                                                             *)

(* No pool of a member is the account of the house or of another member.   *)
LEMMA AccountsOfMember ==
    ASSUME NEW m \in Members, NEW p \in Pools
    PROVE  /\ <<m, p>> \in Accounts /\ <<m, p>> # House
           /\ \A n, q : <<m, p>> = <<n, q>> => m = n /\ p = q
<1>1. House[2] \notin Pools /\ House \in Accounts
  BY DEF House, Pools, Accounts
<1>2. <<m, p>>[2] = p
  OBVIOUS
<1> QED
  BY <1>1, <1>2 DEF Accounts

(* A journal moves an amount between two accounts, and touches no other.   *)
LEMMA JournalEffect ==
    ASSUME NEW old \in [Accounts -> Int], NEW debit \in Accounts,
           NEW credit \in Accounts, debit # credit, NEW amount \in Int
    PROVE  /\ Journal(old, debit, credit, amount) \in [Accounts -> Int]
           /\ Journal(old, debit, credit, amount)[debit] = old[debit] + amount
           /\ Journal(old, debit, credit, amount)[credit] = old[credit] - amount
           /\ \A a \in Accounts \ {debit, credit} :
                Journal(old, debit, credit, amount)[a] = old[a]
  BY DEF Journal

(* The pools that have a property of their own. *)
Watched == {"COLLATERAL", "IM_AVAILABLE", "IM_LOCKED"}

(* _lock_margin for one party, on the watched pools. *)
LEMMA LockMarginEffect ==
    ASSUME NEW old \in [Accounts -> Int], NEW n \in Members,
           NEW amount \in Int, NEW new, new = LockMargin(old, n, amount)
    PROVE  /\ new \in [Accounts -> Int]
           /\ \A m \in Members, p \in Watched :
                new[<<m, p>>] =
                  IF m = n /\ p = "IM_AVAILABLE" THEN old[<<m, p>>] + amount
                  ELSE IF m = n /\ p = "IM_LOCKED" THEN old[<<m, p>>] - amount
                  ELSE old[<<m, p>>]
<1> DEFINE debit == <<n, "IM_AVAILABLE">>
           credit == <<n, "IM_LOCKED">>
<1>1. debit \in Accounts /\ credit \in Accounts /\ debit # credit
  BY AccountsOfMember DEF Pools
<1>2. new = Journal(old, debit, credit, amount)
  BY DEF LockMargin
<1>3. \A m \in Members, p \in Watched :
        /\ <<m, p>> \in Accounts
        /\ <<m, p>> = debit <=> m = n /\ p = "IM_AVAILABLE"
        /\ <<m, p>> = credit <=> m = n /\ p = "IM_LOCKED"
  BY AccountsOfMember DEF Pools, Watched
<1> HIDE DEF debit, credit
<1>4. /\ new \in [Accounts -> Int]
      /\ new[debit] = old[debit] + amount /\ new[credit] = old[credit] - amount
      /\ \A a \in Accounts \ {debit, credit} : new[a] = old[a]
  BY <1>1, <1>2 DEF Journal
<1>5. ASSUME NEW m \in Members, NEW p \in Watched
      PROVE  new[<<m, p>>] =
               IF m = n /\ p = "IM_AVAILABLE" THEN old[<<m, p>>] + amount
               ELSE IF m = n /\ p = "IM_LOCKED" THEN old[<<m, p>>] - amount
               ELSE old[<<m, p>>]
  <2>1. CASE <<m, p>> = debit
    BY <1>3, <1>4, <2>1
  <2>2. CASE <<m, p>> = credit
    BY <1>1, <1>3, <1>4, <2>2
  <2>3. CASE <<m, p>> \in Accounts \ {debit, credit}
    BY <1>3, <1>4, <2>3
  <2> QED
    BY <1>3, <2>1, <2>2, <2>3
<1> QED
  BY <1>4, <1>5

(* _lock_margin for both parties, which are two members. *)
LEMMA LockEffect ==
    ASSUME NEW old \in [Accounts -> Int], NEW t \in Trades
    PROVE  /\ LockBoth(old, t) \in [Accounts -> Int]
           /\ \A m \in Members :
                LET amount == IF m \in {Terms[t].buyer, Terms[t].seller}
                              THEN Terms[t].quantity * Terms[t].price * Rate
                              ELSE 0
                IN  /\ LockBoth(old, t)[<<m, "IM_AVAILABLE">>]
                         = old[<<m, "IM_AVAILABLE">>] + amount
                    /\ LockBoth(old, t)[<<m, "IM_LOCKED">>]
                         = old[<<m, "IM_LOCKED">>] - amount
                    /\ LockBoth(old, t)[<<m, "COLLATERAL">>]
                         = old[<<m, "COLLATERAL">>]
<1> DEFINE b == Terms[t].buyer
           s == Terms[t].seller
           amount == Terms[t].quantity * Terms[t].price * Rate
           mid == LockMargin(old, b, amount)
           new == LockMargin(mid, s, amount)
<1>1. b \in Members /\ s \in Members /\ b # s /\ amount \in Int
  BY TermsTyped
<1>2. LockBoth(old, t) = new
  BY DEF LockBoth
<1>3. \A m \in Members, p \in Watched : old[<<m, p>>] \in Int
  BY AccountsOfMember DEF Watched, Pools
<1> HIDE DEF b, s, amount
<1>4. /\ mid \in [Accounts -> Int]
      /\ \A m \in Members, p \in Watched : mid[<<m, p>>] =
            IF m = b /\ p = "IM_AVAILABLE" THEN old[<<m, p>>] + amount
            ELSE IF m = b /\ p = "IM_LOCKED" THEN old[<<m, p>>] - amount
            ELSE old[<<m, p>>]
  <2> HIDE DEF mid
  <2>1. mid = LockMargin(old, b, amount)
    BY DEF mid
  <2>2. mid \in [Accounts -> Int]
    BY <1>1, <2>1, LockMarginEffect
  <2>3. ASSUME NEW m \in Members, NEW p \in Watched
        PROVE  mid[<<m, p>>] =
                 IF m = b /\ p = "IM_AVAILABLE" THEN old[<<m, p>>] + amount
                 ELSE IF m = b /\ p = "IM_LOCKED" THEN old[<<m, p>>] - amount
                 ELSE old[<<m, p>>]
    BY <1>1, <2>1, LockMarginEffect, SMTT(30)
  <2> QED
    BY <2>2, <2>3
<1> HIDE DEF mid
<1>5. /\ new \in [Accounts -> Int]
      /\ \A m \in Members, p \in Watched : new[<<m, p>>] =
            IF m = s /\ p = "IM_AVAILABLE" THEN mid[<<m, p>>] + amount
            ELSE IF m = s /\ p = "IM_LOCKED" THEN mid[<<m, p>>] - amount
            ELSE mid[<<m, p>>]
  <2> HIDE DEF new
  <2>1. new = LockMargin(mid, s, amount)
    BY DEF new
  <2>2. new \in [Accounts -> Int]
    BY <1>1, <1>4, <2>1, LockMarginEffect
  <2>3. mid \in [Accounts -> Int]
    BY <1>4
  <2>4. ASSUME NEW m \in Members, NEW p \in Watched
        PROVE  new[<<m, p>>] =
                 IF m = s /\ p = "IM_AVAILABLE" THEN mid[<<m, p>>] + amount
                 ELSE IF m = s /\ p = "IM_LOCKED" THEN mid[<<m, p>>] - amount
                 ELSE mid[<<m, p>>]
    BY <1>1, <2>1, <2>3, LockMarginEffect, SMTT(30)
  <2> QED
    BY <2>2, <2>4
<1> HIDE DEF new
<1>6. ASSUME NEW m \in Members
      PROVE  LET amt == IF m \in {b, s} THEN amount ELSE 0
             IN  /\ new[<<m, "IM_AVAILABLE">>]
                      = old[<<m, "IM_AVAILABLE">>] + amt
                 /\ new[<<m, "IM_LOCKED">>] = old[<<m, "IM_LOCKED">>] - amt
                 /\ new[<<m, "COLLATERAL">>] = old[<<m, "COLLATERAL">>]
  BY <1>1, <1>3, <1>4, <1>5 DEF Watched
<1> QED
  BY <1>2, <1>5, <1>6 DEF b, s, amount

(* The variation touches the variation pools only. *)
LEMMA VariationEffect ==
    ASSUME NEW old \in [Accounts -> Int], NEW done \in SUBSET Assessment,
           IsFiniteSet(done)
    PROVE  /\ ProcessVariation(old, done) \in [Accounts -> Int]
           /\ \A m \in Members, p \in Watched :
                ProcessVariation(old, done)[<<m, p>>] = old[<<m, p>>]
<1>1. ASSUME NEW m PROVE VariationOf(done, m) \in Int
  <2> DEFINE mine == {a \in done : a.member = m}
             f == [a \in mine |-> a.vm]
  <2>1. IsFiniteSet(mine) /\ VariationOf(done, m) = SumFunctionOnSet(f, mine)
        /\ \A a \in mine : f[a] \in Int
    BY FS_Subset DEF VariationOf, SumFunction, Assessment
  <2> HIDE DEF mine, f
  <2> QED
    BY <2>1, SumInt
<1>2. ProcessVariation(old, done) \in [Accounts -> Int]
  BY <1>1 DEF ProcessVariation
<1>3. ASSUME NEW m \in Members, NEW p \in Watched
      PROVE  ProcessVariation(old, done)[<<m, p>>] = old[<<m, p>>]
  <2>1. <<m, p>> \in Accounts /\ old[<<m, p>>] \in Int /\ <<m, p>>[2] = p
    BY AccountsOfMember DEF Pools, Watched
  <2> QED
    BY <2>1 DEF ProcessVariation, Watched
<1> QED
  BY <1>2, <1>3

-----------------------------------------------------------------------------
(* What a recalculation writes.                                            *)

(* A member is assessed once: its assessment is the one CHOOSE finds.      *)
LEMMA ChosenIs ==
    ASSUME NEW done, \A a, b \in done : a.member = b.member => a = b,
           NEW a \in done
    PROVE  (CHOOSE b \in done : b.member = a.member) = a
  OBVIOUS

(* The rows a commit writes: the initial margin of each assessment, and    *)
(* its variation where it is not zero.                                     *)
LEMMA ChangesAre ==
    ASSUME NEW done, \A a, b \in done : a.member = b.member => a = b
    PROVE  /\ \A a \in done :
                /\ <<a.member, "INITIAL">> \in DOMAIN Changes(done)
                /\ Changes(done)[<<a.member, "INITIAL">>] = a.im
                /\ a.vm # 0 =>
                     /\ <<a.member, "VARIATION">> \in DOMAIN Changes(done)
                     /\ Changes(done)[<<a.member, "VARIATION">>]
                           = Magnitude(a.vm)
           /\ \A r \in DOMAIN Changes(done) : \E a \in done :
                \/ r = <<a.member, "INITIAL">>
                \/ r = <<a.member, "VARIATION">> /\ a.vm # 0
<1> DEFINE V == {a \in done : a.vm # 0}
           D == {<<a.member, "INITIAL">> : a \in done}
                  \cup {<<a.member, "VARIATION">> : a \in V}
<1>1. Changes(done) = [r \in D |->
        LET a == CHOOSE a \in done : a.member = r[1]
        IN  IF r[2] = "INITIAL" THEN a.im ELSE Magnitude(a.vm)]
  BY DEF Changes
<1>2. ASSUME NEW a \in done
      PROVE  /\ <<a.member, "INITIAL">> \in D
             /\ a.vm # 0 => <<a.member, "VARIATION">> \in D
             /\ (CHOOSE b \in done : b.member = a.member) = a
  BY ChosenIs
<1>3. \A r \in D : \E a \in done :
                \/ r = <<a.member, "INITIAL">>
                \/ r = <<a.member, "VARIATION">> /\ a.vm # 0
  OBVIOUS
<1> HIDE DEF D
<1> QED
  BY <1>1, <1>2, <1>3

(* The calls a commit issues: one for each assessment that falls short.    *)
LEMMA NewCallsAre ==
    ASSUME NEW e, NEW done, \A a, b \in done : a.member = b.member => a = b
    PROVE  /\ \A a \in done : a.call > 0 =>
                /\ <<e, a.member>> \in DOMAIN NewCalls(e, done)
                /\ NewCalls(e, done)[<<e, a.member>>] = a.call
           /\ \A c \in DOMAIN NewCalls(e, done) :
                \E a \in done : c = <<e, a.member>> /\ a.call > 0
<1> DEFINE D == {<<e, a.member>> : a \in {a \in done : a.call > 0}}
<1>1. NewCalls(e, done) =
        [c \in D |-> (CHOOSE a \in done : a.member = c[2]).call]
  BY DEF NewCalls
<1>2. \A a \in done : /\ a.call > 0 => <<e, a.member>> \in D
                      /\ (CHOOSE b \in done : b.member = a.member) = a
  BY ChosenIs
<1>3. \A c \in D : \E a \in done : c = <<e, a.member>> /\ a.call > 0
  OBVIOUS
<1> HIDE DEF D
<1> QED
  BY <1>1, <1>2, <1>3

-----------------------------------------------------------------------------
(* The market, for Base. *)

(* Novation, netting, prices and deposits keep Base. *)
LEMMA MarketStep ==
    ASSUME Base, Market
    PROVE  Base'
<1>1. TypeOK /\ ledger \in [Accounts -> Int]
  BY DEF Base, TypeOK
<1>2. ASSUME NEW t \in Trades, novate_trade(t) PROVE Base'
  <2>1. legs' \in [Trades -> {"none", "open", "netted"}]
    BY <1>1, <1>2 DEF TypeOK, novate_trade
  <2>2. Published \subseteq Published'
    BY <1>1, <1>2 DEF TypeOK, novate_trade, Published
  <2>3. ledger' \in [Accounts -> Int]
    BY <1>1, <1>2, LockEffect DEF novate_trade
  <2> QED
    BY <1>1, <1>2, <2>1, <2>2, <2>3, MarketBase
       DEF TypeOK, novate_trade, collateralVars
<1>3. CASE CloseLegs
  <2>1. legs' \in [Trades -> {"none", "open", "netted"}]
    BY <1>1, <1>3 DEF TypeOK, CloseLegs, Open
  <2>2. Published \subseteq Published'
    BY <1>1, <1>3 DEF TypeOK, CloseLegs, Open, Published
  <2> QED
    BY <1>1, <1>3, <2>1, <2>2, MarketBase
       DEF TypeOK, CloseLegs, collateralVars
<1>4. CASE generate_prices
  <2>1. ticks' \in 0..MaxTicks /\ ticks \in Nat /\ ticks' = ticks + 1
    BY <1>1, <1>4, MarginAssumption DEF TypeOK, generate_prices
  <2>2. Published \subseteq Published'
    BY <1>4, <2>1 DEF generate_prices, Published
  <2> QED
    BY <1>1, <1>4, <2>1, <2>2, MarketBase
       DEF TypeOK, generate_prices, collateralVars
<1>5. ASSUME NEW m \in Members, NEW amount \in Deposits,
             deposit_collateral(m, amount)
      PROVE  Base'
  <2>1. amount \in Nat
    BY MarginAssumption
  <2>2. <<m, "COLLATERAL">> \in Accounts /\ House \in Accounts
        /\ <<m, "COLLATERAL">> # House
    BY AccountsOfMember DEF Pools, Accounts
  <2>3. ledger' \in [Accounts -> Int]
    BY <1>1, <1>5, <2>1, <2>2 DEF Journal, deposit_collateral
  <2>4. deposited' \in [Members -> Nat] /\ deposits' \in 0..MaxDeposits
    BY <1>1, <1>5, <2>1, MarginAssumption DEF TypeOK, deposit_collateral
  <2>5. Published' = Published
    BY <1>5, PublishedStays DEF deposit_collateral, marketVars
  <2> QED
    BY <1>1, <1>5, <2>3, <2>4, <2>5, MarketBase
       DEF TypeOK, deposit_collateral, marketVars
<1> QED
  BY <1>2, <1>3, <1>4, <1>5 DEF Market

-----------------------------------------------------------------------------
(* The margin engine, for Base. *)

(* The bound on faults. *)
LEMMA OneMoreFault ==
    ASSUME TypeOK, faults < MaxFaults, faults' = faults + 1
    PROVE  faults' \in 0..MaxFaults
  BY MarginAssumption DEF TypeOK

(* A recalculation begins with rows of different members. *)
LEMMA RecalculateStep ==
    ASSUME Base, NEW w \in Replicas, NEW e \in Published, Recalculate(w, e)
    PROVE  Base'
<1>1. TypeOK
  BY DEF Base
<1>2. PICK rows \in Bijection(1..Cardinality(Positions), Positions) :
        job' = [job EXCEPT ![w] = [status |-> "recalculating", event |-> e,
                                   todo |-> rows, done |-> {}]]
  BY DEF Recalculate
<1> DEFINE new == [status |-> "recalculating", event |-> e,
                   todo |-> rows, done |-> {}]
<1>3. /\ new.status = "recalculating" /\ new.event = e
      /\ new.todo = rows /\ new.done = {}
      /\ rows \in Seq(Row) => new \in
           [status : {"recalculating"}, event : Published,
            todo : Seq(Row), done : SUBSET Assessment]
  OBVIOUS
<1>4. job' = [job EXCEPT ![w] = new]
  BY <1>2
<1> HIDE DEF new
<1>5. /\ rows \in Seq(Row)
      /\ \A i, j \in 1..Len(rows) : rows[i].member = rows[j].member => i = j
  BY <1>1, SelectedRows
<1>6. job'[w] = new
  BY <1>1, <1>4 DEF TypeOK
<1>7. JobInv(w)'
  BY <1>3, <1>5, <1>6, FS_EmptySet DEF Recalculate, JobInv
<1>8. \A v \in Replicas \ {w} : job[v] # Idle => job[v].event # new.event
  BY <1>3 DEF Recalculate
<1> QED
  BY <1>1, <1>3, <1>4, <1>5, <1>7, <1>8, JobBase DEF Recalculate, TypeOK

(* What Assess adds: the requirement is called in full. *)
LEMMA AssessAdds ==
    ASSUME Base, NEW w \in Replicas, Assess(w)
    PROVE  LET row == Head(job[w].todo)
               a == [member |-> row.member,
                     im |-> calculate_initial_margin(row.net, row.latest),
                     vm |-> calculate_variation_margin(row.net, row.latest,
                                                       row.avg),
                     call |-> calculate_initial_margin(row.net, row.latest)]
           IN  /\ job[w] # Idle /\ job[w].todo # <<>>
               /\ row \in Row /\ a \in Assessment
               /\ job' = [job EXCEPT ![w].todo = Tail(@),
                                     ![w].done = @ \cup {a}]
<1> DEFINE row == Head(job[w].todo)
           im == calculate_initial_margin(row.net, row.latest)
           vm == calculate_variation_margin(row.net, row.latest, row.avg)
<1>1. job[w] # Idle /\ job[w].todo # <<>> /\ job[w].todo \in Seq(Row)
  BY DEF Base, TypeOK, Assess
<1>2. row \in Row
  BY <1>1
<1>3. row.member \in Members /\ row.net \in Int /\ row.latest \in Nat
      /\ row.avg \in Nat
  BY <1>2 DEF Row
<1>4. im \in Nat /\ vm \in Int
  <2>1. Magnitude(row.net) \in Nat /\ Rate \in Nat
    BY <1>3, MarginAssumption, Products
  <2>2. im \in Nat
    BY <1>3, <2>1, Products DEF calculate_initial_margin
  <2>3. vm \in Int
    <3>1. row.latest - row.avg \in Int
      BY <1>3
    <3> QED
      BY <1>3, <3>1, Products DEF calculate_variation_margin
  <2> QED
    BY <2>2, <2>3
<1>5. PostedAmount(<<row.member, "INITIAL">>) = 0
  BY DEF Base, RowsInv, PostedAmount
<1>6. Shortfall(im, 0) = im
  <2> HIDE DEF row, im, vm
  <2> QED
    BY <1>4 DEF Shortfall
<1>7. job' = [job EXCEPT ![w].todo = Tail(@),
                         ![w].done = @ \cup
                           {[member |-> row.member, im |-> im, vm |-> vm,
                             call |-> im]}]
  BY <1>5, <1>6 DEF Assess, CallAmount
<1> QED
  BY <1>1, <1>2, <1>3, <1>4, <1>7 DEF Assessment

(* One more member is assessed, none of them twice. *)
LEMMA AssessStep ==
    ASSUME Base, NEW w \in Replicas, Assess(w)
    PROVE  Base'
<1> DEFINE todo == job[w].todo
           done == job[w].done
           row == Head(todo)
<1>0. UNCHANGED <<site, marketVars, requirements, calls, handled, acked,
                  collateralVars, ledger, faults>>
  BY DEF Assess
<1>1. TypeOK /\ JobsInv /\ faults \in 0..MaxFaults
  BY DEF Base, TypeOK
<1>2. PICK a \in Assessment :
        /\ a.member = row.member /\ a.call = a.im
        /\ job[w] # Idle /\ todo # <<>>
        /\ job' = [job EXCEPT ![w].todo = Tail(@), ![w].done = @ \cup {a}]
  BY AssessAdds
<1>3. /\ job[w] \in [status : {"recalculating"}, event : Published,
                     todo : Seq(Row), done : SUBSET Assessment]
      /\ JobInv(w)
  BY <1>1, <1>2 DEF TypeOK, JobsInv
<1>4. PICK new : new = [job[w] EXCEPT !.todo = Tail(@), !.done = @ \cup {a}]
  OBVIOUS
<1>5. job' = [job EXCEPT ![w] = new] /\ job'[w] = new
  BY <1>1, <1>2, <1>4 DEF TypeOK
<1>6. /\ new.event = job[w].event /\ new.todo = Tail(todo)
      /\ new.done = done \cup {a} /\ new.status = "recalculating"
  BY <1>3, <1>4
<1>7. /\ Tail(todo) \in Seq(Row) /\ Len(Tail(todo)) = Len(todo) - 1
      /\ Len(todo) \in Nat \ {0} /\ row = todo[1]
      /\ \A i \in 1..Len(Tail(todo)) :
           Tail(todo)[i] = todo[i + 1] /\ i + 1 \in 1..Len(todo) /\ i + 1 # 1
  BY <1>2, <1>3
<1>8. new \in [status : {"recalculating"}, event : Published,
              todo : Seq(Row), done : SUBSET Assessment]
  BY <1>3, <1>4, <1>7
<1>9. JobInv(w)'
  <2>1. IsFiniteSet(done \cup {a})
    BY <1>3, FS_AddElement DEF JobInv
  <2>2. /\ \A b \in done \cup {a} : b.call = b.im
        /\ \A b, c \in done \cup {a} : b.member = c.member => b = c
    BY <1>2, <1>3, <1>7 DEF JobInv
  <2>3. \A i, j \in 1..Len(Tail(todo)) :
          Tail(todo)[i].member = Tail(todo)[j].member => i = j
    BY <1>3, <1>7 DEF JobInv
  <2>4. \A i \in 1..Len(Tail(todo)), b \in done \cup {a} :
          Tail(todo)[i].member # b.member
    <3> SUFFICES ASSUME NEW i \in 1..Len(Tail(todo)), NEW b \in done \cup {a}
                 PROVE  Tail(todo)[i].member # b.member
      OBVIOUS
    <3>1. /\ Tail(todo)[i] = todo[i + 1] /\ i + 1 \in 1..Len(todo)
          /\ i + 1 # 1 /\ 1 \in 1..Len(todo)
      BY <1>7
    <3>2. todo[i + 1].member # todo[1].member
      BY <1>3, <3>1 DEF JobInv
    <3>3. \A c \in done : todo[i + 1].member # c.member
      BY <1>3, <3>1 DEF JobInv
    <3> QED
      BY <1>2, <1>7, <3>1, <3>2, <3>3
  <2>5. /\ w \in site'.engines /\ job'[w].event \notin acked'
        /\ job'[w].todo = Tail(todo) /\ job'[w].done = done \cup {a}
    BY <1>0, <1>3, <1>5, <1>6 DEF JobInv
  <2> QED
    BY <2>1, <2>2, <2>3, <2>4, <2>5 DEF JobInv
<1>10. \A v \in Replicas \ {w} : job[v] # Idle => job[v].event # new.event
  BY <1>1, <1>2, <1>6 DEF JobsInv
<1> QED
  BY <1>0, <1>1, <1>5, <1>8, <1>9, <1>10, JobBase

(* An exception is through with the event; a crash is not. *)
LEMMA GiveUpStep ==
    ASSUME Base, NEW w \in Replicas, RaiseMargins(w) \/ CrashMargins(w)
    PROVE  Base'
<1>1. TypeOK
  BY DEF Base
<1>2. faults' \in 0..MaxFaults
  BY <1>1, OneMoreFault DEF TypeOK, RaiseMargins, CrashMargins
<1> QED
  BY <1>2, JobBase DEF RaiseMargins, CrashMargins, AckFailed

(* What a commit requires is what the member was assessed at.              *)
LEMMA RequiredRows ==
    ASSUME NEW w \in Replicas, CommitMargins(w),
           NEW new, new = Changes(job[w].done)
    PROVE  \A r \in DOMAIN new : requirements'[r].required = new[r]
  BY DEF CommitMargins, Upsert, TakeNew

(* What is in the tables after a commit of the margin engine.              *)
LEMMA CommitRows ==
    ASSUME Base, NEW w \in Replicas, CommitMargins(w)
    PROVE  LET done == job[w].done
               e == job[w].event
               new == Changes(done)
               asked == NewCalls(e, done)
           IN  /\ job[w] # Idle /\ JobInv(w) /\ done \subseteq Assessment
               /\ e \in Published
               /\ requirements' = [r \in DOMAIN requirements' |->
                                     requirements'[r]]
               /\ DOMAIN requirements' = DOMAIN requirements \cup DOMAIN new
               /\ \A r \in DOMAIN new : /\ requirements'[r].required = new[r]
                                        /\ requirements'[r].posted = 0
               /\ \A r \in DOMAIN requirements \ DOMAIN new :
                    /\ requirements'[r].required = requirements[r].required
                    /\ requirements'[r].posted = 0
               /\ \A r \in DOMAIN requirements' : requirements'[r] =
                    [required |-> requirements'[r].required, posted |-> 0]
               /\ DOMAIN calls' = DOMAIN calls \cup DOMAIN asked
               /\ \A c \in DOMAIN asked : calls'[c] = asked[c]
               /\ \A c \in DOMAIN calls : c \notin DOMAIN asked
                                          /\ calls'[c] = calls[c]
<1> DEFINE done == job[w].done
           e == job[w].event
           new == Changes(done)
           asked == NewCalls(e, done)
<1>1. /\ job[w] # Idle
      /\ requirements' = Upsert(requirements, new)
      /\ calls' = [c \in DOMAIN calls \cup DOMAIN asked |->
                     IF c \in DOMAIN asked THEN asked[c] ELSE calls[c]]
  BY DEF CommitMargins
<1>2. JobInv(w) /\ done \subseteq Assessment /\ e \in Published
  BY <1>1 DEF Base, TypeOK, JobsInv
<1>3. \A r \in DOMAIN requirements : requirements[r].posted = 0
  BY DEF Base, RowsInv
<1>4. ASSUME NEW c \in DOMAIN calls PROVE c \notin DOMAIN asked
  <2>1. c[1] \in acked
    BY DEF Base, RowsInv, TypeOK
  <2>2. \A d \in DOMAIN asked : d[1] = e
    BY <1>2, NewCallsAre DEF JobInv
  <2> QED
    BY <1>2, <2>1, <2>2 DEF JobInv
<1> HIDE DEF done, e, new, asked
<1>5. requirements' = [r \in DOMAIN requirements \cup DOMAIN new |->
        [required |-> IF r \notin DOMAIN new THEN requirements[r].required
                      ELSE new[r],
         posted |-> 0]]
  BY <1>1, <1>3 DEF Upsert, TakeNew
<1>6. /\ requirements' = [r \in DOMAIN requirements' |-> requirements'[r]]
      /\ DOMAIN requirements' = DOMAIN requirements \cup DOMAIN new
      /\ \A r \in DOMAIN new : /\ requirements'[r].required = new[r]
                               /\ requirements'[r].posted = 0
      /\ \A r \in DOMAIN requirements \ DOMAIN new :
           /\ requirements'[r].required = requirements[r].required
           /\ requirements'[r].posted = 0
      /\ \A r \in DOMAIN requirements' : requirements'[r] =
           [required |-> requirements'[r].required, posted |-> 0]
  BY <1>5
<1>7. /\ DOMAIN calls' = DOMAIN calls \cup DOMAIN asked
      /\ \A c \in DOMAIN asked : calls'[c] = asked[c]
      /\ \A c \in DOMAIN calls : c \notin DOMAIN asked
                                 /\ calls'[c] = calls[c]
  BY <1>1, <1>4
<1> QED
  BY <1>1, <1>2, <1>6, <1>7 DEF done, e, new, asked

(* A commit writes typed rows, and calls under the event of its job only.  *)
LEMMA CommitStep ==
    ASSUME Base, NEW w \in Replicas, CommitMargins(w)
    PROVE  Base'
<1> DEFINE done == job[w].done
           e == job[w].event
           new == Changes(done)
           asked == NewCalls(e, done)
<1>0. /\ UNCHANGED <<site, marketVars, collateralVars, faults>>
      /\ ledger' = ProcessVariation(ledger, done)
      /\ handled' = handled \cup {e} /\ acked' = acked \cup {e}
      /\ job' = [job EXCEPT ![w] = Idle]
  BY DEF CommitMargins
<1>1. TypeOK /\ JobsInv /\ DesksInv /\ RowsInv
  BY DEF Base
<1>2. /\ job[w] # Idle /\ JobInv(w) /\ done \subseteq Assessment
      /\ e \in Published
      /\ requirements' = [r \in DOMAIN requirements' |-> requirements'[r]]
      /\ DOMAIN requirements' = DOMAIN requirements \cup DOMAIN new
      /\ \A r \in DOMAIN new : /\ requirements'[r].required = new[r]
                               /\ requirements'[r].posted = 0
      /\ \A r \in DOMAIN requirements \ DOMAIN new :
           /\ requirements'[r].required = requirements[r].required
           /\ requirements'[r].posted = 0
      /\ \A r \in DOMAIN requirements' : requirements'[r] =
           [required |-> requirements'[r].required, posted |-> 0]
      /\ DOMAIN calls' = DOMAIN calls \cup DOMAIN asked
      /\ \A c \in DOMAIN asked : calls'[c] = asked[c]
      /\ \A c \in DOMAIN calls : calls'[c] = calls[c]
  BY CommitRows
<1>3. /\ \A r \in DOMAIN new : r \in Members \X Types /\ new[r] \in Nat
      /\ \A c \in DOMAIN asked :
           /\ c \in (TradeEvents \cup PriceEvents) \X Members
           /\ asked[c] \in Nat \ {0} /\ c[1] = e
  <2>1. \A a, b \in done : a.member = b.member => a = b
    BY <1>2 DEF JobInv
  <2>2. \A a \in done : /\ a.member \in Members /\ a.im \in Nat
                        /\ a.call \in Nat /\ Magnitude(a.vm) \in Nat
    BY <1>2, Products DEF Assessment
  <2>3. e \in TradeEvents \cup PriceEvents
    <3>1. 1..ticks \subseteq 1..MaxTicks
      BY <1>1, MarginAssumption DEF TypeOK
    <3> QED
      BY <1>2, <3>1 DEF Published, TradeEvents, PriceEvents
  <2> HIDE DEF done, e
  <2>4. ASSUME NEW r \in DOMAIN new
        PROVE  r \in Members \X Types /\ new[r] \in Nat
    <3>1. PICK a \in done : \/ r = <<a.member, "INITIAL">>
                            \/ r = <<a.member, "VARIATION">> /\ a.vm # 0
      BY <2>1, ChangesAre
    <3>2. r = <<a.member, "INITIAL">> => new[r] = a.im
      BY <2>1, ChangesAre
    <3>3. r = <<a.member, "VARIATION">> /\ a.vm # 0 => new[r] = Magnitude(a.vm)
      BY <2>1, ChangesAre
    <3> QED
      BY <2>2, <3>1, <3>2, <3>3 DEF Types
  <2>5. ASSUME NEW c \in DOMAIN asked
        PROVE  /\ c \in (TradeEvents \cup PriceEvents) \X Members
               /\ asked[c] \in Nat \ {0} /\ c[1] = e
    <3>1. PICK a \in done : c = <<e, a.member>> /\ a.call > 0
      BY <2>1, NewCallsAre
    <3>2. asked[c] = a.call
      BY <2>1, <3>1, NewCallsAre
    <3> QED
      BY <2>2, <2>3, <3>1, <3>2
  <2> QED
    BY <2>4, <2>5
<1>4. ledger' \in [Accounts -> Int]
  BY <1>0, <1>1, <1>2, VariationEffect DEF TypeOK, JobInv
<1>5. /\ Published' = Published /\ DOMAIN job' = Replicas /\ job'[w] = Idle
      /\ \A v \in Replicas \ {w} : job'[v] = job[v]
  BY <1>0, <1>1, PublishedStays DEF TypeOK, marketVars
<1> HIDE DEF new, asked
<1>6. TypeOK'
  <2>1. /\ DOMAIN requirements' \subseteq Members \X Types
        /\ \A r \in DOMAIN requirements' :
             requirements'[r] \in [required : Nat, posted : Nat]
    <3>1. \A r \in DOMAIN requirements' : r \in Members \X Types
                                          /\ requirements'[r].required \in Nat
      BY <1>1, <1>2, <1>3 DEF TypeOK
    <3>2. ASSUME NEW r \in DOMAIN requirements'
          PROVE  requirements'[r] \in [required : Nat, posted : Nat]
      <4>1. PICK n : n = requirements'[r].required
        OBVIOUS
      <4>2. n \in Nat /\ requirements'[r] = [required |-> n, posted |-> 0]
        BY <1>2, <3>1, <4>1
      <4> QED
        BY <4>2
    <3> QED
      BY <3>1, <3>2
  <2>2. /\ DOMAIN calls' \subseteq (TradeEvents \cup PriceEvents) \X Members
        /\ \A c \in DOMAIN calls' : calls'[c] \in Nat \ {0}
    BY <1>1, <1>2, <1>3 DEF TypeOK
  <2>3. /\ handled' \subseteq acked' /\ acked' \subseteq Published'
    BY <1>0, <1>1, <1>2, <1>5 DEF TypeOK
  <2>4. \A v \in Replicas :
         \/ job'[v] = Idle
         \/ job'[v] \in [status : {"recalculating"}, event : Published',
                         todo : Seq(Row), done : SUBSET Assessment]
    BY <1>1, <1>5 DEF TypeOK
  <2>5. \A v \in Replicas :
         \/ desk'[v] = Idle
         \/ desk'[v] \in [status : {"transferring"}, call : DOMAIN calls']
    BY <1>0, <1>1, <1>2 DEF TypeOK, collateralVars
  <2>6. paid' \subseteq closed' /\ closed' \subseteq DOMAIN calls'
        /\ DOMAIN desk' = Replicas
    BY <1>0, <1>1, <1>2 DEF TypeOK, collateralVars
  <2>7. /\ site' \in Sites
        /\ legs' \in [Trades -> {"none", "open", "netted"}]
        /\ price' \in Prices \cup {NoPrice} /\ ticks' \in 0..MaxTicks
        /\ deposited' \in [Members -> Nat] /\ deposits' \in 0..MaxDeposits
        /\ faults' \in 0..MaxFaults
    BY <1>0, <1>1 DEF TypeOK, collateralVars, marketVars
  <2> QED
    BY <1>4, <1>5, <2>1, <2>2, <2>3, <2>4, <2>5, <2>6, <2>7 DEF TypeOK
<1>7. ASSUME NEW v \in Replicas \ {w}, job[v] # Idle PROVE JobInv(v)'
  <2>1. JobInv(v) /\ job[v].event \notin acked'
    BY <1>0, <1>1, <1>2, <1>7 DEF JobsInv, JobInv
  <2> QED
    BY <1>0, <1>5, <1>7, <2>1 DEF JobInv
<1>8. JobsInv'
  BY <1>1, <1>5, <1>7 DEF JobsInv
<1>9. DesksInv'
  BY <1>0, <1>1 DEF DesksInv, collateralVars
<1>10. RowsInv'
  <2>1. \A r \in DOMAIN requirements' : requirements'[r].posted = 0
    <3> SUFFICES ASSUME NEW r \in DOMAIN requirements'
                 PROVE  requirements'[r].posted = 0
      OBVIOUS
    <3>1. r \in DOMAIN new \/ r \in DOMAIN requirements \ DOMAIN new
      BY <1>2
    <3> QED
      BY <1>2, <3>1
  <2>2. \A c \in DOMAIN calls' : c[1] \in handled'
    BY <1>0, <1>1, <1>2, <1>3 DEF RowsInv
  <2> QED
    BY <1>0, <1>1, <1>2, <2>1, <2>2 DEF RowsInv, collateralVars
<1> QED
  BY <1>6, <1>8, <1>9, <1>10 DEF Base

-----------------------------------------------------------------------------
(* The collateral manager, for Base. *)

(* _update_posted_margin finds no row to update. *)
LEMMA NothingPosted ==
    ASSUME Base, NEW m, NEW amount
    PROVE  PostTo(requirements, m, "MARGIN_IM", amount) = requirements
<1>1. \A r \in DOMAIN requirements : r # <<m, "MARGIN_IM">>
  <2> SUFFICES ASSUME NEW r \in DOMAIN requirements
               PROVE  r # <<m, "MARGIN_IM">>
    OBVIOUS
  <2>1. r[2] \in Types
    BY DEF Base, TypeOK
  <2>2. <<m, "MARGIN_IM">>[2] = "MARGIN_IM" /\ "MARGIN_IM" \notin Types
    BY DEF Types
  <2> QED
    BY <2>1, <2>2
<1>2. PostTo(requirements, m, "MARGIN_IM", amount)
        = [r \in DOMAIN requirements |-> requirements[r]]
  BY <1>1 DEF PostTo
<1> QED
  BY <1>2 DEF Base, RowsInv

(* Each step of the collateral manager keeps Base. *)
LEMMA DeskStep ==
    ASSUME Base, NEW v \in Replicas, CollateralManager(v) \/ CrashTransfer(v)
    PROVE  Base'
<1>1. TypeOK /\ DesksInv /\ RowsInv
  BY DEF Base
<1>2. /\ faults \in 0..MaxFaults /\ ledger \in [Accounts -> Int]
      /\ paid \subseteq closed /\ closed \subseteq DOMAIN calls
      /\ DOMAIN desk = Replicas /\ IsFiniteSet(paid)
  BY <1>1 DEF TypeOK, RowsInv
<1>3. \A u \in Replicas : desk[u] # Idle => /\ desk[u].call \in DOMAIN calls
                                            /\ desk[u].call \notin closed
  BY <1>1 DEF TypeOK, DesksInv
<1>4. ASSUME desk[v] # Idle
      PROVE  \A u \in Replicas \ {v} :
               desk[u] # Idle => desk[u].call \notin closed \cup {desk[v].call}
  BY <1>1, <1>3, <1>4 DEF DesksInv
<1>5. ASSUME NEW c \in DOMAIN calls, CheckTransfer(v, c) PROVE Base'
  <2>1. PICK new : new = [status |-> "transferring", call |-> c]
    OBVIOUS
  <2>2. /\ new \in [status : {"transferring"}, call : DOMAIN calls]
        /\ new.call = c
    BY <2>1
  <2>3. /\ desk' = [desk EXCEPT ![v] = new] /\ v \in site.desks
        /\ c \notin closed /\ ~OnDesk(c)
        /\ UNCHANGED <<site, marketVars, marginVars, deposited, deposits, paid,
                       closed, ledger, faults>>
    BY <1>5, <2>1 DEF CheckTransfer, Waiting
  <2>4. \A u \in Replicas \ {v} : desk[u] # Idle => desk[u].call # new.call
    BY <2>2, <2>3 DEF OnDesk
  <2> QED
    BY <1>2, <1>3, <2>2, <2>3, <2>4, DeskBase
<1>6. ASSUME NEW c \in DOMAIN calls, DropCall(v, c) PROVE Base'
  <2>1. /\ desk[v] = Idle /\ ~OnDesk(c) /\ closed' = closed \cup {c}
        /\ desk' = desk
        /\ UNCHANGED <<site, marketVars, marginVars, deposited, deposits,
                       paid, ledger, faults>>
    BY <1>6 DEF DropCall
  <2>2. /\ Published' = Published /\ (\A w : JobInv(w)' = JobInv(w))
    BY <2>1, PublishedStays DEF marketVars, marginVars, JobInv
  <2>3. TypeOK'
    BY <1>1, <2>1, <2>2 DEF TypeOK, marketVars, marginVars
  <2>4. DesksInv'
    BY <1>1, <2>1 DEF DesksInv, OnDesk
  <2>5. JobsInv' /\ RowsInv'
    BY <2>1, <2>2 DEF Base, JobsInv, RowsInv, marginVars
  <2> QED
    BY <2>3, <2>4, <2>5 DEF Base
<1>7. CASE Transfer(v)
  <2>1. PICK c : c = desk[v].call
    OBVIOUS
  <2>2. /\ desk[v] # Idle /\ desk' = [desk EXCEPT ![v] = Idle]
        /\ closed' = closed \cup {c} /\ paid' = paid \cup {c}
        /\ ledger' = Journal(ledger, <<c[2], "IM_AVAILABLE">>,
                             <<c[2], "COLLATERAL">>, calls[c])
        /\ UNCHANGED <<site, marketVars, calls, job, handled, acked,
                       deposited, deposits, faults>>
    BY <1>7, <2>1 DEF Transfer
  <2>3. requirements' = requirements
    BY <1>7, NothingPosted DEF Transfer
  <2>4. c \in DOMAIN calls /\ calls[c] \in Int /\ c[2] \in Members
    BY <1>1, <1>3, <2>1, <2>2 DEF TypeOK
  <2>5. ledger' \in [Accounts -> Int]
    <3>1. /\ <<c[2], "IM_AVAILABLE">> \in Accounts
          /\ <<c[2], "COLLATERAL">> \in Accounts
      BY <2>4, AccountsOfMember DEF Pools
    <3>2. <<c[2], "IM_AVAILABLE">> # <<c[2], "COLLATERAL">>
      OBVIOUS
    <3> QED
      BY <1>2, <2>2, <2>4, <3>1, <3>2 DEF Journal
  <2>6. IsFiniteSet(paid')
    BY <1>2, <2>2, FS_AddElement
  <2>7. UNCHANGED marginVars
    BY <2>2, <2>3 DEF marginVars
  <2> QED
    BY <1>2, <1>4, <2>1, <2>2, <2>4, <2>5, <2>6, <2>7, DeskBase
<1>8. CASE RaiseTransfer(v)
  <2>1. faults' \in 0..MaxFaults
    BY <1>1, <1>2, <1>8, OneMoreFault DEF RaiseTransfer
  <2>2. /\ desk[v] # Idle /\ desk' = [desk EXCEPT ![v] = Idle]
        /\ closed' = closed \cup {desk[v].call}
        /\ UNCHANGED <<site, marketVars, marginVars, deposited, deposits, paid,
                       ledger>>
    BY <1>8 DEF RaiseTransfer
  <2> QED
    BY <1>2, <1>3, <1>4, <2>1, <2>2, DeskBase
<1>9. CASE CrashTransfer(v)
  <2>1. faults' \in 0..MaxFaults
    BY <1>1, <1>9, OneMoreFault DEF CrashTransfer
  <2>2. /\ desk' = [desk EXCEPT ![v] = Idle]
        /\ UNCHANGED <<site, marketVars, marginVars, deposited, deposits, paid,
                       closed, ledger>>
    BY <1>9 DEF CrashTransfer
  <2> QED
    BY <1>2, <1>3, <2>1, <2>2, DeskBase
<1> QED
  BY <1>5, <1>6, <1>7, <1>8, <1>9 DEF CollateralManager

(* Base is inductive. *)
LEMMA NextBase ==
    Base /\ [Next]_vars => Base'
<1> SUFFICES ASSUME Base, [Next]_vars PROVE Base'
  OBVIOUS
<1>1. CASE UNCHANGED vars
  <2>1. Published' = Published /\ \A w : JobInv(w)' = JobInv(w)
    BY <1>1, PublishedStays DEF vars, marketVars, marginVars, JobInv
  <2>2. TypeOK'
    BY <1>1, <2>1 DEF Base, TypeOK, vars, marketVars, marginVars, collateralVars
  <2>3. JobsInv' /\ DesksInv' /\ RowsInv'
    BY <1>1, <2>1 DEF Base, JobsInv, DesksInv, RowsInv, vars, marginVars,
       collateralVars
  <2> QED
    BY <2>2, <2>3 DEF Base
<1>2. CASE Market
  BY <1>2, MarketStep
<1>3. ASSUME NEW w \in Replicas, MarginEngine(w) PROVE Base'
  BY <1>3, RecalculateStep, AssessStep, CommitStep, GiveUpStep DEF MarginEngine
<1>4. ASSUME NEW w \in Replicas, CrashMargins(w) PROVE Base'
  BY <1>4, GiveUpStep
<1>5. ASSUME NEW w \in Replicas, CollateralManager(w) \/ CrashTransfer(w)
      PROVE  Base'
  BY <1>5, DeskStep
<1> QED
  BY <1>1, <1>2, <1>3, <1>4, <1>5 DEF Next

-----------------------------------------------------------------------------
(* What each part leaves alone. *)

(* The market writes no table of the two services, but the ledger.         *)
LEMMA MarketFrame ==
    ASSUME Market
    PROVE  UNCHANGED <<site, requirements, calls, job, handled, acked, desk,
                       paid, closed>>
  BY DEF Market, novate_trade, CloseLegs, generate_prices, deposit_collateral,
     marginVars, collateralVars

(* The margin engine writes its tables and the ledger in one commit only.  *)
LEMMA EngineFrame ==
    ASSUME NEW w \in Replicas, MarginEngine(w) \/ CrashMargins(w)
    PROVE  /\ UNCHANGED <<site, legs, price, ticks, deposited, desk, paid,
                          closed>>
           /\ \/ CommitMargins(w)
              \/ UNCHANGED <<requirements, calls, handled, ledger>>
  BY DEF MarginEngine, Recalculate, Assess, CommitMargins, RaiseMargins,
     CrashMargins, marketVars, collateralVars

(* The collateral manager moves nothing except in a transfer. *)
LEMMA DeskFrame ==
    ASSUME Base, NEW v \in Replicas, CollateralManager(v) \/ CrashTransfer(v)
    PROVE  /\ UNCHANGED <<site, legs, price, ticks, deposited, requirements,
                          calls, job, handled, acked>>
           /\ Transfer(v) \/ UNCHANGED <<ledger, paid>>
<1>1. CASE Transfer(v)
  <2>1. requirements' = requirements
    BY <1>1, NothingPosted DEF Transfer
  <2> QED
    BY <1>1, <2>1 DEF Transfer, marketVars
<1>2. CASE ~Transfer(v)
  BY <1>2 DEF CollateralManager, CheckTransfer, DropCall, RaiseTransfer,
     CrashTransfer, marketVars, marginVars
<1> QED
  BY <1>1, <1>2

-----------------------------------------------------------------------------
(* A shortfall is called.                                                  *)

(* A commit calls the shortfalls that it writes; those it leaves were      *)
(* called before.                                                          *)
LEMMA ShortfallCommit ==
    ASSUME Base, ShortfallIsCalled, NEW w \in Replicas, CommitMargins(w)
    PROVE  ShortfallIsCalled'
<1> DEFINE done == job[w].done
           e == job[w].event
           new == Changes(done)
           asked == NewCalls(e, done)
<1>1. /\ job[w] # Idle /\ JobInv(w) /\ done \subseteq Assessment
      /\ DOMAIN requirements' = DOMAIN requirements \cup DOMAIN new
      /\ \A r \in DOMAIN new : /\ requirements'[r].required = new[r]
                               /\ requirements'[r].posted = 0
      /\ \A r \in DOMAIN requirements \ DOMAIN new :
           /\ requirements'[r].required = requirements[r].required
           /\ requirements'[r].posted = 0
      /\ DOMAIN calls' = DOMAIN calls \cup DOMAIN asked
      /\ \A c \in DOMAIN asked : calls'[c] = asked[c]
      /\ \A c \in DOMAIN calls : calls'[c] = calls[c]
  BY CommitRows
<1>2. \A r \in DOMAIN requirements : requirements[r].posted = 0
  BY DEF Base, RowsInv
<1>3. \A a, b \in done : a.member = b.member => a = b
  BY <1>1 DEF JobInv
<1>4. \A a \in done : a.call = a.im /\ a.im \in Nat
  BY <1>1 DEF JobInv, Assessment
<1> HIDE DEF done, e
<1> SUFFICES ASSUME NEW m \in Members, <<m, "INITIAL">> \in DOMAIN requirements'
             PROVE  LET r == requirements'[<<m, "INITIAL">>]
                        short == Shortfall(r.required, r.posted)
                    IN  short > 0 => \E c \in DOMAIN calls' :
                                       c[2] = m /\ calls'[c] = short
  BY DEF ShortfallIsCalled
<1>5. PICK r : r = <<m, "INITIAL">>
  OBVIOUS
<1>6. CASE r \in DOMAIN new
  <2>1. PICK a \in done : \/ r = <<a.member, "INITIAL">>
                          \/ r = <<a.member, "VARIATION">> /\ a.vm # 0
    BY <1>3, <1>6, ChangesAre
  <2>2. a.member = m /\ r = <<a.member, "INITIAL">>
    BY <1>5, <2>1
  <2>3. new[r] = a.im
    BY <1>3, <2>2, ChangesAre
  <2>4. Shortfall(requirements'[r].required, requirements'[r].posted) = a.im
    BY <1>1, <1>4, <1>6, <2>3 DEF Shortfall
  <2>5. ASSUME a.im > 0
        PROVE  \E c \in DOMAIN calls' : c[2] = m /\ calls'[c] = a.im
    <3>1. /\ <<e, a.member>> \in DOMAIN asked
          /\ asked[<<e, a.member>>] = a.im
      BY <1>3, <1>4, <2>5, NewCallsAre
    <3>2. /\ <<e, m>> \in DOMAIN calls' /\ calls'[<<e, m>>] = a.im
          /\ <<e, m>>[2] = m
      BY <1>1, <2>2, <3>1
    <3> QED
      BY <3>2
  <2> QED
    BY <1>5, <2>4, <2>5
<1>7. CASE r \in DOMAIN requirements \ DOMAIN new
  <2>1. /\ requirements'[r].required = requirements[r].required
        /\ requirements'[r].posted = requirements[r].posted
    BY <1>1, <1>2, <1>7
  <2>2. LET short == Shortfall(requirements[r].required, requirements[r].posted)
        IN  short > 0 => \E c \in DOMAIN calls : c[2] = m /\ calls[c] = short
    BY <1>5, <1>7 DEF ShortfallIsCalled
  <2> QED
    BY <1>1, <1>5, <2>1, <2>2
<1> QED
  BY <1>1, <1>5, <1>6, <1>7

(* ShortfallIsCalled is preserved. *)
LEMMA ShortfallStep ==
    Base /\ ShortfallIsCalled /\ [Next]_vars => ShortfallIsCalled'
<1> SUFFICES ASSUME Base, ShortfallIsCalled, [Next]_vars
             PROVE  ShortfallIsCalled'
  OBVIOUS
<1>1. CASE UNCHANGED <<requirements, calls>>
  BY <1>1 DEF ShortfallIsCalled
<1>2. ASSUME NEW w \in Replicas, CommitMargins(w) PROVE ShortfallIsCalled'
  BY <1>2, ShortfallCommit
<1>3. CASE UNCHANGED vars
  BY <1>1, <1>3 DEF vars, marginVars
<1> QED
  BY <1>1, <1>2, <1>3, MarketFrame, EngineFrame, DeskFrame DEF Next

-----------------------------------------------------------------------------
(* The balances are explained.                                             *)

(* A sum that takes in one more element. *)
LEMMA SumGrows ==
    ASSUME NEW f, NEW g, NEW x, x \notin DOMAIN f, IsFiniteSet(DOMAIN f),
           DOMAIN g = DOMAIN f \cup {x}, g[x] \in Int,
           \A y \in DOMAIN f : f[y] \in Int /\ g[y] = f[y]
    PROVE  SumFunction(g) = SumFunction(f) + g[x]
<1>1. SumFunctionOnSet(g, DOMAIN f) = SumFunctionOnSet(f, DOMAIN f)
  BY SumOfEqual
<1>2. SumFunctionOnSet(g, DOMAIN f \cup {x})
        = g[x] + SumFunctionOnSet(g, DOMAIN f)
  BY SumAdd
<1>3. SumFunctionOnSet(f, DOMAIN f) \in Int
  BY SumInt
<1> QED
  BY <1>1, <1>2, <1>3 DEF SumFunction

(* What a transfer and a deposit do to the watched pools. *)
LEMMA TransferEffect ==
    ASSUME NEW old \in [Accounts -> Int], NEW n \in Members, NEW amount \in Int
    PROVE  LET new == Journal(old, <<n, "IM_AVAILABLE">>, <<n, "COLLATERAL">>,
                              amount)
           IN  \A m \in Members :
                 LET x == IF n = m THEN amount ELSE 0
                 IN  /\ new[<<m, "IM_AVAILABLE">>]
                          = old[<<m, "IM_AVAILABLE">>] + x
                     /\ new[<<m, "IM_LOCKED">>] = old[<<m, "IM_LOCKED">>]
                     /\ new[<<m, "COLLATERAL">>] = old[<<m, "COLLATERAL">>] - x
<1> DEFINE debit == <<n, "IM_AVAILABLE">>
           credit == <<n, "COLLATERAL">>
           new == Journal(old, debit, credit, amount)
<1>1. debit \in Accounts /\ credit \in Accounts /\ debit # credit
  BY AccountsOfMember DEF Pools
<1>2. \A m \in Members, p \in Watched :
        /\ <<m, p>> \in Accounts
        /\ <<m, p>> = debit <=> m = n /\ p = "IM_AVAILABLE"
        /\ <<m, p>> = credit <=> m = n /\ p = "COLLATERAL"
  BY AccountsOfMember DEF Pools, Watched
<1> HIDE DEF debit, credit
<1>3. /\ new[debit] = old[debit] + amount /\ new[credit] = old[credit] - amount
      /\ \A a \in Accounts \ {debit, credit} : new[a] = old[a]
  BY <1>1 DEF Journal
<1> HIDE DEF new
<1>4. ASSUME NEW m \in Members
      PROVE  LET x == IF n = m THEN amount ELSE 0
             IN  /\ new[<<m, "IM_AVAILABLE">>]
                      = old[<<m, "IM_AVAILABLE">>] + x
                 /\ new[<<m, "IM_LOCKED">>] = old[<<m, "IM_LOCKED">>]
                 /\ new[<<m, "COLLATERAL">>] = old[<<m, "COLLATERAL">>] - x
  <2>1. /\ old[<<m, "IM_AVAILABLE">>] \in Int
        /\ old[<<m, "COLLATERAL">>] \in Int
    BY <1>2 DEF Watched
  <2>2. CASE n = m
    BY <1>2, <1>3, <2>2 DEF Watched
  <2>3. CASE n # m
    BY <1>2, <1>3, <2>1, <2>3 DEF Watched
  <2> QED
    BY <2>2, <2>3
<1> QED
  BY <1>4 DEF new, debit, credit

(* A deposit is in the collateral and in what the member has paid in.      *)
LEMMA DepositEffect ==
    ASSUME NEW old \in [Accounts -> Int], NEW n \in Members, NEW amount \in Int,
           NEW sum \in [Members -> Nat]
    PROVE  LET new == Journal(old, <<n, "COLLATERAL">>, House, amount)
               more == [sum EXCEPT ![n] = @ + amount]
           IN  \A m \in Members :
                 /\ new[<<m, "IM_AVAILABLE">>] = old[<<m, "IM_AVAILABLE">>]
                 /\ new[<<m, "IM_LOCKED">>] = old[<<m, "IM_LOCKED">>]
                 /\ new[<<m, "COLLATERAL">>] - more[m]
                      = old[<<m, "COLLATERAL">>] - sum[m]
                 /\ new[<<m, "COLLATERAL">>] \in Int /\ more[m] \in Int
                 /\ amount >= 0 =>
                      new[<<m, "COLLATERAL">>] >= old[<<m, "COLLATERAL">>]
<1> DEFINE debit == <<n, "COLLATERAL">>
           new == Journal(old, debit, House, amount)
           more == [sum EXCEPT ![n] = @ + amount]
<1>1. debit \in Accounts /\ House \in Accounts /\ debit # House
  BY AccountsOfMember DEF Pools, Accounts
<1>2. \A m \in Members, p \in Watched :
        /\ <<m, p>> \in Accounts /\ <<m, p>> # House
        /\ <<m, p>> = debit <=> m = n /\ p = "COLLATERAL"
  BY AccountsOfMember DEF Pools, Watched
<1> HIDE DEF debit
<1>3. /\ new[debit] = old[debit] + amount
      /\ \A a \in Accounts \ {debit, House} : new[a] = old[a]
  BY <1>1 DEF Journal
<1> HIDE DEF new
<1>4. \A m \in Members : more[m] = IF m = n THEN sum[m] + amount ELSE sum[m]
  OBVIOUS
<1> HIDE DEF more
<1>5. ASSUME NEW m \in Members
      PROVE  /\ new[<<m, "IM_AVAILABLE">>] = old[<<m, "IM_AVAILABLE">>]
             /\ new[<<m, "IM_LOCKED">>] = old[<<m, "IM_LOCKED">>]
             /\ new[<<m, "COLLATERAL">>] - more[m]
                  = old[<<m, "COLLATERAL">>] - sum[m]
             /\ new[<<m, "COLLATERAL">>] \in Int /\ more[m] \in Int
             /\ amount >= 0 =>
                  new[<<m, "COLLATERAL">>] >= old[<<m, "COLLATERAL">>]
  <2>1. old[<<m, "COLLATERAL">>] \in Int /\ sum[m] \in Int
    <3>1. <<m, "COLLATERAL">> \in Accounts
      BY <1>2 DEF Watched
    <3>2. sum[m] \in Nat
      OBVIOUS
    <3> QED
      BY <3>1, <3>2
  <2>2. CASE n = m
    BY <1>2, <1>3, <1>4, <2>1, <2>2 DEF Watched
  <2>3. CASE n # m
    BY <1>2, <1>3, <1>4, <2>1, <2>3 DEF Watched
  <2> QED
    BY <2>2, <2>3
<1> QED
  BY <1>5 DEF new, more, debit

(* The terms of LedgerIsExplained are integers. *)
LEMMA ExplainedTyped ==
    ASSUME Base, NEW m \in Members
    PROVE  /\ LockedFor(m) \in Int /\ PaidBy(m) \in Int
           /\ \A p \in Watched : ledger[<<m, p>>] \in Int
           /\ deposited[m] \in Int
           /\ \A p \in Watched : Opening[p] \in Int
<1> DEFINE S == {t \in Trades : legs[t] # "none"
                                /\ m \in {Terms[t].buyer, Terms[t].seller}}
           f == [t \in S |-> Terms[t].quantity * Terms[t].price * Rate]
           P == {c \in paid : c[2] = m}
           g == [c \in P |-> calls[c]]
<1>1. IsFiniteSet(S) /\ LockedFor(m) = SumFunctionOnSet(f, S)
  BY MarginAssumption, FS_Subset DEF LockedFor, SumFunction
<1>2. IsFiniteSet(P) /\ PaidBy(m) = SumFunctionOnSet(g, P)
  BY FS_Subset DEF PaidBy, SumFunction, Base, RowsInv
<1>3. (\A t \in S : f[t] \in Int) /\ (\A c \in P : g[c] \in Int)
  BY TermsTyped DEF Base, TypeOK
<1> HIDE DEF S, f, P, g
<1>4. LockedFor(m) \in Int /\ PaidBy(m) \in Int
  BY <1>1, <1>2, <1>3, SumInt
<1>5. \A p \in Watched : p \in Pools /\ <<m, p>> \in Accounts
  BY AccountsOfMember DEF Watched, Pools
<1>6. /\ ledger \in [Accounts -> Int] /\ deposited[m] \in Int
      /\ Opening \in [Pools -> Int]
  BY MarginAssumption DEF Base, TypeOK
<1> QED
  BY <1>4, <1>5, <1>6

(* A novation adds one trade to what is locked, once for each party.       *)
LEMMA ExplainedNovation ==
    ASSUME Base, LedgerIsExplained, NEW t \in Trades, novate_trade(t)
    PROVE  LedgerIsExplained'
<1> SUFFICES ASSUME NEW m \in Members
             PROVE  /\ ledger'[<<m, "IM_LOCKED">>] =
                         Opening["IM_LOCKED"] - LockedFor(m)'
                    /\ ledger'[<<m, "IM_AVAILABLE">>] =
                         Opening["IM_AVAILABLE"] + LockedFor(m)' + PaidBy(m)'
                    /\ ledger'[<<m, "COLLATERAL">>] =
                         Opening["COLLATERAL"] + deposited'[m] - PaidBy(m)'
  BY DEF LedgerIsExplained
<1>1. /\ legs[t] = "none" /\ legs' = [legs EXCEPT ![t] = "open"]
      /\ ledger' = LockBoth(ledger, t) /\ deposited' = deposited
      /\ paid' = paid /\ calls' = calls
  BY DEF novate_trade, marginVars, collateralVars
<1>2. legs \in [Trades -> {"none", "open", "netted"}]
      /\ ledger \in [Accounts -> Int]
  BY DEF Base, TypeOK
<1>3. PaidBy(m)' = PaidBy(m)
  BY <1>1 DEF PaidBy
<1> DEFINE party(u) == m \in {Terms[u].buyer, Terms[u].seller}
           amount == IF party(t) THEN Terms[t].quantity * Terms[t].price * Rate
                     ELSE 0
           S == {u \in Trades : legs[u] # "none" /\ party(u)}
           T == {u \in Trades : legs'[u] # "none" /\ party(u)}
           f == [u \in S |-> Terms[u].quantity * Terms[u].price * Rate]
           g == [u \in T |-> Terms[u].quantity * Terms[u].price * Rate]
<1>4. LockedFor(m) = SumFunction(f) /\ LockedFor(m)' = SumFunction(g)
  BY DEF LockedFor
<1>5. LockedFor(m)' = LockedFor(m) + amount /\ amount \in Int
  <2>1. CASE party(t)
    <3>1. T = S \cup {t} /\ t \notin S
      BY <1>1, <1>2, <2>1
    <3>2. IsFiniteSet(S)
      BY MarginAssumption, FS_Subset
    <3>3. (\A u \in S : f[u] \in Int /\ g[u] = f[u])
          /\ g[t] = amount /\ amount \in Int
      BY <2>1, <3>1, TermsTyped
    <3>4. DOMAIN f = S /\ DOMAIN g = T
      OBVIOUS
    <3> HIDE DEF S, T, f, g, amount, party
    <3> QED
      BY <1>4, <3>1, <3>2, <3>3, <3>4, SumGrows
  <2>2. CASE ~party(t)
    <3>1. S = T /\ amount = 0
      BY <1>1, <1>2, <2>2
    <3> QED
      BY <1>4, <3>1, ExplainedTyped
  <2> QED
    BY <2>1, <2>2
<1>6. /\ ledger'[<<m, "IM_AVAILABLE">>] = ledger[<<m, "IM_AVAILABLE">>] + amount
      /\ ledger'[<<m, "IM_LOCKED">>] = ledger[<<m, "IM_LOCKED">>] - amount
      /\ ledger'[<<m, "COLLATERAL">>] = ledger[<<m, "COLLATERAL">>]
  BY <1>1, <1>2, LockEffect
<1>7. /\ ledger[<<m, "IM_LOCKED">>] = Opening["IM_LOCKED"] - LockedFor(m)
      /\ ledger[<<m, "IM_AVAILABLE">>] =
              Opening["IM_AVAILABLE"] + LockedFor(m) + PaidBy(m)
      /\ ledger[<<m, "COLLATERAL">>] =
              Opening["COLLATERAL"] + deposited[m] - PaidBy(m)
  BY DEF LedgerIsExplained
<1>8. /\ LockedFor(m) \in Int /\ PaidBy(m) \in Int /\ deposited[m] \in Int
      /\ Opening["IM_LOCKED"] \in Int /\ Opening["IM_AVAILABLE"] \in Int
      /\ Opening["COLLATERAL"] \in Int
  BY ExplainedTyped DEF Watched
<1> HIDE DEF amount
<1> QED
  BY <1>1, <1>3, <1>5, <1>6, <1>7, <1>8

(* A transfer adds one call, not paid before, to what its member has paid. *)
LEMMA ExplainedTransfer ==
    ASSUME Base, LedgerIsExplained, NEW v \in Replicas, Transfer(v)
    PROVE  LedgerIsExplained'
<1> SUFFICES ASSUME NEW m \in Members
             PROVE  /\ ledger'[<<m, "IM_LOCKED">>] =
                         Opening["IM_LOCKED"] - LockedFor(m)'
                    /\ ledger'[<<m, "IM_AVAILABLE">>] =
                         Opening["IM_AVAILABLE"] + LockedFor(m)' + PaidBy(m)'
                    /\ ledger'[<<m, "COLLATERAL">>] =
                         Opening["COLLATERAL"] + deposited'[m] - PaidBy(m)'
  BY DEF LedgerIsExplained
<1>1. PICK c : c = desk[v].call
  OBVIOUS
<1>2. /\ desk[v] # Idle /\ paid' = paid \cup {c}
      /\ ledger' = Journal(ledger, <<c[2], "IM_AVAILABLE">>,
                           <<c[2], "COLLATERAL">>, calls[c])
      /\ calls' = calls /\ legs' = legs /\ deposited' = deposited
  BY <1>1 DEF Transfer, marketVars
<1>3. /\ c \in DOMAIN calls /\ calls[c] \in Int /\ c[2] \in Members
      /\ c \notin paid /\ IsFiniteSet(paid) /\ ledger \in [Accounts -> Int]
      /\ \A d \in paid : calls[d] \in Int
  BY <1>1, <1>2 DEF Base, TypeOK, DesksInv, RowsInv
<1>4. LockedFor(m)' = LockedFor(m)
  BY <1>2 DEF LockedFor
<1> DEFINE amount == IF c[2] = m THEN calls[c] ELSE 0
           S == {d \in paid : d[2] = m}
           T == {d \in paid' : d[2] = m}
           f == [d \in S |-> calls[d]]
           g == [d \in T |-> calls[d]]
<1>5. PaidBy(m) = SumFunction(f) /\ PaidBy(m)' = SumFunction(g)
  BY <1>2 DEF PaidBy
<1>6. PaidBy(m)' = PaidBy(m) + amount /\ amount \in Int
  <2>1. CASE c[2] = m
    <3>1. T = S \cup {c} /\ c \notin S
      BY <1>2, <1>3, <2>1
    <3>2. IsFiniteSet(S)
      BY <1>3, FS_Subset
    <3>3. (\A d \in S : f[d] \in Int /\ g[d] = f[d])
          /\ g[c] = amount /\ amount \in Int
      BY <1>3, <2>1, <3>1
    <3>4. DOMAIN f = S /\ DOMAIN g = T
      OBVIOUS
    <3> HIDE DEF S, T, f, g, amount
    <3> QED
      BY <1>5, <3>1, <3>2, <3>3, <3>4, SumGrows
  <2>2. CASE c[2] # m
    <3>1. S = T /\ amount = 0
      BY <1>2, <2>2
    <3> QED
      BY <1>5, <3>1, ExplainedTyped
  <2> QED
    BY <2>1, <2>2
<1>7. /\ ledger'[<<m, "IM_AVAILABLE">>] = ledger[<<m, "IM_AVAILABLE">>] + amount
      /\ ledger'[<<m, "IM_LOCKED">>] = ledger[<<m, "IM_LOCKED">>]
      /\ ledger'[<<m, "COLLATERAL">>] = ledger[<<m, "COLLATERAL">>] - amount
  <2> DEFINE x == calls[c]
             n == c[2]
  <2> HIDE DEF S, T, f, g
  <2>1. x \in Int /\ n \in Members /\ ledger \in [Accounts -> Int]
    BY <1>3
  <2>2. amount = IF n = m THEN x ELSE 0
    OBVIOUS
  <2>3. ledger' = Journal(ledger, <<n, "IM_AVAILABLE">>,
                          <<n, "COLLATERAL">>, x)
    BY <1>2
  <2> HIDE DEF x, n, amount
  <2> QED
    BY <2>1, <2>2, <2>3, TransferEffect, SMTT(30)
<1>8. /\ ledger[<<m, "IM_LOCKED">>] = Opening["IM_LOCKED"] - LockedFor(m)
      /\ ledger[<<m, "IM_AVAILABLE">>] =
              Opening["IM_AVAILABLE"] + LockedFor(m) + PaidBy(m)
      /\ ledger[<<m, "COLLATERAL">>] =
              Opening["COLLATERAL"] + deposited[m] - PaidBy(m)
  BY DEF LedgerIsExplained
<1>9. /\ LockedFor(m) \in Int /\ PaidBy(m) \in Int /\ deposited[m] \in Int
      /\ Opening["IM_LOCKED"] \in Int /\ Opening["IM_AVAILABLE"] \in Int
      /\ Opening["COLLATERAL"] \in Int
  BY ExplainedTyped DEF Watched
<1> HIDE DEF amount
<1> QED
  BY <1>2, <1>4, <1>6, <1>7, <1>8, <1>9

(* A deposit adds the same to both sides. *)
LEMMA ExplainedDeposit ==
    ASSUME Base, LedgerIsExplained, NEW n \in Members, NEW amount \in Deposits,
           deposit_collateral(n, amount)
    PROVE  LedgerIsExplained'
<1>1. /\ ledger' = Journal(ledger, <<n, "COLLATERAL">>, House, amount)
      /\ deposited' = [deposited EXCEPT ![n] = @ + amount]
      /\ legs' = legs /\ paid' = paid /\ calls' = calls
  BY DEF deposit_collateral, marketVars, marginVars
<1>2. /\ amount \in Int /\ ledger \in [Accounts -> Int]
      /\ deposited \in [Members -> Nat]
  BY MarginAssumption DEF Base, TypeOK
<1>3. ASSUME NEW m \in Members
      PROVE  LockedFor(m)' = LockedFor(m) /\ PaidBy(m)' = PaidBy(m)
  BY <1>1 DEF LockedFor, PaidBy
<1>4. ASSUME NEW m \in Members
      PROVE  /\ ledger'[<<m, "IM_AVAILABLE">>] = ledger[<<m, "IM_AVAILABLE">>]
             /\ ledger'[<<m, "IM_LOCKED">>] = ledger[<<m, "IM_LOCKED">>]
             /\ ledger'[<<m, "COLLATERAL">>] - deposited'[m]
                  = ledger[<<m, "COLLATERAL">>] - deposited[m]
             /\ ledger'[<<m, "COLLATERAL">>] \in Int /\ deposited'[m] \in Int
  BY <1>1, <1>2, DepositEffect
<1> SUFFICES ASSUME NEW m \in Members
             PROVE  /\ ledger'[<<m, "IM_LOCKED">>] =
                         Opening["IM_LOCKED"] - LockedFor(m)'
                    /\ ledger'[<<m, "IM_AVAILABLE">>] =
                         Opening["IM_AVAILABLE"] + LockedFor(m)' + PaidBy(m)'
                    /\ ledger'[<<m, "COLLATERAL">>] =
                         Opening["COLLATERAL"] + deposited'[m] - PaidBy(m)'
  BY DEF LedgerIsExplained
<1>5. /\ ledger[<<m, "IM_LOCKED">>] = Opening["IM_LOCKED"] - LockedFor(m)
      /\ ledger[<<m, "IM_AVAILABLE">>] =
              Opening["IM_AVAILABLE"] + LockedFor(m) + PaidBy(m)
      /\ ledger[<<m, "COLLATERAL">>] =
              Opening["COLLATERAL"] + deposited[m] - PaidBy(m)
  BY DEF LedgerIsExplained
<1>6. PaidBy(m) \in Int /\ deposited[m] \in Int /\ Opening["COLLATERAL"] \in Int
  BY ExplainedTyped DEF Watched
<1> QED
  BY <1>3, <1>4, <1>5, <1>6

(* LedgerIsExplained is preserved. *)
LEMMA ExplainedStep ==
    Base /\ LedgerIsExplained /\ [Next]_vars => LedgerIsExplained'
<1> SUFFICES ASSUME Base, LedgerIsExplained, [Next]_vars
             PROVE  LedgerIsExplained'
  OBVIOUS
<1>1. ASSUME UNCHANGED <<ledger, deposited, legs, paid, calls>>
      PROVE  LedgerIsExplained'
  <2>1. \A m : LockedFor(m)' = LockedFor(m) /\ PaidBy(m)' = PaidBy(m)
    BY <1>1 DEF LockedFor, PaidBy
  <2> QED
    BY <1>1, <2>1 DEF LedgerIsExplained
<1>2. CASE CloseLegs
  <2>1. UNCHANGED <<ledger, deposited, paid, calls>>
    BY <1>2 DEF CloseLegs, marginVars, collateralVars
  <2>2. \A t \in Trades : legs'[t] # "none" <=> legs[t] # "none"
    BY <1>2 DEF CloseLegs, Open
  <2>3. \A m : LockedFor(m)' = LockedFor(m)
    <3> TAKE m
    <3>1. {t \in Trades : legs'[t] # "none"
                          /\ m \in {Terms[t].buyer, Terms[t].seller}}
          = {t \in Trades : legs[t] # "none"
                            /\ m \in {Terms[t].buyer, Terms[t].seller}}
      BY <2>2
    <3> QED
      BY <3>1 DEF LockedFor
  <2>4. \A m : PaidBy(m)' = PaidBy(m)
    BY <2>1 DEF PaidBy
  <2> QED
    BY <2>1, <2>3, <2>4 DEF LedgerIsExplained
<1>3. CASE Market
  <2>1. CASE generate_prices
    BY <1>1, <2>1 DEF generate_prices, marginVars, collateralVars
  <2> QED
    BY <1>2, <1>3, <2>1, ExplainedNovation, ExplainedDeposit DEF Market
<1>4. ASSUME NEW w \in Replicas, CommitMargins(w) PROVE LedgerIsExplained'
  <2>1. UNCHANGED <<legs, deposited, paid>>
        /\ ledger' = ProcessVariation(ledger, job[w].done)
    BY <1>4 DEF CommitMargins, marketVars, collateralVars
  <2>2. /\ \A c \in DOMAIN calls : calls'[c] = calls[c]
        /\ JobInv(w) /\ job[w].done \subseteq Assessment
    BY <1>4, CommitRows
  <2>3. paid \subseteq DOMAIN calls /\ ledger \in [Accounts -> Int]
    BY DEF Base, TypeOK
  <2>4. \A m : LockedFor(m)' = LockedFor(m) /\ PaidBy(m)' = PaidBy(m)
    <3> TAKE m
    <3>1. [c \in {c \in paid : c[2] = m} |-> calls'[c]]
            = [c \in {c \in paid : c[2] = m} |-> calls[c]]
      BY <2>2, <2>3
    <3> QED
      BY <2>1, <3>1 DEF LockedFor, PaidBy
  <2>5. \A m \in Members, p \in Watched : ledger'[<<m, p>>] = ledger[<<m, p>>]
    <3>1. PICK done : done = job[w].done
      OBVIOUS
    <3>2. /\ done \in SUBSET Assessment /\ IsFiniteSet(done)
          /\ ledger' = ProcessVariation(ledger, done)
      BY <2>1, <2>2, <3>1 DEF JobInv
    <3> QED
      BY <2>3, <3>2, VariationEffect
  <2> QED
    BY <2>1, <2>4, <2>5 DEF LedgerIsExplained, Watched
<1>5. ASSUME NEW w \in Replicas, MarginEngine(w) \/ CrashMargins(w)
      PROVE  LedgerIsExplained'
  BY <1>1, <1>4, <1>5, EngineFrame
<1>6. ASSUME NEW v \in Replicas, CollateralManager(v) \/ CrashTransfer(v)
      PROVE  LedgerIsExplained'
  BY <1>1, <1>6, DeskFrame, ExplainedTransfer
<1>7. CASE UNCHANGED vars
  BY <1>1, <1>7 DEF vars, marketVars, marginVars, collateralVars
<1> QED
  BY <1>3, <1>5, <1>6, <1>7 DEF Next

-----------------------------------------------------------------------------
(* A collateral manager that runs once.                                    *)

(* Of a service that runs once, one replica at most is at work. *)
LEMMA OnlyOne ==
    ASSUME NEW S \in SUBSET Replicas, Alone(S), NEW v \in S, NEW w \in S
    PROVE  v = w
<1>1. IsFiniteSet(S)
  BY MarginAssumption, FS_Subset
<1>2. PICK x : S = {x}
  BY <1>1, FS_Singleton DEF Alone
<1> QED
  BY <1>2

(* The replicas that run are replicas. *)
LEMMA SitesTyped ==
    ASSUME TypeOK
    PROVE  site.engines \in SUBSET Replicas /\ site.desks \in SUBSET Replicas
  BY MarginAssumption DEF TypeOK

(* No transfer of a manager that runs alone takes what is not there.       *)
LEMMA OverdrawnStep ==
    ASSUME Base, CheckedIsThere, AloneCollateralNotOverdrawn, [Next]_vars
    PROVE  CheckedIsThere' /\ AloneCollateralNotOverdrawn'
<1> SUFFICES ASSUME Alone(site.desks)
             PROVE  /\ site' = site
                    /\ \A v \in Replicas : desk'[v] # Idle =>
                         ledger'[<<desk'[v].call[2], "COLLATERAL">>]
                             >= calls'[desk'[v].call]
                    /\ CollateralNotOverdrawn'
  <2>1. site' = site
    BY MarketFrame, EngineFrame, DeskFrame DEF Next, vars
  <2> QED
    BY <2>1 DEF CheckedIsThere, AloneCollateralNotOverdrawn
<1> DEFINE at(m) == <<m, "COLLATERAL">>
           Kept == \A m \in Members : /\ ledger[at(m)] \in Int
                                      /\ ledger'[at(m)] \in Int
                                      /\ ledger'[at(m)] >= ledger[at(m)]
<1>1. /\ \A v \in Replicas : desk[v] # Idle =>
           /\ desk[v].call \in DOMAIN calls /\ desk[v].call[2] \in Members
           /\ calls[desk[v].call] \in Nat
           /\ ledger[at(desk[v].call[2])] >= calls[desk[v].call]
      /\ CollateralNotOverdrawn /\ site.desks \in SUBSET Replicas
  <2>1. \A v \in Replicas : desk[v] # Idle =>
           /\ desk[v].call \in DOMAIN calls /\ desk[v].call[2] \in Members
           /\ calls[desk[v].call] \in Nat
    BY DEF Base, TypeOK
  <2> QED
    BY <2>1, SitesTyped
       DEF Base, CheckedIsThere, AloneCollateralNotOverdrawn
<1>2. \A m \in Members : ledger[at(m)] \in Int
  BY AccountsOfMember DEF Base, TypeOK, Pools
<1>3. ASSUME Kept, site' = site,
             \A c \in DOMAIN calls : calls'[c] = calls[c],
             \A v \in Replicas : desk'[v] = desk[v] \/ desk'[v] = Idle
      PROVE  /\ site' = site
             /\ \A v \in Replicas : desk'[v] # Idle =>
                  ledger'[at(desk'[v].call[2])] >= calls'[desk'[v].call]
             /\ CollateralNotOverdrawn'
  <2>1. CollateralNotOverdrawn'
    BY <1>1, <1>3 DEF CollateralNotOverdrawn
  <2>2. ASSUME NEW v \in Replicas, desk'[v] # Idle
        PROVE  ledger'[at(desk'[v].call[2])] >= calls'[desk'[v].call]
    <3>1. PICK c : c = desk[v].call
      OBVIOUS
    <3>2. desk'[v] = desk[v] /\ desk[v] # Idle
      BY <1>3, <2>2
    <3>3. /\ c \in DOMAIN calls /\ c[2] \in Members /\ calls[c] \in Nat
          /\ ledger[at(c[2])] >= calls[c]
      BY <1>1, <3>1, <3>2
    <3>4. /\ ledger'[at(c[2])] >= ledger[at(c[2])] /\ calls'[c] = calls[c]
          /\ ledger'[at(c[2])] \in Int /\ ledger[at(c[2])] \in Int
      BY <1>3, <3>3
    <3>5. ledger'[at(c[2])] >= calls'[c]
      BY <3>3, <3>4
    <3> QED
      BY <3>1, <3>2, <3>5
  <2> QED
    BY <1>3, <2>1, <2>2
<1>4. ledger' = ledger => Kept
  <2> SUFFICES ASSUME ledger' = ledger, NEW m \in Members
               PROVE  /\ ledger'[at(m)] \in Int
                      /\ ledger'[at(m)] >= ledger[at(m)]
    BY <1>2
  <2>1. PICK x \in Int : x = ledger[at(m)]
    BY <1>2
  <2>2. ledger'[at(m)] = x
    BY <2>1
  <2> QED
    BY <2>1, <2>2
<1>5. CASE Market
  <2>1. UNCHANGED <<site, calls, desk>>
    BY <1>5, MarketFrame
  <2>2. ASSUME NEW t \in Trades, novate_trade(t) PROVE Kept
    <3>1. ledger' = LockBoth(ledger, t) /\ ledger \in [Accounts -> Int]
      BY <2>2 DEF novate_trade, Base, TypeOK
    <3>2. ASSUME NEW m \in Members PROVE ledger'[at(m)] = ledger[at(m)]
      <4>1. PICK x : x = IF m \in {Terms[t].buyer, Terms[t].seller}
                         THEN Terms[t].quantity * Terms[t].price * Rate ELSE 0
        OBVIOUS
      <4>2. /\ ledger'[<<m, "IM_AVAILABLE">>]
                 = ledger[<<m, "IM_AVAILABLE">>] + x
            /\ ledger'[<<m, "IM_LOCKED">>] = ledger[<<m, "IM_LOCKED">>] - x
            /\ ledger'[<<m, "COLLATERAL">>] = ledger[<<m, "COLLATERAL">>]
        BY <3>1, <4>1, LockEffect
      <4> QED
        BY <4>2
    <3> HIDE DEF at
    <3> QED
      BY <1>2, <3>2
  <2>3. ASSUME NEW n \in Members, NEW amount \in Deposits,
               deposit_collateral(n, amount)
        PROVE  Kept
    <3>1. /\ ledger' = Journal(ledger, <<n, "COLLATERAL">>, House, amount)
          /\ ledger \in [Accounts -> Int] /\ deposited \in [Members -> Nat]
      BY <2>3 DEF deposit_collateral, Base, TypeOK
    <3>2. amount \in Int /\ amount >= 0
      BY MarginAssumption
    <3>3. \A m \in Members : /\ ledger'[at(m)] \in Int
                             /\ ledger'[at(m)] >= ledger[at(m)]
      BY <3>1, <3>2, DepositEffect
    <3> QED
      BY <1>2, <3>3
  <2>4. ASSUME CloseLegs \/ generate_prices PROVE Kept
    BY <1>4, <2>4 DEF CloseLegs, generate_prices
  <2> HIDE DEF Kept
  <2>5. Kept
    BY <1>5, <2>2, <2>3, <2>4 DEF Market
  <2> QED
    BY <1>3, <2>1, <2>5
<1>6. ASSUME NEW w \in Replicas, MarginEngine(w) \/ CrashMargins(w)
      PROVE  /\ Kept /\ site' = site /\ desk' = desk
             /\ \A c \in DOMAIN calls : calls'[c] = calls[c]
  <2>1. CASE CommitMargins(w)
    <3>1. PICK done : done = job[w].done
      OBVIOUS
    <3>2. JobInv(w) /\ done \in SUBSET Assessment
          /\ \A c \in DOMAIN calls : calls'[c] = calls[c]
      BY <2>1, <3>1, CommitRows
    <3>3. ledger' = ProcessVariation(ledger, done) /\ IsFiniteSet(done)
          /\ ledger \in [Accounts -> Int]
      BY <2>1, <3>1, <3>2 DEF CommitMargins, JobInv, Base, TypeOK
    <3>4. \A m \in Members : ledger'[at(m)] = ledger[at(m)]
      BY <3>2, <3>3, VariationEffect DEF Watched
    <3> QED
      BY <1>2, <1>6, <3>2, <3>4, EngineFrame
  <2>2. CASE UNCHANGED <<requirements, calls, handled, ledger>>
    BY <1>4, <1>6, <2>2, EngineFrame
  <2> QED
    BY <1>6, <2>1, <2>2, EngineFrame
<1>7. ASSUME NEW v \in Replicas, CollateralManager(v) \/ CrashTransfer(v),
             ~Transfer(v)
      PROVE  /\ site' = site
             /\ \A u \in Replicas : desk'[u] # Idle =>
                  ledger'[at(desk'[u].call[2])] >= calls'[desk'[u].call]
             /\ CollateralNotOverdrawn'
  <2>1. UNCHANGED <<site, ledger, calls>>
    BY <1>7, DeskFrame
  <2>2. Kept /\ (\A c \in DOMAIN calls : calls'[c] = calls[c])
    BY <1>4, <2>1
  <2>3. CASE \E c \in DOMAIN calls : CheckTransfer(v, c)
    <3>1. PICK c \in DOMAIN calls : CheckTransfer(v, c)
      BY <2>3
    <3>2. PICK new : new = [status |-> "transferring", call |-> c]
      OBVIOUS
    <3>3. /\ desk' = [desk EXCEPT ![v] = new] /\ new.call = c
          /\ ledger[at(c[2])] >= calls[c] /\ DOMAIN desk = Replicas
      BY <3>1, <3>2 DEF CheckTransfer, EnoughBalance, Base, TypeOK
    <3>4. \A u \in Replicas : desk'[u] = IF u = v THEN new ELSE desk[u]
      BY <3>3
    <3>5. CollateralNotOverdrawn'
      BY <1>1, <2>1 DEF CollateralNotOverdrawn
    <3> QED
      BY <1>1, <2>1, <3>3, <3>4, <3>5
  <2>4. CASE \A c \in DOMAIN calls : ~CheckTransfer(v, c)
    <3>1. desk' = desk \/ desk' = [desk EXCEPT ![v] = Idle]
      BY <1>7, <2>4 DEF CollateralManager, DropCall, RaiseTransfer,
         CrashTransfer
    <3>2. \A u \in Replicas : desk'[u] = desk[u] \/ desk'[u] = Idle
      BY <3>1 DEF Base, TypeOK
    <3> HIDE DEF Kept
    <3> QED
      BY <1>3, <2>1, <2>2, <3>2
  <2> QED
    BY <2>3, <2>4
<1>8. ASSUME NEW v \in Replicas, Transfer(v)
      PROVE  /\ site' = site
             /\ \A u \in Replicas : desk'[u] = Idle
             /\ CollateralNotOverdrawn'
  <2>1. PICK c : c = desk[v].call
    OBVIOUS
  <2>2. /\ desk[v] # Idle /\ site' = site
        /\ desk' = [desk EXCEPT ![v] = Idle]
        /\ ledger' = Journal(ledger, <<c[2], "IM_AVAILABLE">>,
                             <<c[2], "COLLATERAL">>, calls[c])
        /\ ledger \in [Accounts -> Int] /\ DOMAIN desk = Replicas
    BY <1>8, <2>1 DEF Transfer, Base, TypeOK
  <2>3. /\ c[2] \in Members /\ calls[c] \in Int
        /\ ledger[at(c[2])] >= calls[c]
    BY <1>1, <2>1, <2>2
  <2>4. \A u \in Replicas : desk[u] # Idle => u \in site.desks
    BY DEF Base, DesksInv
  <2>5. \A u \in Replicas : desk[u] # Idle => u = v
    BY <1>1, <2>2, <2>4, OnlyOne
  <2>6. \A u \in Replicas : desk'[u] = Idle
    BY <2>2, <2>5
  <2>7. \A m \in Members : ledger'[at(m)] =
          ledger[at(m)] - IF c[2] = m THEN calls[c] ELSE 0
    <3> DEFINE x == calls[c]
               n == c[2]
    <3>1. x \in Int /\ n \in Members /\ ledger \in [Accounts -> Int]
          /\ ledger' = Journal(ledger, <<n, "IM_AVAILABLE">>,
                               <<n, "COLLATERAL">>, x)
      BY <2>2, <2>3
    <3> HIDE DEF x, n, Kept
    <3>2. ASSUME NEW m \in Members
          PROVE  ledger'[<<m, "COLLATERAL">>] =
                   ledger[<<m, "COLLATERAL">>] - IF n = m THEN x ELSE 0
      <4> HIDE DEF at
      <4> QED
        BY <3>1, TransferEffect
    <3> QED
      BY <3>2 DEF x, n
  <2>8. \A m \in Members : ledger[at(m)] >= 0 => ledger'[at(m)] >= 0
    BY <1>2, <2>3, <2>7
  <2>9. CollateralNotOverdrawn'
    BY <1>1, <2>8 DEF CollateralNotOverdrawn
  <2> QED
    BY <2>2, <2>6, <2>9
<1>9. CASE UNCHANGED vars
  <2>1. UNCHANGED <<site, ledger, calls, desk>>
    BY <1>9 DEF vars, marginVars, collateralVars
  <2>2. Kept
    BY <1>4, <2>1
  <2> HIDE DEF Kept
  <2> QED
    BY <1>3, <2>1, <2>2
<1> HIDE DEF Kept
<1> QED
  BY <1>3, <1>5, <1>6, <1>7, <1>8, <1>9 DEF Next

-----------------------------------------------------------------------------
(* A margin engine that runs once.                                         *)

(* What the SELECT would return for a member depends on the book and the   *)
(* price.                                                                  *)
LEMMA PositionStays ==
    ASSUME UNCHANGED <<legs, price>>, NEW m
    PROVE  Position(m)' = Position(m) /\ NetQuantity(m)' = NetQuantity(m)
<1>1. LegsOf(m)' = LegsOf(m)
  BY DEF LegsOf, Open
<1>2. NetQuantity(m)' = NetQuantity(m) /\ AvgPrice(m)' = AvgPrice(m)
  BY <1>1 DEF NetQuantity, AvgPrice
<1> QED
  BY <1>2 DEF Position

(* Nothing was published, handled or valued anew. *)
LEMMA AloneStays ==
    ASSUME AloneIsCurrent,
           UNCHANGED <<site, legs, price, ticks, requirements, handled>>
    PROVE  AloneIsCurrent'
<1>1. Published' = Published
  BY PublishedStays
<1>2. \A m : Position(m)' = Position(m) /\ NetQuantity(m)' = NetQuantity(m)
  BY PositionStays
<1>3. \A m : /\ InitialIsCurrent(m)' <=> InitialIsCurrent(m)
             /\ VariationIsCurrent(m)' <=> VariationIsCurrent(m)
  BY <1>2 DEF InitialIsCurrent, VariationIsCurrent
<1> QED
  BY <1>1, <1>2, <1>3 DEF AloneIsCurrent, CurrentWhenHandled, Unnetted

(* The same, with the recalculations under way as they were.               *)
LEMMA NothingNew ==
    ASSUME RecalculatesCurrent, AloneIsCurrent,
           UNCHANGED <<site, legs, price, ticks, requirements, handled, job>>
    PROVE  RecalculatesCurrent' /\ AloneIsCurrent'
<1>1. Published' = Published
  BY PublishedStays
<1>2. \A m : Position(m)' = Position(m) /\ NetQuantity(m)' = NetQuantity(m)
  BY PositionStays
<1>3. \A w, m : Covers(w, m)' <=> Covers(w, m)
  BY <1>2 DEF Covers
<1>4. RecalculatesCurrent'
  BY <1>1, <1>2, <1>3 DEF RecalculatesCurrent, Unnetted
<1> QED
  BY <1>4, AloneStays

(* A trade or a price that is published now was handled by nobody. *)
LEMMA NewEvent ==
    ASSUME Base, RecalculatesCurrent, AloneIsCurrent, Unnetted' => Unnetted,
           UNCHANGED <<site, job, handled>>,
           \E e \in Published' : e \notin Published
    PROVE  RecalculatesCurrent' /\ AloneIsCurrent'
<1>1. PICK e \in Published' : e \notin Published
  OBVIOUS
<1>2. handled \subseteq Published
      /\ \A w \in Replicas : job[w] # Idle => job[w].event \in Published
  BY DEF Base, TypeOK
<1>3. ~(Published' \subseteq handled')
      /\ \A w \in Replicas : job[w] # Idle =>
           ~(Published' \subseteq handled' \cup {job'[w].event})
  BY <1>1, <1>2
<1>4. RecalculatesCurrent'
  BY <1>3 DEF RecalculatesCurrent
<1>5. AloneIsCurrent'
  BY <1>3 DEF AloneIsCurrent, CurrentWhenHandled
<1> QED
  BY <1>4, <1>5

(* What the market publishes makes the claim wait for its recalculation.   *)
LEMMA CurrentMarket ==
    ASSUME Base, RecalculatesCurrent, AloneIsCurrent, Market
    PROVE  RecalculatesCurrent' /\ AloneIsCurrent'
<1>1. UNCHANGED <<site, requirements, job, handled>>
  BY MarketFrame
<1>2. TypeOK
  BY DEF Base
<1>3. ASSUME NEW t \in Trades, novate_trade(t)
      PROVE  RecalculatesCurrent' /\ AloneIsCurrent'
  <2>1. legs[t] = "none" /\ legs' = [legs EXCEPT ![t] = "open"]
        /\ ticks' = ticks /\ t \in DOMAIN legs
    BY <1>2, <1>3 DEF novate_trade, TypeOK
  <2>2. <<"novated", t>> \in Published'
    BY <2>1 DEF Published
  <2>3. <<"novated", t>> \notin Published
    BY <2>1 DEF Published
  <2>4. Unnetted' => Unnetted
    BY <2>1 DEF Unnetted
  <2> QED
    BY <1>1, <2>2, <2>3, <2>4, NewEvent
<1>4. CASE CloseLegs
  <2>1. PICK ts \in (SUBSET Open) \ {{}} :
          legs' = [t \in Trades |-> IF t \in ts THEN "netted" ELSE legs[t]]
    BY <1>4 DEF CloseLegs
  <2>2. PICK t \in Trades : t \in ts
    BY DEF Open
  <2>3. legs'[t] = "netted"
    BY <2>1, <2>2
  <2>4. ~Unnetted'
    BY <2>3 DEF Unnetted
  <2> QED
    BY <2>4 DEF RecalculatesCurrent, AloneIsCurrent
<1>5. CASE generate_prices
  <2>1. ticks \in Nat /\ ticks' = ticks + 1 /\ legs' = legs
    BY <1>2, <1>5 DEF generate_prices, TypeOK
  <2>2. <<"price", ticks + 1>> \in Published'
    <3>1. ticks + 1 \in 1..ticks'
      BY <2>1
    <3> QED
      BY <3>1 DEF Published
  <2>3. <<"price", ticks + 1>> \notin Published
    <3>1. ticks + 1 \notin 1..ticks
      BY <2>1
    <3> QED
      BY <3>1 DEF Published
  <2>4. Unnetted' => Unnetted
    BY <2>1 DEF Unnetted
  <2> QED
    BY <1>1, <2>2, <2>3, <2>4, NewEvent
<1>6. ASSUME NEW n \in Members, NEW amount \in Deposits,
             deposit_collateral(n, amount)
      PROVE  RecalculatesCurrent' /\ AloneIsCurrent'
  <2>1. UNCHANGED <<legs, price, ticks>>
    BY <1>6 DEF deposit_collateral, marketVars
  <2> QED
    BY <1>1, <2>1, NothingNew
<1> QED
  BY <1>3, <1>4, <1>5, <1>6 DEF Market

(* A recalculation begins with the positions as they are. *)
LEMMA CurrentRecalculate ==
    ASSUME Base, RecalculatesCurrent, AloneIsCurrent, NEW w \in Replicas,
           NEW e \in Published, Recalculate(w, e)
    PROVE  RecalculatesCurrent' /\ AloneIsCurrent'
<1>1. /\ UNCHANGED <<site, legs, price, ticks, requirements, handled>>
      /\ job[w] = Idle /\ w \in site.engines /\ DOMAIN job = Replicas
      /\ site.engines \in SUBSET Replicas /\ TypeOK
  BY SitesTyped DEF Recalculate, marketVars, Base, TypeOK
<1>2. PICK rows \in Bijection(1..Cardinality(Positions), Positions) :
        job' = [job EXCEPT ![w] = [status |-> "recalculating", event |-> e,
                                   todo |-> rows, done |-> {}]]
  BY DEF Recalculate
<1>3. \A m \in {m \in Members : NetQuantity(m) # 0} :
        \E i \in 1..Len(rows) : rows[i] = Position(m)
  BY <1>1, SelectedRows
<1>4. PICK new : new = [status |-> "recalculating", event |-> e,
                        todo |-> rows, done |-> {}]
  OBVIOUS
<1>5. job'[w] = new /\ new.todo = rows
      /\ \A v \in Replicas \ {w} : job'[v] = job[v]
  BY <1>1, <1>2, <1>4
<1>6. \A m \in {m \in Members : NetQuantity(m)' # 0} : Covers(w, m)'
  BY <1>1, <1>3, <1>5, PositionStays DEF Covers
<1>7. Alone(site.engines) => \A v \in Replicas \ {w} : job[v] = Idle
  BY <1>1, OnlyOne DEF Base, JobsInv, JobInv
<1>8. RecalculatesCurrent'
  BY <1>1, <1>5, <1>6, <1>7 DEF RecalculatesCurrent
<1>9. AloneIsCurrent'
  BY <1>1, AloneStays
<1> QED
  BY <1>8, <1>9

(* A position moves from the rows to do to those that are done.            *)
LEMMA CurrentAssess ==
    ASSUME Base, RecalculatesCurrent, AloneIsCurrent, NEW w \in Replicas,
           Assess(w)
    PROVE  RecalculatesCurrent' /\ AloneIsCurrent'
<1>1. UNCHANGED <<site, legs, price, ticks, requirements, handled>>
  BY DEF Assess, marketVars
<1> DEFINE todo == job[w].todo
           done == job[w].done
           row == Head(todo)
<1>2. PICK a \in Assessment :
        /\ a.member = row.member
        /\ a.im = calculate_initial_margin(row.net, row.latest)
        /\ a.vm = calculate_variation_margin(row.net, row.latest, row.avg)
        /\ job[w] # Idle /\ todo # <<>>
        /\ job' = [job EXCEPT ![w].todo = Tail(@), ![w].done = @ \cup {a}]
  BY AssessAdds
<1>3. /\ job[w] \in [status : {"recalculating"}, event : Published,
                     todo : Seq(Row), done : SUBSET Assessment]
      /\ DOMAIN job = Replicas
  BY <1>2 DEF Base, TypeOK
<1>4. PICK new : new = [job[w] EXCEPT !.todo = Tail(@), !.done = @ \cup {a}]
  OBVIOUS
<1>5. /\ job'[w] = new /\ \A v \in Replicas \ {w} : job'[v] = job[v]
  BY <1>2, <1>3, <1>4
<1>6. /\ new.event = job[w].event /\ new.todo = Tail(todo)
      /\ new.done = done \cup {a}
  BY <1>3, <1>4
<1>7. /\ row = todo[1] /\ Len(Tail(todo)) = Len(todo) - 1 /\ Len(todo) \in Nat
      /\ \A i \in 1..Len(Tail(todo)) : Tail(todo)[i] = todo[i + 1]
  BY <1>2, <1>3
<1>8. ASSUME NEW m \in Members, Covers(w, m) PROVE Covers(w, m)'
  <2>1. PICK p : p = Position(m)
    OBVIOUS
  <2>2. Position(m)' = p /\ p.member = m
    BY <1>1, <2>1, PositionStays DEF Position
  <2>3. \/ \E i \in 1..Len(todo) : todo[i] = p
        \/ \E b \in done :
             /\ b.member = m
             /\ b.im = calculate_initial_margin(p.net, p.latest)
             /\ b.vm = calculate_variation_margin(p.net, p.latest, p.avg)
    BY <1>8, <2>1 DEF Covers
  <2>4. \/ \E i \in 1..Len(Tail(todo)) : Tail(todo)[i] = p
        \/ \E b \in done \cup {a} :
             /\ b.member = m
             /\ b.im = calculate_initial_margin(p.net, p.latest)
             /\ b.vm = calculate_variation_margin(p.net, p.latest, p.avg)
    <3>1. ASSUME NEW i \in 1..Len(todo), todo[i] = p, i # 1
          PROVE  i - 1 \in 1..Len(Tail(todo)) /\ Tail(todo)[i - 1] = p
      BY <1>7, <3>1
    <3>2. todo[1] = p => /\ a.member = m
                         /\ a.im = calculate_initial_margin(p.net, p.latest)
                         /\ a.vm = calculate_variation_margin(p.net, p.latest,
                                                              p.avg)
      BY <1>2, <1>7, <2>2
    <3> QED
      BY <2>3, <3>1, <3>2
  <2> QED
    BY <1>5, <1>6, <2>2, <2>4 DEF Covers
<1>9. ASSUME NEW v \in Replicas \ {w}, NEW m \in Members, Covers(v, m)
      PROVE  Covers(v, m)'
  <2>1. Position(m)' = Position(m)
    BY <1>1, PositionStays
  <2> QED
    BY <1>5, <1>9, <2>1 DEF Covers
<1>10. RecalculatesCurrent'
  <2> SUFFICES ASSUME (Alone(site.engines) /\ Unnetted)',
                      NEW v \in Replicas, job'[v] # Idle,
                      Published' \subseteq handled' \cup {job'[v].event},
                      NEW m \in Members, NetQuantity(m)' # 0
               PROVE  Covers(v, m)'
    BY DEF RecalculatesCurrent
  <2>1. /\ Alone(site.engines) /\ Unnetted /\ Published' = Published
        /\ NetQuantity(m) # 0 /\ handled' = handled
    BY <1>1, PublishedStays, PositionStays DEF Unnetted
  <2>2. job[v] # Idle /\ job'[v].event = job[v].event
    BY <1>2, <1>5, <1>6
  <2>3. Covers(v, m)
    BY <2>1, <2>2 DEF RecalculatesCurrent
  <2> QED
    BY <1>8, <1>9, <2>3
<1>11. AloneIsCurrent'
  BY <1>1, AloneStays
<1> QED
  BY <1>10, <1>11

(* What is committed last is what the positions are worth. *)
LEMMA CurrentCommit ==
    ASSUME Base, RecalculatesCurrent, AloneIsCurrent, NEW w \in Replicas,
           CommitMargins(w)
    PROVE  RecalculatesCurrent' /\ AloneIsCurrent'
<1> DEFINE done == job[w].done
           new == Changes(done)
<1>1. /\ UNCHANGED <<site, legs, price, ticks>>
      /\ job[w].todo = <<>> /\ handled' = handled \cup {job[w].event}
      /\ job' = [job EXCEPT ![w] = Idle] /\ DOMAIN job = Replicas
      /\ site.engines \in SUBSET Replicas
  BY SitesTyped DEF CommitMargins, marketVars, Base, TypeOK
<1>2. /\ job[w] # Idle /\ JobInv(w)
      /\ DOMAIN requirements' = DOMAIN requirements \cup DOMAIN new
      /\ \A r \in DOMAIN new : requirements'[r].required = new[r]
  <2>1. job[w] # Idle /\ JobInv(w)
    BY CommitRows
  <2>2. DOMAIN requirements' = DOMAIN requirements \cup DOMAIN new
    BY CommitRows
  <2>3. \A r \in DOMAIN new : requirements'[r].required = new[r]
    BY RequiredRows
  <2> QED
    BY <2>1, <2>2, <2>3
<1>3. \A a, b \in done : a.member = b.member => a = b
  BY <1>2 DEF JobInv
<1>4. Published' = Published
  BY <1>1, PublishedStays
<1>5. Alone(site.engines) => \A v \in Replicas : job'[v] = Idle
  BY <1>1, <1>2, OnlyOne DEF Base, JobsInv, JobInv
<1>6. RecalculatesCurrent'
  BY <1>1, <1>5 DEF RecalculatesCurrent
<1>7. ASSUME Alone(site.engines), Unnetted, Published \subseteq handled',
             NEW m \in Members, NetQuantity(m) # 0
      PROVE  (InitialIsCurrent(m) /\ VariationIsCurrent(m))'
  <2>1. PICK p : p = Position(m)
    OBVIOUS
  <2>2. Position(m)' = p
    BY <1>1, <2>1, PositionStays
  <2>3. Covers(w, m)
    BY <1>1, <1>2, <1>7 DEF RecalculatesCurrent
  <2>4. PICK a \in done :
          /\ a.member = m
          /\ a.im = calculate_initial_margin(p.net, p.latest)
          /\ a.vm = calculate_variation_margin(p.net, p.latest, p.avg)
    BY <1>1, <2>1, <2>3 DEF Covers
  <2>5. /\ <<m, "INITIAL">> \in DOMAIN new
        /\ new[<<m, "INITIAL">>] = a.im
        /\ a.vm # 0 => /\ <<m, "VARIATION">> \in DOMAIN new
                       /\ new[<<m, "VARIATION">>] = Magnitude(a.vm)
    <3> HIDE DEF done
    <3> QED
      BY <1>3, <2>4, ChangesAre
  <2> HIDE DEF new
  <2>6. InitialIsCurrent(m)'
    BY <1>2, <2>2, <2>4, <2>5 DEF InitialIsCurrent
  <2>7. VariationIsCurrent(m)'
    BY <1>2, <2>2, <2>4, <2>5 DEF VariationIsCurrent
  <2> QED
    BY <2>6, <2>7
<1>8. AloneIsCurrent'
  <2>1. \A m : NetQuantity(m)' = NetQuantity(m)
    BY <1>1, PositionStays
  <2> QED
    BY <1>1, <1>4, <1>7, <2>1 DEF AloneIsCurrent, CurrentWhenHandled, Unnetted
<1> QED
  BY <1>6, <1>8

(* RecalculatesCurrent and AloneIsCurrent are preserved. *)
LEMMA CurrentStep ==
    ASSUME Base, RecalculatesCurrent, AloneIsCurrent, [Next]_vars
    PROVE  RecalculatesCurrent' /\ AloneIsCurrent'
<1>1. CASE Market
  BY <1>1, CurrentMarket
<1>2. ASSUME NEW w \in Replicas, RaiseMargins(w) \/ CrashMargins(w)
      PROVE  RecalculatesCurrent' /\ AloneIsCurrent'
  <2>1. UNCHANGED <<site, legs, price, ticks, requirements, handled>>
        /\ job' = [job EXCEPT ![w] = Idle] /\ DOMAIN job = Replicas
    BY <1>2 DEF RaiseMargins, CrashMargins, marketVars, Base, TypeOK
  <2>2. ASSUME NEW v \in Replicas, NEW m, job'[v] # Idle, Covers(v, m)
        PROVE  Covers(v, m)' /\ job'[v] = job[v]
    <3>1. job'[v] = job[v] /\ Position(m)' = Position(m)
      BY <2>1, <2>2, PositionStays
    <3> QED
      BY <2>2, <3>1 DEF Covers
  <2>3. \A v \in Replicas : job'[v] # Idle => job'[v] = job[v]
    BY <2>1
  <2>4. RecalculatesCurrent'
    BY <2>1, <2>2, <2>3, PublishedStays, PositionStays
       DEF RecalculatesCurrent, Unnetted
  <2> QED
    BY <2>1, <2>4, AloneStays
<1>3. ASSUME NEW w \in Replicas, MarginEngine(w)
      PROVE  RecalculatesCurrent' /\ AloneIsCurrent'
  BY <1>2, <1>3, CurrentRecalculate, CurrentAssess, CurrentCommit
     DEF MarginEngine
<1>4. ASSUME NEW v \in Replicas, CollateralManager(v) \/ CrashTransfer(v)
      PROVE  RecalculatesCurrent' /\ AloneIsCurrent'
  BY <1>4, DeskFrame, NothingNew
<1>5. CASE UNCHANGED vars
  BY <1>5, NothingNew DEF vars, marketVars, marginVars
<1> QED
  BY <1>1, <1>2, <1>3, <1>4, <1>5 DEF Next

-----------------------------------------------------------------------------
(* Theorems.                                                               *)

(* The inductive invariant holds at the start, ... *)
LEMMA InitIInv ==
    Init => IInv
<1> SUFFICES ASSUME Init PROVE IInv
  OBVIOUS
<1>1. Base
  BY InitBase
<1>2. /\ DOMAIN requirements = {} /\ paid = {} /\ ticks = 0
      /\ legs = [t \in Trades |-> "none"]
      /\ \A w \in Replicas : job[w] = Idle /\ desk[w] = Idle
      /\ deposited = [m \in Members |-> 0]
      /\ ledger = [a \in Accounts |-> IF a = House THEN 0 ELSE Opening[a[2]]]
  BY DEF Init
<1>3. ShortfallIsCalled /\ CheckedIsThere /\ RecalculatesCurrent
  BY <1>2 DEF ShortfallIsCalled, CheckedIsThere, RecalculatesCurrent
<1>4. \A m \in Members, p \in Watched : ledger[<<m, p>>] = Opening[p]
  BY <1>2, AccountsOfMember DEF Watched, Pools
<1>5. \A p \in Watched : Opening[p] \in Int
  BY MarginAssumption DEF Watched, Pools
<1>6. AloneCollateralNotOverdrawn
  BY <1>4 DEF AloneCollateralNotOverdrawn, CollateralNotOverdrawn, Watched
<1>7. ASSUME NEW m \in Members PROVE LockedFor(m) = 0 /\ PaidBy(m) = 0
  <2>1. {t \in Trades : legs[t] # "none"
                        /\ m \in {Terms[t].buyer, Terms[t].seller}} = {}
        /\ {c \in paid : c[2] = m} = {}
    BY <1>2
  <2>2. \A f : DOMAIN f = {} => SumFunction(f) = 0
    BY SumEmpty DEF SumFunction
  <2> QED
    BY <2>1, <2>2 DEF LockedFor, PaidBy
<1>8. LedgerIsExplained
  <2> SUFFICES ASSUME NEW m \in Members
               PROVE  /\ ledger[<<m, "IM_LOCKED">>] =
                           Opening["IM_LOCKED"] - LockedFor(m)
                      /\ ledger[<<m, "IM_AVAILABLE">>] =
                           Opening["IM_AVAILABLE"] + LockedFor(m) + PaidBy(m)
                      /\ ledger[<<m, "COLLATERAL">>] =
                           Opening["COLLATERAL"] + deposited[m] - PaidBy(m)
    BY DEF LedgerIsExplained
  <2>1. LockedFor(m) = 0 /\ PaidBy(m) = 0 /\ deposited[m] = 0
    BY <1>2, <1>7
  <2> QED
    BY <1>4, <1>5, <2>1 DEF Watched
<1>9. AloneIsCurrent
  <2>1. ASSUME NEW m \in Members PROVE NetQuantity(m) = 0
    <3>1. LegsOf(m) = {}
      BY <1>2 DEF LegsOf, Open
    <3>2. \A f : DOMAIN f = {} => SumFunction(f) = 0
      BY SumEmpty DEF SumFunction
    <3> QED
      BY <3>1, <3>2 DEF NetQuantity
  <2> QED
    BY <2>1 DEF AloneIsCurrent, CurrentWhenHandled
<1> QED
  BY <1>1, <1>3, <1>6, <1>8, <1>9 DEF IInv

(* ... each step keeps it, ... *)
LEMMA NextIInv ==
    IInv /\ [Next]_vars => IInv'
  BY NextBase, ShortfallStep, ExplainedStep, OverdrawnStep, CurrentStep DEF IInv

(* ... and so it always holds. *)
LEMMA IInvHolds ==
    Spec => []IInv
  BY InitIInv, NextIInv, PTL DEF Spec

(* Every table of the margin engine and of the collateral manager keeps    *)
(* its columns' types; no requirement or call is negative, no offset is    *)
(* committed for what was never published.                                 *)
THEOREM MarginTypes ==
    Spec => []TypeOK
<1>1. IInv => TypeOK
  BY DEF IInv, Base
<1> QED
  BY <1>1, IInvHolds, PTL

(* Whatever the replicas of the margin engine do at the same time, a       *)
(* shortfall on record has been called at its amount.                      *)
THEOREM ShortfallsAreCalled ==
    Spec => []ShortfallIsCalled
<1>1. IInv => ShortfallIsCalled
  BY DEF IInv
<1> QED
  BY <1>1, IInvHolds, PTL

(* A member's initial margin and collateral accounts hold its novated      *)
(* trades, its deposits and the calls it has paid, each once: no retry,    *)
(* crash or second replica moves an amount twice.                          *)
THEOREM LedgerExplained ==
    Spec => []LedgerIsExplained
<1>1. IInv => LedgerIsExplained
  BY DEF IInv
<1> QED
  BY <1>1, IInvHolds, PTL

(* A collateral manager that runs once never overdraws a member, although  *)
(* its check of the balance locks nothing.                                 *)
THEOREM AloneNeverOverdraws ==
    Spec => []AloneCollateralNotOverdrawn
<1>1. IInv => AloneCollateralNotOverdrawn
  BY DEF IInv
<1> QED
  BY <1>1, IInvHolds, PTL

(* A margin engine that runs once and has handled everything published     *)
(* requires what the open positions are worth at the last price.           *)
THEOREM AloneStaysCurrent ==
    Spec => []AloneIsCurrent
<1>1. IInv => AloneIsCurrent
  BY DEF IInv
<1> QED
  BY <1>1, IInvHolds, PTL

=============================================================================
