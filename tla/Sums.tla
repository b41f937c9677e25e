-------------------------------- MODULE Sums --------------------------------
(***************************************************************************)
(* Sums over finite sets, SumFunctionOnSet(f, S) of the module Functions:  *)
(* the facts that the proofs about amounts need.  The sum is a fold, which *)
(* takes the elements out in an order that CHOOSE fixes; what is proved    *)
(* here is that the order does not matter and what follows from that.      *)
(*                                                                         *)
(* Induction is stated with a set of sets in the place of a predicate, so  *)
(* that it can be used by citing it.                                       *)
(***************************************************************************)
EXTENDS Integers, FiniteSets, Functions, FiniteSetTheorems,
        WellFoundedInduction, TLAPS

(* Every set of subsets of a finite set has a minimal member. *)
LEMMA MinimalSubset ==
    ASSUME NEW S, IsFiniteSet(S), NEW C \in SUBSET SUBSET S, C # {}
    PROVE  \E T \in C : \A U \in C : U \subseteq T => U = T
<1>1. IsWellFoundedOn(StrictSubsetOrdering(S), SUBSET S)
  BY FS_StrictSubsetOrderingWellFounded, FS_FiniteSubsetsOfFinite
<1>2. PICK T \in C : \A U \in C : <<U, T>> \notin StrictSubsetOrdering(S)
  BY <1>1, WFMin
<1>3. \A U \in C : U \subseteq T => U = T
  BY <1>2 DEF StrictSubsetOrdering
<1> QED
  BY <1>2, <1>3

(* What holds of the empty set and survives one more element holds of a    *)
(* finite set.                                                             *)
LEMMA SubsetInduction ==
    ASSUME NEW S, IsFiniteSet(S), NEW Good \in SUBSET SUBSET S,
           {} \in Good,
           \A T \in Good : \A x \in S \ T : T \cup {x} \in Good
    PROVE  S \in Good
<1>1. SUFFICES ASSUME S \notin Good PROVE FALSE
  OBVIOUS
<1> DEFINE Bad == (SUBSET S) \ Good
<1>2. PICK T \in Bad : \A U \in Bad : U \subseteq T => U = T
  <2>1. Bad # {} /\ Bad \in SUBSET SUBSET S
    BY <1>1
  <2> HIDE DEF Bad
  <2> QED
    BY <2>1, MinimalSubset
<1>3. T # {} /\ T \subseteq S
  BY <1>2
<1>4. PICK x \in T : TRUE
  BY <1>3
<1>5. T \ {x} \in Good
  BY <1>2, <1>3, <1>4
<1>6. T = (T \ {x}) \cup {x} /\ x \in S \ (T \ {x})
  BY <1>3, <1>4
<1> QED
  BY <1>2, <1>5, <1>6

(* The image of a finite set is finite. *)
LEMMA FiniteImage ==
    ASSUME NEW S, IsFiniteSet(S), NEW h
    PROVE  IsFiniteSet({h[x] : x \in S})
<1> DEFINE onto == [x \in S |-> h[x]]
<1>1. onto \in Surjection(S, {h[x] : x \in S})
  BY DEF Surjection
<1> QED
  BY <1>1, FS_Surjection

-----------------------------------------------------------------------------
(* The fold behind a sum. *)

First(s) == CHOOSE x \in s : TRUE

Unfolded(f, g, s) ==
    IF s = {} THEN 0 ELSE f[First(s)] + g[s \ {First(s)}]

Fold(f, S) == CHOOSE g : g = [s \in SUBSET S |-> Unfolded(f, g, s)]

(* SumFunctionOnSet of the library is the fold defined above. *)
LEMMA SumIsFold ==
    ASSUME NEW f, NEW S
    PROVE  SumFunctionOnSet(f, S) = Fold(f, S)[S]
  BY DEF SumFunctionOnSet, FoldFunctionOnSet, MapThenFoldSet, Fold, Unfolded,
     First

(* Sets of at most n elements; the fold exists on each of these levels. *)
Level(S, n) == {s \in SUBSET S : Cardinality(s) <= n}

IsFoldOn(g, f, L) == g = [s \in L |-> Unfolded(f, g, s)]

(* A fold on the sets of at most n elements extends to those of n + 1. *)
LEMMA FoldOnLevels ==
    ASSUME NEW f, NEW S, IsFiniteSet(S), NEW n \in Nat,
           \E g : IsFoldOn(g, f, Level(S, n))
    PROVE  \E g : IsFoldOn(g, f, Level(S, n + 1))
<1>1. PICK g : IsFoldOn(g, f, Level(S, n))
  OBVIOUS
<1> DEFINE h == [s \in Level(S, n + 1) |-> Unfolded(f, g, s)]
<1>2. ASSUME NEW s \in Level(S, n + 1), s # {}
      PROVE  g[s \ {First(s)}] = h[s \ {First(s)}]
  <2>1. First(s) \in s
    BY <1>2 DEF First
  <2>2. IsFiniteSet(s) /\ Cardinality(s) <= n + 1 /\ s \subseteq S
    BY FS_Subset DEF Level
  <2>3. Cardinality(s) \in Nat
        /\ Cardinality(s \ {First(s)}) = Cardinality(s) - 1
    BY <2>1, <2>2, FS_RemoveElement, FS_CardinalityType
  <2>4. s \ {First(s)} \in Level(S, n) /\ s \ {First(s)} \in Level(S, n + 1)
    BY <2>2, <2>3 DEF Level
  <2> QED
    BY <1>1, <2>4 DEF IsFoldOn
<1>3. \A s \in Level(S, n + 1) : Unfolded(f, g, s) = Unfolded(f, h, s)
  <2> HIDE DEF h
  <2> QED
    BY <1>2 DEF Unfolded
<1>4. IsFoldOn(h, f, Level(S, n + 1))
  BY <1>3, Zenon DEF IsFoldOn
<1> QED
  BY <1>4

(* The recursive function that the fold chooses exists. *)
LEMMA FoldExists ==
    ASSUME NEW f, NEW S, IsFiniteSet(S)
    PROVE  IsFoldOn(Fold(f, S), f, SUBSET S)
<1> DEFINE Missing == {n \in Nat : ~ \E g : IsFoldOn(g, f, Level(S, n))}
<1>1. Missing = {}
  <2>1. SUFFICES ASSUME Missing # {} PROVE FALSE
    OBVIOUS
  <2>2. PICK n \in Missing : \A m \in Missing : ~ (m < n)
    <3>1. PICK n \in Missing : \A m \in Missing : <<m, n>> \notin OpToRel(<, Nat)
      <4>1. Missing \subseteq Nat
        OBVIOUS
      <4> HIDE DEF Missing
      <4> QED
        BY <2>1, <4>1, NatLessThanWellFounded, WFMin
    <3> QED
      BY <3>1 DEF OpToRel
  <2>3. n # 0
    <3>1. ASSUME NEW s \in Level(S, 0) PROVE s = {}
      <4>1. IsFiniteSet(s) /\ Cardinality(s) <= 0
        BY FS_Subset DEF Level
      <4> QED
        BY <4>1, FS_CardinalityType, FS_EmptySet
    <3>2. IsFoldOn([s \in Level(S, 0) |-> 0], f, Level(S, 0))
      BY <3>1 DEF IsFoldOn, Unfolded
    <3> QED
      BY <3>2
  <2>4. n - 1 \in Nat /\ n - 1 \notin Missing /\ (n - 1) + 1 = n
    BY <2>2, <2>3
  <2>5. \E g : IsFoldOn(g, f, Level(S, n - 1))
    BY <2>4
  <2>6. \E g : IsFoldOn(g, f, Level(S, (n - 1) + 1))
    BY <2>4, <2>5, FoldOnLevels
  <2> QED
    BY <2>2, <2>4, <2>6
<1>2. Cardinality(S) \in Nat
  BY FS_CardinalityType
<1>3. Level(S, Cardinality(S)) = SUBSET S
  BY FS_Subset DEF Level
<1>4. PICK g : IsFoldOn(g, f, SUBSET S)
  <2>1. \E g : IsFoldOn(g, f, Level(S, Cardinality(S)))
    BY <1>1, <1>2
  <2> QED
    BY <1>3, <2>1, Zenon
<1> QED
  BY <1>4 DEF IsFoldOn, Fold

(* The value of the fold at a subset is that of its equation. *)
LEMMA FoldUnfolds ==
    ASSUME NEW f, NEW S, IsFiniteSet(S), NEW s \in SUBSET S
    PROVE  Fold(f, S)[s] = Unfolded(f, Fold(f, S), s)
<1> DEFINE g == Fold(f, S)
<1>1. IsFoldOn(g, f, SUBSET S)
  BY FoldExists
<1> HIDE DEF g
<1>2. g[s] = Unfolded(f, g, s)
  BY <1>1 DEF IsFoldOn
<1> QED
  BY <1>2 DEF g

(* The fold over a subset does not depend on the set around it. *)
LEMMA FoldAgrees ==
    ASSUME NEW f, NEW S, IsFiniteSet(S), NEW T \in SUBSET S
    PROVE  Fold(f, S)[T] = Fold(f, T)[T]
<1>1. IsFiniteSet(T)
  BY FS_Subset
<1> DEFINE Differ == {s \in SUBSET T : Fold(f, S)[s] # Fold(f, T)[s]}
<1>2. SUFFICES ASSUME Differ # {} PROVE FALSE
  OBVIOUS
<1>3. PICK s \in Differ : \A u \in Differ : u \subseteq s => u = s
  <2>1. Differ \in SUBSET SUBSET T
    OBVIOUS
  <2> HIDE DEF Differ
  <2> QED
    BY <1>1, <1>2, <2>1, MinimalSubset
<1>4. /\ Fold(f, S)[s] = Unfolded(f, Fold(f, S), s)
      /\ Fold(f, T)[s] = Unfolded(f, Fold(f, T), s)
  <2>1. s \in SUBSET T /\ s \in SUBSET S
    OBVIOUS
  <2> HIDE DEF Differ
  <2> QED
    BY <1>1, <2>1, FoldUnfolds
<1>5. s # {}
  BY <1>3, <1>4 DEF Unfolded
<1>6. First(s) \in s
  BY <1>5 DEF First
<1>7. s \ {First(s)} \notin Differ /\ s \ {First(s)} \in SUBSET T
  BY <1>3, <1>6
<1> QED
  BY <1>3, <1>4, <1>5, <1>7 DEF Unfolded

-----------------------------------------------------------------------------
(* What a sum is. *)

(* The empty sum is 0. *)
LEMMA SumEmpty == \A f : SumFunctionOnSet(f, {}) = 0
<1>1. SUFFICES ASSUME NEW f PROVE SumFunctionOnSet(f, {}) = 0
  OBVIOUS
<1>2. Fold(f, {})[{}] = Unfolded(f, Fold(f, {}), {})
  BY FoldUnfolds, FS_EmptySet
<1> QED
  BY <1>2, SumIsFold DEF Unfolded

(* A sum is its first term and the sum of the others. *)
LEMMA SumUnfolded ==
    ASSUME NEW f, NEW S, IsFiniteSet(S), S # {}
    PROVE  SumFunctionOnSet(f, S)
             = f[First(S)] + SumFunctionOnSet(f, S \ {First(S)})
<1>1. Fold(f, S)[S] = Unfolded(f, Fold(f, S), S)
  BY FoldUnfolds
<1>2. Fold(f, S)[S \ {First(S)}] = Fold(f, S \ {First(S)})[S \ {First(S)}]
  BY FoldAgrees
<1> QED
  BY <1>1, <1>2, SumIsFold DEF Unfolded

(* A sum of integers is an integer. *)
LEMMA SumInt ==
    ASSUME NEW f, NEW S, IsFiniteSet(S), \A x \in S : f[x] \in Int
    PROVE  SumFunctionOnSet(f, S) \in Int
<1> DEFINE Bad == {s \in SUBSET S : SumFunctionOnSet(f, s) \notin Int}
<1>1. SUFFICES ASSUME Bad # {} PROVE FALSE
  OBVIOUS
<1>2. PICK s \in Bad : \A u \in Bad : u \subseteq s => u = s
  <2>1. Bad \in SUBSET SUBSET S
    OBVIOUS
  <2> HIDE DEF Bad
  <2> QED
    BY <1>1, <2>1, MinimalSubset
<1>3. s # {}
  <2>1. SumFunctionOnSet(f, {}) \in Int
    BY SumEmpty
  <2> QED
    BY <1>2, <2>1
<1>4. First(s) \in s /\ IsFiniteSet(s)
  BY <1>3, FS_Subset DEF First
<1>5. SumFunctionOnSet(f, s \ {First(s)}) \in Int
  BY <1>2, <1>4
<1>6. SumFunctionOnSet(f, s) \in Int
  BY <1>3, <1>4, <1>5, SumUnfolded
<1> QED
  BY <1>6

(* Any element may be the first one to be taken out. *)
LEMMA SumRemove ==
    ASSUME NEW f, NEW S, IsFiniteSet(S), \A y \in S : f[y] \in Int, NEW x \in S
    PROVE  SumFunctionOnSet(f, S) = f[x] + SumFunctionOnSet(f, S \ {x})
<1> DEFINE Holds(s, y) ==
        SumFunctionOnSet(f, s) = f[y] + SumFunctionOnSet(f, s \ {y})
<1> DEFINE Bad == {s \in SUBSET S : \E y \in s : ~Holds(s, y)}
<1>1. SUFFICES ASSUME Bad # {} PROVE FALSE
  OBVIOUS
<1>2. PICK s \in Bad : \A u \in Bad : u \subseteq s => u = s
  <2>1. Bad \in SUBSET SUBSET S
    OBVIOUS
  <2> HIDE DEF Bad
  <2> QED
    BY <1>1, <2>1, MinimalSubset
<1>3. PICK y \in s : ~Holds(s, y)
  BY <1>2
<1>4. IsFiniteSet(s) /\ s # {} /\ s \subseteq S
  BY <1>3, FS_Subset
<1> DEFINE z == First(s)
<1>5. z \in s /\ Holds(s, z)
  BY <1>4, SumUnfolded DEF First
<1> HIDE DEF z
<1>6. z # y
  BY <1>3, <1>5
<1>7. Holds(s \ {z}, y) /\ Holds(s \ {y}, z)
  BY <1>2, <1>3, <1>4, <1>5, <1>6
<1>8. (s \ {z}) \ {y} = (s \ {y}) \ {z}
  OBVIOUS
<1>9. SumFunctionOnSet(f, (s \ {y}) \ {z}) \in Int
  <2>1. IsFiniteSet((s \ {y}) \ {z})
    BY <1>4, FS_Subset
  <2> QED
    BY <1>4, <2>1, SumInt
<1>10. f[y] \in Int /\ f[z] \in Int
  BY <1>3, <1>4, <1>5
<1>11. /\ SumFunctionOnSet(f, s) = f[z] + SumFunctionOnSet(f, s \ {z})
       /\ SumFunctionOnSet(f, s \ {z})
            = f[y] + SumFunctionOnSet(f, (s \ {y}) \ {z})
       /\ SumFunctionOnSet(f, s \ {y})
            = f[z] + SumFunctionOnSet(f, (s \ {y}) \ {z})
  BY <1>5, <1>7, <1>8, Zenon
<1> HIDE DEF Holds
<1>12. SumFunctionOnSet(f, s) = f[y] + SumFunctionOnSet(f, s \ {y})
  BY <1>9, <1>10, <1>11
<1> QED
  BY <1>3, <1>12, Zenon DEF Holds

(* One element more adds its term. *)
LEMMA SumAdd ==
    ASSUME NEW f, NEW S, IsFiniteSet(S), \A y \in S : f[y] \in Int,
           NEW x, x \notin S, f[x] \in Int
    PROVE  SumFunctionOnSet(f, S \cup {x}) = f[x] + SumFunctionOnSet(f, S)
<1>1. IsFiniteSet(S \cup {x}) /\ (S \cup {x}) \ {x} = S
  BY FS_AddElement
<1> QED
  BY <1>1, SumRemove

-----------------------------------------------------------------------------
(* Laws. *)

(* Equal terms have equal sums. *)
LEMMA SumOfEqual ==
    ASSUME NEW f, NEW g, NEW S, IsFiniteSet(S), \A x \in S : f[x] = g[x]
    PROVE  SumFunctionOnSet(f, S) = SumFunctionOnSet(g, S)
<1> DEFINE Bad == {s \in SUBSET S :
                       SumFunctionOnSet(f, s) # SumFunctionOnSet(g, s)}
<1>1. SUFFICES ASSUME Bad # {} PROVE FALSE
  OBVIOUS
<1>2. PICK s \in Bad : \A u \in Bad : u \subseteq s => u = s
  <2>1. Bad \in SUBSET SUBSET S
    OBVIOUS
  <2> HIDE DEF Bad
  <2> QED
    BY <1>1, <2>1, MinimalSubset
<1>3. s # {}
  BY <1>2, SumEmpty
<1>4. First(s) \in s /\ IsFiniteSet(s)
  BY <1>3, FS_Subset DEF First
<1>5. SumFunctionOnSet(f, s \ {First(s)}) = SumFunctionOnSet(g, s \ {First(s)})
  BY <1>2, <1>4
<1>6. SumFunctionOnSet(f, s) = SumFunctionOnSet(g, s)
  BY <1>3, <1>4, <1>5, SumUnfolded
<1> QED
  BY <1>2, <1>6

(* A sum of zeros is 0. *)
LEMMA SumOfZeros ==
    ASSUME NEW f, NEW S, IsFiniteSet(S), \A x \in S : f[x] = 0
    PROVE  SumFunctionOnSet(f, S) = 0
<1> DEFINE Good == {s \in SUBSET S : SumFunctionOnSet(f, s) = 0}
<1>1. {} \in Good
  BY SumEmpty
<1>2. ASSUME NEW s \in Good, NEW x \in S \ s PROVE s \cup {x} \in Good
  <2>1. IsFiniteSet(s)
    BY FS_Subset
  <2>2. SumFunctionOnSet(f, s \cup {x}) = f[x] + SumFunctionOnSet(f, s)
    BY <2>1, SumAdd
  <2> QED
    BY <2>2
<1>3. S \in Good
  <2>1. Good \in SUBSET SUBSET S
    OBVIOUS
  <2> HIDE DEF Good
  <2> QED
    BY <1>1, <1>2, <2>1, SubsetInduction
<1> QED
  BY <1>3

(* The sum over two disjoint sets. *)
LEMMA SumUnion ==
    ASSUME NEW f, NEW S, NEW T, IsFiniteSet(S), IsFiniteSet(T), S \cap T = {},
           \A x \in S \cup T : f[x] \in Int
    PROVE  SumFunctionOnSet(f, S \cup T)
             = SumFunctionOnSet(f, S) + SumFunctionOnSet(f, T)
<1> DEFINE Good == {t \in SUBSET T : SumFunctionOnSet(f, S \cup t)
                        = SumFunctionOnSet(f, S) + SumFunctionOnSet(f, t)}
<1>1. {} \in Good
  <2>1. S \cup {} = S /\ SumFunctionOnSet(f, S) \in Int
    BY SumInt
  <2> QED
    BY <2>1, SumEmpty
<1>2. ASSUME NEW t \in Good, NEW x \in T \ t PROVE t \cup {x} \in Good
  <2>1. IsFiniteSet(t) /\ IsFiniteSet(S \cup t)
    BY FS_Subset, FS_Union
  <2>2. SumFunctionOnSet(f, t \cup {x}) = f[x] + SumFunctionOnSet(f, t)
    BY <2>1, SumAdd
  <2>3. SumFunctionOnSet(f, (S \cup t) \cup {x})
          = f[x] + SumFunctionOnSet(f, S \cup t)
    BY <2>1, SumAdd
  <2>4. SumFunctionOnSet(f, S \cup (t \cup {x}))
          = f[x] + SumFunctionOnSet(f, S \cup t)
    <3>1. (S \cup t) \cup {x} = S \cup (t \cup {x})
      OBVIOUS
    <3> QED
      BY <2>3, <3>1, Zenon
  <2>5. /\ SumFunctionOnSet(f, S) \in Int
        /\ SumFunctionOnSet(f, t) \in Int /\ f[x] \in Int
    BY <2>1, SumInt
  <2>6. SumFunctionOnSet(f, S \cup t)
          = SumFunctionOnSet(f, S) + SumFunctionOnSet(f, t)
    OBVIOUS
  <2>7. SumFunctionOnSet(f, S \cup (t \cup {x}))
          = SumFunctionOnSet(f, S) + SumFunctionOnSet(f, t \cup {x})
    <3> HIDE DEF Good
    <3> QED
      BY <2>2, <2>4, <2>5, <2>6
  <2> QED
    BY <2>7
<1>3. T \in Good
  <2>1. Good \in SUBSET SUBSET T
    OBVIOUS
  <2> HIDE DEF Good
  <2> QED
    BY <1>1, <1>2, <2>1, SubsetInduction
<1> QED
  BY <1>3

(* The sum of the sums of two functions. *)
LEMMA SumPlus ==
    ASSUME NEW f, NEW g, NEW h, NEW S, IsFiniteSet(S),
           \A x \in S : f[x] \in Int /\ g[x] \in Int /\ h[x] = f[x] + g[x]
    PROVE  SumFunctionOnSet(h, S)
             = SumFunctionOnSet(f, S) + SumFunctionOnSet(g, S)
<1> DEFINE Good == {s \in SUBSET S : SumFunctionOnSet(h, s)
                        = SumFunctionOnSet(f, s) + SumFunctionOnSet(g, s)}
<1>1. {} \in Good
  BY SumEmpty
<1>2. ASSUME NEW s \in Good, NEW x \in S \ s PROVE s \cup {x} \in Good
  <2>1. IsFiniteSet(s)
    BY FS_Subset
  <2>2. /\ SumFunctionOnSet(f, s \cup {x}) = f[x] + SumFunctionOnSet(f, s)
        /\ SumFunctionOnSet(g, s \cup {x}) = g[x] + SumFunctionOnSet(g, s)
        /\ SumFunctionOnSet(h, s \cup {x}) = h[x] + SumFunctionOnSet(h, s)
    <3>1. \A y \in s \cup {x} : f[y] \in Int /\ g[y] \in Int /\ h[y] \in Int
      OBVIOUS
    <3> QED
      BY <2>1, <3>1, SumAdd
  <2>3. /\ SumFunctionOnSet(f, s) \in Int /\ f[x] \in Int
        /\ SumFunctionOnSet(g, s) \in Int /\ g[x] \in Int
    BY <2>1, SumInt
  <2> QED
    BY <2>2, <2>3
<1>3. S \in Good
  <2>1. Good \in SUBSET SUBSET S
    OBVIOUS
  <2> HIDE DEF Good
  <2> QED
    BY <1>1, <1>2, <2>1, SubsetInduction
<1> QED
  BY <1>3

(* A sum of natural numbers is a natural number. *)
LEMMA SumNat ==
    ASSUME NEW f, NEW S, IsFiniteSet(S), \A x \in S : f[x] \in Nat
    PROVE  SumFunctionOnSet(f, S) \in Nat
<1> DEFINE Good == {s \in SUBSET S : SumFunctionOnSet(f, s) \in Nat}
<1>1. {} \in Good
  <2>1. SumFunctionOnSet(f, {}) \in Nat
    BY SumEmpty
  <2> QED
    BY <2>1
<1>2. ASSUME NEW s \in Good, NEW x \in S \ s PROVE s \cup {x} \in Good
  <2>1. IsFiniteSet(s)
    BY FS_Subset
  <2>2. SumFunctionOnSet(f, s \cup {x}) = f[x] + SumFunctionOnSet(f, s)
    BY <2>1, SumAdd
  <2>3. SumFunctionOnSet(f, s \cup {x}) \in Nat
    BY <2>2
  <2> QED
    BY <2>3
<1>3. S \in Good
  <2>1. Good \in SUBSET SUBSET S
    OBVIOUS
  <2> HIDE DEF Good
  <2> QED
    BY <1>1, <1>2, <2>1, SubsetInduction
<1> QED
  BY <1>3

(* A sum over the image of a set under an injective map. *)
LEMMA SumImage ==
    ASSUME NEW f, NEW g, NEW h, NEW S, IsFiniteSet(S),
           \A x, y \in S : h[x] = h[y] => x = y,
           \A x \in S : f[h[x]] \in Int /\ g[x] = f[h[x]]
    PROVE  SumFunctionOnSet(f, {h[x] : x \in S}) = SumFunctionOnSet(g, S)
<1> DEFINE Image(s) == {h[x] : x \in s}
<1> DEFINE Good == {s \in SUBSET S :
                /\ IsFiniteSet(Image(s))
                /\ SumFunctionOnSet(f, Image(s)) = SumFunctionOnSet(g, s)}
<1>1. {} \in Good
  <2>1. Image({}) = {}
    OBVIOUS
  <2>2. IsFiniteSet({}) /\ SumFunctionOnSet(f, {}) = SumFunctionOnSet(g, {})
    BY SumEmpty, FS_EmptySet
  <2> HIDE DEF Image
  <2> QED
    BY <2>1, <2>2, Zenon
<1>2. ASSUME NEW s \in Good, NEW x \in S \ s PROVE s \cup {x} \in Good
  <2>1. IsFiniteSet(s) /\ IsFiniteSet(Image(s))
    BY FS_Subset
  <2>2. Image(s \cup {x}) = Image(s) \cup {h[x]} /\ h[x] \notin Image(s)
    OBVIOUS
  <2>3. SumFunctionOnSet(g, s \cup {x}) = g[x] + SumFunctionOnSet(g, s)
    BY <2>1, SumAdd
  <2>4. \A y \in Image(s) \cup {h[x]} : f[y] \in Int
    OBVIOUS
  <2>5. SumFunctionOnSet(f, Image(s)) = SumFunctionOnSet(g, s)
    OBVIOUS
  <2>6. g[x] = f[h[x]] /\ s \cup {x} \in SUBSET S
    OBVIOUS
  <2> HIDE DEF Image
  <2>7. SumFunctionOnSet(f, Image(s) \cup {h[x]})
          = f[h[x]] + SumFunctionOnSet(f, Image(s))
    BY <2>1, <2>2, <2>4, SumAdd
  <2>8. SumFunctionOnSet(f, Image(s \cup {x})) = SumFunctionOnSet(g, s \cup {x})
    BY <2>2, <2>3, <2>5, <2>6, <2>7, Zenon
  <2>9. IsFiniteSet(Image(s \cup {x}))
    <3>1. IsFiniteSet(Image(s) \cup {h[x]})
      BY <2>1, FS_AddElement
    <3> QED
      BY <2>2, <3>1, Zenon
  <2> QED
    BY <2>6, <2>8, <2>9, Zenon
<1>3. S \in Good
  <2>1. Good \in SUBSET SUBSET S
    OBVIOUS
  <2> HIDE DEF Good
  <2> QED
    BY <1>1, <1>2, <2>1, SubsetInduction
<1> QED
  BY <1>3, Zenon

(* The sums of the groups add up to the sum of all. *)
Group(S, key, k) == {x \in S : key[x] = k}

(* A sum may be taken group by group. *)
LEMMA SumGroups ==
    ASSUME NEW f, NEW G, NEW key, NEW S, NEW K, IsFiniteSet(S), IsFiniteSet(K),
           \A x \in S : f[x] \in Int /\ key[x] \in K,
           \A k \in K : G[k] = SumFunctionOnSet(f, Group(S, key, k))
    PROVE  SumFunctionOnSet(G, K) = SumFunctionOnSet(f, S)
<1> DEFINE Of(t) == {x \in S : key[x] \in t}
<1> DEFINE Good == {t \in SUBSET K :
                       SumFunctionOnSet(G, t) = SumFunctionOnSet(f, Of(t))}
<1>1. {} \in Good
  <2>1. Of({}) = {}
    OBVIOUS
  <2>2. SumFunctionOnSet(G, {}) = SumFunctionOnSet(f, {})
    BY SumEmpty
  <2> HIDE DEF Of
  <2> QED
    BY <2>1, <2>2, Zenon
<1>2. ASSUME NEW t \in Good, NEW k \in K \ t PROVE t \cup {k} \in Good
  <2> DEFINE Mine == Group(S, key, k)
  <2>1. IsFiniteSet(t) /\ IsFiniteSet(Of(t)) /\ IsFiniteSet(Mine)
    BY FS_Subset DEF Group
  <2>2. Of(t \cup {k}) = Of(t) \cup Mine /\ Of(t) \cap Mine = {}
    BY DEF Group
  <2>3. \A x \in Of(t) \cup Mine : f[x] \in Int
    BY DEF Group
  <2>4. SumFunctionOnSet(G, t) = SumFunctionOnSet(f, Of(t))
    OBVIOUS
  <2>5. G[k] = SumFunctionOnSet(f, Mine)
    OBVIOUS
  <2>6. \A j \in K : G[j] \in Int
    <3>1. ASSUME NEW j \in K
          PROVE  SumFunctionOnSet(f, Group(S, key, j)) \in Int
      <4>1. IsFiniteSet(Group(S, key, j)) /\ Group(S, key, j) \subseteq S
        BY FS_Subset DEF Group
      <4> QED
        BY <4>1, SumInt
    <3> QED
      BY <3>1
  <2>7. SumFunctionOnSet(G, t \cup {k}) = G[k] + SumFunctionOnSet(G, t)
    BY <2>1, <2>6, SumAdd
  <2>8. t \cup {k} \in SUBSET K
    OBVIOUS
  <2> HIDE DEF Of, Mine
  <2>9. SumFunctionOnSet(f, Of(t) \cup Mine)
          = SumFunctionOnSet(f, Of(t)) + SumFunctionOnSet(f, Mine)
    BY <2>1, <2>2, <2>3, SumUnion
  <2>10. SumFunctionOnSet(f, Of(t)) \in Int /\ SumFunctionOnSet(f, Mine) \in Int
    <3>1. (\A x \in Of(t) : f[x] \in Int) /\ (\A x \in Mine : f[x] \in Int)
      BY <2>3
    <3> QED
      BY <2>1, <3>1, SumInt
  <2>11. SumFunctionOnSet(G, t \cup {k})
           = SumFunctionOnSet(f, Of(t)) + SumFunctionOnSet(f, Mine)
    BY <2>4, <2>5, <2>7, <2>10
  <2>12. SumFunctionOnSet(G, t \cup {k}) = SumFunctionOnSet(f, Of(t \cup {k}))
    BY <2>2, <2>9, <2>11, Zenon
  <2> QED
    BY <2>8, <2>12, Zenon
<1>3. K \in Good
  <2>1. Good \in SUBSET SUBSET K
    OBVIOUS
  <2> HIDE DEF Good
  <2> QED
    BY <1>1, <1>2, <2>1, SubsetInduction
<1>4. Of(K) = S
  OBVIOUS
<1> HIDE DEF Of
<1> QED
  BY <1>3, <1>4, Zenon

(* One element, and two. *)
LEMMA SumOfOne ==
    ASSUME NEW f, NEW x, f[x] \in Int
    PROVE  SumFunctionOnSet(f, {x}) = f[x]
<1>1. SumFunctionOnSet(f, {} \cup {x}) = f[x] + SumFunctionOnSet(f, {})
  BY FS_EmptySet, SumAdd
<1>2. {} \cup {x} = {x}
  OBVIOUS
<1>3. SumFunctionOnSet(f, {x}) = f[x] + SumFunctionOnSet(f, {})
  BY <1>1, <1>2, Zenon
<1> QED
  BY <1>3, SumEmpty

(* The sum over a pair. *)
LEMMA SumOfTwo ==
    ASSUME NEW f, NEW x, NEW y, x # y, f[x] \in Int, f[y] \in Int
    PROVE  SumFunctionOnSet(f, {x, y}) = f[x] + f[y]
<1>1. IsFiniteSet({y}) /\ x \notin {y} /\ \A z \in {y} : f[z] \in Int
  BY FS_Singleton
<1>2. SumFunctionOnSet(f, {y} \cup {x}) = f[x] + SumFunctionOnSet(f, {y})
  BY <1>1, SumAdd
<1>3. {y} \cup {x} = {x, y}
  OBVIOUS
<1> QED
  BY <1>2, <1>3, SumOfOne

(* Zeros may be left out. *)
LEMMA SumWithin ==
    ASSUME NEW f, NEW S, NEW T, IsFiniteSet(S), T \subseteq S,
           \A x \in T : f[x] \in Int, \A x \in S \ T : f[x] = 0
    PROVE  SumFunctionOnSet(f, S) = SumFunctionOnSet(f, T)
<1>1. IsFiniteSet(T) /\ IsFiniteSet(S \ T)
  BY FS_Subset
<1>2. SumFunctionOnSet(f, S \ T) = 0
  BY <1>1, SumOfZeros
<1>3. SumFunctionOnSet(f, T \cup (S \ T))
        = SumFunctionOnSet(f, T) + SumFunctionOnSet(f, S \ T)
  <2>1. T \cap (S \ T) = {} /\ \A x \in T \cup (S \ T) : f[x] \in Int
    OBVIOUS
  <2> QED
    BY <1>1, <2>1, SumUnion
<1>4. T \cup (S \ T) = S
  OBVIOUS
<1>5. SumFunctionOnSet(f, S)
        = SumFunctionOnSet(f, T) + SumFunctionOnSet(f, S \ T)
  BY <1>3, <1>4, Zenon
<1>6. SumFunctionOnSet(f, T) \in Int
  BY <1>1, SumInt
<1> QED
  BY <1>2, <1>5, <1>6

(* Multiplication distributes over addition. *)
LEMMA Distributes ==
    ASSUME NEW a \in Int, NEW b \in Int, NEW c \in Int
    PROVE  c * (a + b) = c * a + c * b /\ c * a \in Int
  OBVIOUS

(* A common factor. *)
LEMMA SumScaled ==
    ASSUME NEW f, NEW h, NEW S, NEW c \in Int, IsFiniteSet(S),
           \A x \in S : f[x] \in Int /\ h[x] = c * f[x]
    PROVE  SumFunctionOnSet(h, S) = c * SumFunctionOnSet(f, S)
<1> DEFINE Good == {s \in SUBSET S :
                SumFunctionOnSet(h, s) = c * SumFunctionOnSet(f, s)}
<1>1. {} \in Good
  <2>1. SumFunctionOnSet(h, {}) = c * SumFunctionOnSet(f, {})
    BY SumEmpty
  <2> QED
    BY <2>1
<1>2. ASSUME NEW s \in Good, NEW x \in S \ s PROVE s \cup {x} \in Good
  <2>1. IsFiniteSet(s) /\ \A y \in s \cup {x} : f[y] \in Int
    BY FS_Subset
  <2>2. \A y \in s \cup {x} : h[y] \in Int
    BY <2>1, Distributes
  <2>3. /\ SumFunctionOnSet(f, s \cup {x}) = f[x] + SumFunctionOnSet(f, s)
        /\ SumFunctionOnSet(h, s \cup {x}) = h[x] + SumFunctionOnSet(h, s)
    BY <2>1, <2>2, SumAdd
  <2>4. SumFunctionOnSet(f, s) \in Int /\ f[x] \in Int
    BY <2>1, SumInt
  <2>5. SumFunctionOnSet(h, s) = c * SumFunctionOnSet(f, s) /\ h[x] = c * f[x]
    OBVIOUS
  <2>6. c * (f[x] + SumFunctionOnSet(f, s))
          = c * f[x] + c * SumFunctionOnSet(f, s)
    BY <2>4, Distributes
  <2>7. SumFunctionOnSet(h, s \cup {x}) = c * SumFunctionOnSet(f, s \cup {x})
    BY <2>3, <2>5, <2>6, Zenon
  <2> QED
    BY <2>7
<1>3. S \in Good
  <2>1. Good \in SUBSET SUBSET S
    OBVIOUS
  <2> HIDE DEF Good
  <2> QED
    BY <1>1, <1>2, <2>1, SubsetInduction
<1> QED
  BY <1>3

(* Terms of at most c on either side of zero. *)
LEMMA SumBounded ==
    ASSUME NEW f, NEW S, NEW c \in Nat, IsFiniteSet(S),
           \A x \in S : f[x] \in Int /\ -c <= f[x] /\ f[x] <= c
    PROVE  /\ SumFunctionOnSet(f, S) \in Int /\ c * Cardinality(S) \in Nat
           /\ -(c * Cardinality(S)) <= SumFunctionOnSet(f, S)
           /\ SumFunctionOnSet(f, S) <= c * Cardinality(S)
<1> DEFINE Within(s) == /\ -(c * Cardinality(s)) <= SumFunctionOnSet(f, s)
                        /\ SumFunctionOnSet(f, s) <= c * Cardinality(s)
           Good == {s \in SUBSET S : Within(s)}
<1>1. {} \in Good
  BY SumEmpty, FS_EmptySet
<1>2. ASSUME NEW s \in Good, NEW x \in S \ s PROVE s \cup {x} \in Good
  <2>1. /\ IsFiniteSet(s) /\ Cardinality(s) \in Nat
        /\ Cardinality(s \cup {x}) = Cardinality(s) + 1
    BY <1>2, FS_Subset, FS_CardinalityType, FS_AddElement
  <2>2. SumFunctionOnSet(f, s \cup {x}) = f[x] + SumFunctionOnSet(f, s)
    BY <1>2, <2>1, SumAdd
  <2>3. SumFunctionOnSet(f, s) \in Int
    BY <1>2, <2>1, SumInt
  <2>4. /\ c * (Cardinality(s) + 1) = c * Cardinality(s) + c
        /\ c * Cardinality(s) \in Int
    <3>1. /\ c * (Cardinality(s) + 1) = c * Cardinality(s) + c * 1
          /\ c * Cardinality(s) \in Int
      <4>1. Cardinality(s) \in Int /\ 1 \in Int /\ c \in Int
        BY <2>1
      <4> QED
        BY <4>1, Distributes
    <3>2. c * 1 = c
      OBVIOUS
    <3> QED
      BY <3>1, <3>2
  <2>5. Within(s) /\ f[x] \in Int /\ -c <= f[x] /\ f[x] <= c
    BY <1>2
  <2>6. Within(s \cup {x})
    BY <2>1, <2>2, <2>3, <2>4, <2>5
  <2> HIDE DEF Within
  <2> QED
    BY <1>2, <2>6
<1>3. S \in Good
  <2> HIDE DEF Good
  <2> QED
    BY <1>1, <1>2, SubsetInduction DEF Good
<1>4. Cardinality(S) \in Nat
  BY FS_CardinalityType
<1> QED
  BY <1>3, <1>4, SumInt
=============================================================================
