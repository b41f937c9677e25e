--------------------------- MODULE EventBusProofs ---------------------------
(***************************************************************************)
(* Proofs about EventBus, for any events, replicas, processes, batch size  *)
(* and bounds: while the broker answers in time nothing that is marked     *)
(* published is missing from the partition, every further copy of a record *)
(* costs a fault of a replica, and the two halves together implement       *)
(* EventDelivery.  What ConsumerGroupProofs shows of a group whose         *)
(* partition anybody may write is used here of the group that reads what   *)
(* the outbox writes.                                                      *)
(***************************************************************************)
EXTENDS EventBus, FiniteSetTheorems, TLAPS

Group == INSTANCE ConsumerGroupProofs WITH MaxLog <- 0

Committed == {e \in Events : outbox[e] # "none"}

Elements(s) == Producing!Elements(s)

(* What a replica holds, and what is in the partition, is committed. *)
CommittedOnly ==
    /\ Elements(log) \subseteq Committed
    /\ \A p \in Publishers :
         Elements(batch[p]) \cup Elements(queue[p]) \subseteq Committed

(* After produce() a row of the batch is in the partition or in the queue  *)
(* of this replica, and the flush empties that queue before the row is     *)
(* marked: NeverMissed alone would allow another replica to hold it.       *)
Kept ==
    timely =>
        /\ \A e \in Events : outbox[e] = "published" => e \in Elements(log)
        /\ \A p \in Publishers :
             ppc[p] = "produced" =>
                 Elements(batch[p]) \subseteq Elements(log) \cup Elements(queue[p])

OutboxInv == Producing!TypeOK /\ CommittedOnly /\ Kept

BusInv == OutboxInv /\ Group!IInv

-----------------------------------------------------------------------------
(* The group of the composition is one that ConsumerGroupProofs is about. *)
LEMMA GroupAssumption ==
    Styles \subseteq Group!AllStyles /\ MaxTrouble \in Nat /\ 0 \in Nat
<1>1. Group!AllStyles = Consuming!AllStyles
  BY DEF Group!AllStyles, Consuming!AllStyles
<1> QED
  BY <1>1, BusAssumption

(* The invariant holds while nothing was written. *)
LEMMA InitBusInv == Init => BusInv
<1>1. SUFFICES ASSUME Init PROVE BusInv
  OBVIOUS
<1>2. OutboxInv
  BY <1>1, BusAssumption DEF Init, OutboxInv, Producing!Init,
     Producing!TypeOK, Producing!OutboxAssumption, CommittedOnly, Kept, Elements,
     Producing!Elements
<1>3. Group!Init
  BY <1>1 DEF Init, Consuming!Init, Group!Init
<1> QED
  BY <1>2, <1>3, GroupAssumption, Group!InitIInv DEF BusInv

-----------------------------------------------------------------------------
(* The replicas.  What is in the partition stays there, and what leaves a  *)
(* queue while the broker answers in time goes to the partition.           *)

(* One element more at the end of a sequence. *)
LEMMA ElementsOfAppend ==
    ASSUME NEW T, NEW s \in Seq(T), NEW x \in T
    PROVE  Elements(Append(s, x)) = Elements(s) \cup {x}
<1>1. /\ DOMAIN Append(s, x) = DOMAIN s \cup {Len(s) + 1}
      /\ Append(s, x)[Len(s) + 1] = x
      /\ \A n \in DOMAIN s : Append(s, x)[n] = s[n]
  OBVIOUS
<1> QED
  BY <1>1, Zenon DEF Elements, Producing!Elements

(* The elements behind the head of a sequence. *)
LEMMA ElementsOfTail ==
    ASSUME NEW T, NEW s \in Seq(T), s # <<>>
    PROVE  Elements(s) = {Head(s)} \cup Elements(Tail(s))
<1>1. /\ Len(s) \in Nat /\ DOMAIN s = 1..Len(s) /\ Len(s) >= 1
      /\ Head(s) = s[1]
  OBVIOUS
<1>2. /\ DOMAIN Tail(s) = 1..Len(s) - 1
      /\ \A m \in 1..Len(s) - 1 : Tail(s)[m] = s[m + 1]
  OBVIOUS
<1>3. Elements(Tail(s)) \subseteq Elements(s)
  BY <1>1, <1>2 DEF Elements, Producing!Elements
<1>4. Head(s) \in Elements(s)
  BY <1>1 DEF Elements, Producing!Elements
<1>5. ASSUME NEW x \in Elements(s), x # Head(s) PROVE x \in Elements(Tail(s))
  <2>1. PICK n \in 1..Len(s) : x = s[n]
    BY <1>1 DEF Elements, Producing!Elements
  <2>2. n - 1 \in 1..Len(s) - 1 /\ Tail(s)[n - 1] = x
    BY <1>1, <1>2, <1>5, <2>1
  <2> QED
    BY <1>2, <2>2 DEF Elements, Producing!Elements
<1> QED
  BY <1>3, <1>4, <1>5

(* The elements of two sequences in a row. *)
LEMMA ElementsOfConcat ==
    ASSUME NEW T, NEW s \in Seq(T), NEW t \in Seq(T)
    PROVE  Elements(s \o t) = Elements(s) \cup Elements(t)
<1>1. \A n \in DOMAIN (s \o t) :
          (s \o t)[n] \in Elements(s) \cup Elements(t)
  BY DEF Elements, Producing!Elements
<1>2. \A n \in DOMAIN s : n \in DOMAIN (s \o t) /\ (s \o t)[n] = s[n]
  OBVIOUS
<1>3. \A n \in DOMAIN t : /\ Len(s) + n \in DOMAIN (s \o t)
                          /\ (s \o t)[Len(s) + n] = t[n]
  OBVIOUS
<1>4. Elements(s \o t) \subseteq Elements(s) \cup Elements(t)
  BY <1>1, Zenon DEF Elements, Producing!Elements
<1>5. Elements(s) \subseteq Elements(s \o t)
  BY <1>2, Zenon DEF Elements, Producing!Elements
<1>6. Elements(t) \subseteq Elements(s \o t)
  BY <1>3, Zenon DEF Elements, Producing!Elements
<1> QED
  BY <1>4, <1>5, <1>6

(* A prefix has no element of its own. *)
LEMMA ElementsOfPrefix ==
    ASSUME NEW T, NEW s \in Seq(T), NEW n \in 0..Len(s) - 1
    PROVE  SubSeq(s, 1, n) \in Seq(T)
           /\ Elements(SubSeq(s, 1, n)) \subseteq Elements(s)
  BY DEF Elements, Producing!Elements

(* A publisher fetches pending rows only. *)
LEMMA RowsTaken ==
    ASSUME Producing!TypeOK, NEW p \in Publishers, Producing!Fetch(p)
    PROVE  \E rows \in Seq(Events) :
             /\ batch' = [batch EXCEPT ![p] = rows]
             /\ \A n \in DOMAIN rows : outbox[rows[n]] = "pending"
<1>1. PICK rows \in Producing!Oldest(BatchSize, Producing!Available) :
           batch' = [batch EXCEPT ![p] = rows]
  BY DEF Producing!Fetch
<1>2. PICK k \in 1..BatchSize : rows \in [1..k -> Producing!Available]
  BY <1>1 DEF Producing!Oldest
<1>3. k \in Nat
  BY <1>2, BusAssumption DEF Producing!OutboxAssumption
<1>4. \A e \in Producing!Available : e \in Events /\ outbox[e] = "pending"
  BY DEF Producing!Available
<1>5. rows \in Seq(Events) /\ DOMAIN rows = 1..k
  BY <1>2, <1>3, <1>4
<1> QED
  BY <1>1, <1>2, <1>4, <1>5

(* The outbox keeps its types. *)
LEMMA OutboxType == Producing!TypeOK /\ Producing!Next => Producing!TypeOK'
<1>1. SUFFICES ASSUME Producing!TypeOK, Producing!Next
               PROVE  Producing!TypeOK'
  OBVIOUS
<1> USE <1>1 DEF Producing!TypeOK
<1>2. ASSUME NEW e \in Events, Producing!Emit(e) PROVE Producing!TypeOK'
  BY <1>2 DEF Producing!Emit
<1>3. ASSUME NEW p \in Publishers, Producing!Fetch(p) PROVE Producing!TypeOK'
  <2>1. batch' \in [Publishers -> Seq(Events)]
    BY <1>3, RowsTaken
  <2> QED
    BY <1>3, <2>1 DEF Producing!Fetch
<1>4. ASSUME NEW p \in Publishers, Producing!Produce(p)
      PROVE  Producing!TypeOK'
  BY <1>4 DEF Producing!Produce
<1>5. ASSUME NEW p \in Publishers, Producing!MarkPublished(p)
      PROVE  Producing!TypeOK'
  BY <1>5 DEF Producing!MarkPublished
<1>6. ASSUME NEW p \in Publishers,
             Producing!Deliver(p) \/ Producing!DeliverTwice(p)
             \/ Producing!Expire(p)
      PROVE  Producing!TypeOK'
  <2>1. /\ queue[p] # <<>>
        /\ Head(queue[p]) \in Events /\ Tail(queue[p]) \in Seq(Events)
    BY <1>6 DEF Producing!Deliver, Producing!DeliverTwice, Producing!Expire
  <2>2. log' \in Seq(Events) /\ queue' \in [Publishers -> Seq(Events)]
    <3>1. /\ log' = log \/ log' = Append(log, Head(queue[p]))
          /\ queue' = queue \/ queue' = [queue EXCEPT ![p] = Tail(@)]
      BY <1>6 DEF Producing!Deliver, Producing!DeliverTwice, Producing!Expire
    <3>2. Append(log, Head(queue[p])) \in Seq(Events)
      BY <2>1
    <3> QED
      BY <2>1, <3>1, <3>2
  <2>3. faults' \in 0..MaxFaults
    BY <1>6, BusAssumption DEF Producing!Deliver, Producing!DeliverTwice,
       Producing!Expire, Producing!AnotherFault, Producing!OutboxAssumption
  <2> QED
    BY <1>6, <2>2, <2>3 DEF Producing!Deliver, Producing!DeliverTwice,
       Producing!Expire
<1>7. ASSUME NEW p \in Publishers, Producing!BatchFails(p)
      PROVE  Producing!TypeOK'
  <2>1. queue' \in [Publishers -> Seq(Events)]
    <3>1. ASSUME NEW n \in 0..Len(batch[p]) - 1
          PROVE  SubSeq(batch[p], 1, n) \in Seq(Events)
      OBVIOUS
    <3>2. PICK s \in Seq(Events) : queue' = [queue EXCEPT ![p] = @ \o s]
                                   \/ UNCHANGED queue
      BY <1>7, <3>1 DEF Producing!BatchFails
    <3>3. queue[p] \o s \in Seq(Events)
      OBVIOUS
    <3> QED
      BY <3>2, <3>3
  <2>2. batch' = [batch EXCEPT ![p] = <<>>]
    BY <1>7 DEF Producing!BatchFails, Producing!Unlock
  <2>3. faults' \in 0..MaxFaults /\ UNCHANGED <<outbox, log, timely>>
        /\ ppc' = [ppc EXCEPT ![p] = "idle"]
    BY <1>7, BusAssumption DEF Producing!BatchFails,
       Producing!AnotherFault, Producing!OutboxAssumption
  <2> QED
    BY <2>1, <2>2, <2>3
<1>8. ASSUME NEW p \in Publishers, Producing!CrashPublisher(p)
      PROVE  Producing!TypeOK'
  BY <1>8, BusAssumption DEF Producing!CrashPublisher,
     Producing!AnotherFault, Producing!OutboxAssumption
<1> QED
  BY <1>2, <1>3, <1>4, <1>5, <1>6, <1>7, <1>8
     DEF Producing!Next, Producing!Publish

(* What was sent, or is about to be, was committed before. *)
LEMMA OutboxStep == OutboxInv /\ Producing!Next => OutboxInv'
<1>1. SUFFICES ASSUME OutboxInv, Producing!Next
               PROVE  CommittedOnly' /\ Kept'
  BY OutboxType DEF OutboxInv
<1>2. Producing!TypeOK /\ CommittedOnly /\ Kept
  BY <1>1 DEF OutboxInv
<1>3. ASSUME NEW e \in Events, Producing!Emit(e)
      PROVE  CommittedOnly' /\ Kept'
  <2>1. /\ UNCHANGED <<ppc, batch, queue, log, timely>>
        /\ \A x \in Events : outbox'[x] = IF x = e THEN "pending" ELSE outbox[x]
    BY <1>2, <1>3 DEF Producing!Emit, Producing!TypeOK
  <2> QED
    BY <1>2, <2>1 DEF CommittedOnly, Kept, Committed, Elements,
       Producing!Elements
<1>4. ASSUME NEW p \in Publishers, Producing!Fetch(p)
      PROVE  CommittedOnly' /\ Kept'
  <2>1. PICK rows \in Seq(Events) :
             /\ batch' = [batch EXCEPT ![p] = rows]
             /\ \A n \in DOMAIN rows : outbox[rows[n]] = "pending"
    BY <1>2, <1>4, RowsTaken
  <2>2. /\ UNCHANGED <<outbox, queue, log, timely>>
        /\ ppc' = [ppc EXCEPT ![p] = "fetched"]
    BY <1>4 DEF Producing!Fetch
  <2>3. Elements(rows) \subseteq Committed
    BY <2>1 DEF Elements, Producing!Elements, Committed
  <2>4. \A q \in Publishers : batch'[q] = IF q = p THEN rows ELSE batch[q]
    BY <1>2, <2>1 DEF Producing!TypeOK
  <2>5. CommittedOnly'
    BY <1>2, <2>2, <2>3, <2>4 DEF CommittedOnly, Committed, Elements
  <2> QED
    BY <1>2, <2>2, <2>4, <2>5 DEF Kept, Elements, Producing!TypeOK
<1>5. ASSUME NEW p \in Publishers, Producing!Produce(p)
      PROVE  CommittedOnly' /\ Kept'
  <2>1. /\ UNCHANGED <<outbox, batch, log, timely>>
        /\ \A q \in Publishers :
             /\ queue'[q] = IF q = p THEN queue[p] \o batch[p] ELSE queue[q]
             /\ ppc'[q] = IF q = p THEN "produced" ELSE ppc[q]
    BY <1>2, <1>5 DEF Producing!Produce, Producing!TypeOK
  <2>2. Elements(queue[p] \o batch[p]) = Elements(queue[p]) \cup Elements(batch[p])
    BY <1>2, ElementsOfConcat DEF Producing!TypeOK
  <2>3. CommittedOnly'
    BY <1>2, <2>1, <2>2 DEF CommittedOnly, Committed, Elements
  <2> QED
    BY <1>2, <2>1, <2>2, <2>3 DEF Kept, Elements
<1>6. ASSUME NEW p \in Publishers, Producing!MarkPublished(p)
      PROVE  CommittedOnly' /\ Kept'
  <2>1. /\ UNCHANGED <<queue, log, timely>>
        /\ \A e \in Events : outbox'[e] = IF e \in Elements(batch[p])
                                          THEN "published" ELSE outbox[e]
        /\ \A q \in Publishers :
             /\ batch'[q] = IF q = p THEN <<>> ELSE batch[q]
             /\ ppc'[q] = IF q = p THEN "idle" ELSE ppc[q]
    BY <1>2, <1>6 DEF Producing!MarkPublished, Producing!TypeOK, Elements
  <2>2. Elements(<<>>) = {}
    BY DEF Elements, Producing!Elements
  <2>3. timely => Elements(batch[p]) \subseteq Elements(log)
    BY <1>2, <1>6, <2>2 DEF Producing!MarkPublished, Producing!Flushed, Kept
  <2>4. CommittedOnly'
    BY <1>2, <2>1, <2>2 DEF CommittedOnly, Committed, Elements
  <2> QED
    BY <1>2, <2>1, <2>3, <2>4 DEF Kept, Elements
<1>7. ASSUME NEW p \in Publishers,
             Producing!Deliver(p) \/ Producing!DeliverTwice(p)
             \/ Producing!Expire(p)
      PROVE  CommittedOnly' /\ Kept'
  <2>1. /\ queue[p] # <<>> /\ UNCHANGED <<outbox, ppc, batch, timely>>
        /\ \/ log' = Append(log, Head(queue[p]))
           \/ ~timely /\ log' = log
        /\ \/ queue' = [queue EXCEPT ![p] = Tail(@)]
           \/ queue' = queue
    BY <1>7 DEF Producing!Deliver, Producing!DeliverTwice, Producing!Expire
  <2>2. queue[p] \in Seq(Events) /\ log \in Seq(Events) /\ Head(queue[p]) \in Events
    BY <1>2, <2>1 DEF Producing!TypeOK
  <2>3. Elements(queue[p]) = {Head(queue[p])} \cup Elements(Tail(queue[p]))
    BY <2>1, <2>2, ElementsOfTail
  <2>4. Elements(Append(log, Head(queue[p]))) = Elements(log) \cup {Head(queue[p])}
    BY <2>2, ElementsOfAppend
  <2>5. \A q \in Publishers :
          /\ Elements(queue'[q]) \subseteq Elements(queue[q])
          /\ Elements(queue[q]) \subseteq Elements(queue'[q]) \cup {Head(queue[p])}
    BY <1>2, <2>1, <2>3 DEF Producing!TypeOK
  <2>6. /\ Elements(log) \subseteq Elements(log')
        /\ Elements(log') \subseteq Elements(log) \cup {Head(queue[p])}
        /\ timely => Head(queue[p]) \in Elements(log')
    BY <2>1, <2>4
  <2>7. CommittedOnly'
    BY <1>2, <2>1, <2>3, <2>5, <2>6 DEF CommittedOnly, Committed, Elements
  <2> QED
    BY <1>2, <2>1, <2>5, <2>6, <2>7 DEF Kept, Elements
<1>8. ASSUME NEW p \in Publishers,
             Producing!BatchFails(p) \/ Producing!CrashPublisher(p)
      PROVE  CommittedOnly' /\ Kept'
  <2>1. /\ UNCHANGED <<outbox, log, timely>>
        /\ \A q \in Publishers :
             /\ batch'[q] = IF q = p THEN <<>> ELSE batch[q]
             /\ ppc'[q] = IF q = p THEN "idle" ELSE ppc[q]
    BY <1>2, <1>8 DEF Producing!BatchFails, Producing!CrashPublisher,
       Producing!Unlock, Producing!TypeOK
  <2>2. Elements(<<>>) = {}
    BY DEF Elements, Producing!Elements
  <2> DEFINE Bounded ==
        /\ \A q \in Publishers \ {p} : queue'[q] = queue[q]
        /\ Elements(queue'[p]) \subseteq Elements(queue[p]) \cup Elements(batch[p])
  <2>3. Bounded
    <3>1. CASE Producing!CrashPublisher(p)
      BY <1>2, <2>2, <3>1 DEF Producing!CrashPublisher, Producing!TypeOK
    <3>2. CASE Producing!BatchFails(p) /\ UNCHANGED queue
      BY <3>2
    <3>3. ASSUME NEW n \in 0..Len(batch[p]) - 1,
                 queue' = [queue EXCEPT ![p] = @ \o SubSeq(batch[p], 1, n)]
          PROVE  Bounded
      <4>1. batch[p] \in Seq(Events) /\ queue[p] \in Seq(Events)
        BY <1>2 DEF Producing!TypeOK
      <4>2. /\ SubSeq(batch[p], 1, n) \in Seq(Events)
            /\ Elements(SubSeq(batch[p], 1, n)) \subseteq Elements(batch[p])
        BY <3>3, <4>1, ElementsOfPrefix
      <4>3. Elements(queue[p] \o SubSeq(batch[p], 1, n))
            = Elements(queue[p]) \cup Elements(SubSeq(batch[p], 1, n))
        <5> HIDE DEF Bounded
        <5> DEFINE part == SubSeq(batch[p], 1, n)
        <5>1. part \in Seq(Events)
          BY <4>2
        <5> HIDE DEF part
        <5>2. Elements(queue[p] \o part) = Elements(queue[p]) \cup Elements(part)
          BY <4>1, <5>1, ElementsOfConcat
        <5> QED
          BY <5>2 DEF part
      <4> QED
        BY <1>2, <3>3, <4>2, <4>3 DEF Producing!TypeOK
    <3> QED
      BY <1>8, <3>1, <3>2, <3>3 DEF Producing!BatchFails
  <2>4. CommittedOnly'
    BY <1>2, <2>1, <2>2, <2>3 DEF CommittedOnly, Committed, Elements
  <2> QED
    BY <1>2, <2>1, <2>3, <2>4 DEF Kept, Elements
<1> QED
  BY <1>1, <1>3, <1>4, <1>5, <1>6, <1>7, <1>8
     DEF Producing!Next, Producing!Publish

-----------------------------------------------------------------------------
(* How often an event was written, and may still be. *)

Sum == INSTANCE Sums

Copies(s, e) == Cardinality({n \in DOMAIN s : s[n] = e})

Distinct(s) == \A i, j \in DOMAIN s : s[i] = s[j] => i = j

(* The copies in the queues of all replicas. *)
Underway(e) ==
    Sum!SumFunctionOnSet([p \in Publishers |-> Copies(queue[p], e)], Publishers)

(* produce() was called for the row, and the batch it was called for has   *)
(* not been given up: without a fault it is not called again.              *)
Sent(e) ==
    \/ outbox[e] = "published"
    \/ \E p \in Publishers : ppc[p] = "produced" /\ e \in Elements(batch[p])

Owed(e) == IF Sent(e) THEN 0 ELSE 1

(* FOR UPDATE SKIP LOCKED: a row is in one batch at most, once, and stays  *)
(* unpublished while it is.                                                *)
LocksHeld ==
    \A p \in Publishers :
        /\ ppc[p] = "idle" => batch[p] = <<>>
        /\ Distinct(batch[p])
        /\ \A e \in Elements(batch[p]) : outbox[e] = "pending"
        /\ \A q \in Publishers \ {p} :
             Elements(batch[p]) \cap Elements(batch[q]) = {}

(* What was written, will be written and may have to be written again. *)
CopiesPaidFor ==
    \A e \in Events : Copies(log, e) + Underway(e) + Owed(e) <= 1 + faults

CountInv == Producing!TypeOK /\ LocksHeld /\ CopiesPaidFor

(* Cardinality means the same in every module. *)
LEMMA SameCardinality ==
    /\ \A T : Producing!Cardinality(T) = Cardinality(T)
    /\ \A T : Producing!IsFiniteSet(T) = IsFiniteSet(T)
    /\ \A T : Sum!IsFiniteSet(T) = IsFiniteSet(T)
  BY DEF Producing!Cardinality, Cardinality, Producing!IsFiniteSet,
     Sum!IsFiniteSet, IsFiniteSet

(* The publisher has finitely many replicas. *)
LEMMA FinitelyManyReplicas == IsFiniteSet(Publishers)
  BY BusAssumption, SameCardinality DEF Producing!OutboxAssumption

(* A sequence has finitely many copies of anything. *)
LEMMA CopiesFinite ==
    ASSUME NEW T, NEW s \in Seq(T), NEW e
    PROVE  /\ IsFiniteSet({n \in DOMAIN s : s[n] = e})
           /\ Copies(s, e) \in Nat
<1>1. DOMAIN s = 1..Len(s) /\ Len(s) \in Nat
  OBVIOUS
<1>2. IsFiniteSet(1..Len(s))
  BY <1>1, FS_Interval
<1> QED
  BY <1>1, <1>2, FS_Subset, FS_CardinalityType DEF Copies

(* The empty sequence has none. *)
LEMMA CopiesOfEmpty == \A e : Copies(<<>>, e) = 0
<1>1. \A e : {n \in DOMAIN <<>> : <<>>[n] = e} = {}
  OBVIOUS
<1> QED
  BY <1>1, FS_EmptySet DEF Copies

(* One element more at the end. *)
LEMMA CopiesOfAppend ==
    ASSUME NEW T, NEW s \in Seq(T), NEW x \in T, NEW e
    PROVE  Copies(Append(s, x), e) = Copies(s, e) + (IF x = e THEN 1 ELSE 0)
<1> DEFINE In(t) == {n \in DOMAIN t : t[n] = e}
<1>1. /\ DOMAIN Append(s, x) = DOMAIN s \cup {Len(s) + 1}
      /\ Append(s, x)[Len(s) + 1] = x
      /\ \A n \in DOMAIN s : Append(s, x)[n] = s[n]
      /\ Len(s) + 1 \notin DOMAIN s
  OBVIOUS
<1>2. In(Append(s, x)) = IF x = e THEN In(s) \cup {Len(s) + 1} ELSE In(s)
  BY <1>1
<1>3. IsFiniteSet(In(s)) /\ Len(s) + 1 \notin In(s) /\ Cardinality(In(s)) \in Nat
  BY <1>1, CopiesFinite DEF Copies
<1>4. Cardinality(In(s) \cup {Len(s) + 1}) = Cardinality(In(s)) + 1
  BY <1>3, FS_AddElement
<1>5. Cardinality(In(Append(s, x)))
        = Cardinality(In(s)) + (IF x = e THEN 1 ELSE 0)
  <2> HIDE DEF In
  <2> QED
    BY <1>2, <1>3, <1>4
<1> QED
  BY <1>5 DEF Copies

(* A set of positions may be shifted. *)
LEMMA Shifted ==
    ASSUME NEW A \in SUBSET Int, IsFiniteSet(A), NEW k \in Int
    PROVE  /\ IsFiniteSet({n + k : n \in A})
           /\ Cardinality({n + k : n \in A}) = Cardinality(A)
<1> DEFINE f == [n \in A |-> n + k]
<1>1. f \in Bijection(A, {n + k : n \in A})
  BY DEF Bijection, Injection, IsInjective, Surjection
<1> QED
  BY <1>1, FS_Bijection DEF ExistsBijection

(* Two sequences in a row. *)
LEMMA CopiesOfConcat ==
    ASSUME NEW T, NEW s \in Seq(T), NEW t \in Seq(T), NEW e
    PROVE  Copies(s \o t, e) = Copies(s, e) + Copies(t, e)
<1> DEFINE In(u) == {n \in DOMAIN u : u[n] = e}
<1> DEFINE Later == {n + Len(s) : n \in In(t)}
<1>1. /\ Len(s) \in Nat /\ Len(t) \in Nat
      /\ DOMAIN s = 1..Len(s) /\ DOMAIN t = 1..Len(t)
      /\ DOMAIN (s \o t) = 1..(Len(s) + Len(t))
      /\ \A n \in 1..Len(s) : (s \o t)[n] = s[n]
      /\ \A n \in 1..Len(t) : (s \o t)[n + Len(s)] = t[n]
  OBVIOUS
<1>2. In(s \o t) = In(s) \cup Later
  <2>1. ASSUME NEW n \in In(s \o t) PROVE n \in In(s) \cup Later
    <3>1. CASE n <= Len(s)
      BY <1>1, <3>1
    <3>2. CASE n > Len(s)
      <4>1. n - Len(s) \in 1..Len(t) /\ n = (n - Len(s)) + Len(s)
        BY <1>1, <3>2
      <4>2. n - Len(s) \in In(t)
        BY <1>1, <4>1
      <4> QED
        BY <4>1, <4>2
    <3> QED
      BY <1>1, <3>1, <3>2
  <2>2. In(s) \subseteq In(s \o t)
    BY <1>1
  <2>3. Later \subseteq In(s \o t)
    BY <1>1
  <2> QED
    BY <2>1, <2>2, <2>3
<1>3. In(s) \cap Later = {}
  BY <1>1
<1>4. /\ IsFiniteSet(In(s)) /\ IsFiniteSet(In(t))
      /\ Cardinality(In(s)) \in Nat /\ Cardinality(In(t)) \in Nat
  BY CopiesFinite DEF Copies
<1>5. In(t) \in SUBSET Int
  BY <1>1
<1> HIDE DEF In
<1>6. IsFiniteSet(Later) /\ Cardinality(Later) = Cardinality(In(t))
  <2>1. Len(s) \in Int
    BY <1>1
  <2>2. /\ IsFiniteSet({n + Len(s) : n \in In(t)})
        /\ Cardinality({n + Len(s) : n \in In(t)}) = Cardinality(In(t))
    BY <1>4, <1>5, <2>1, Shifted, Zenon
  <2> QED
    BY <2>2
<1>7. Cardinality(In(s) \cup Later)
        = Cardinality(In(s)) + Cardinality(Later) - Cardinality({})
  BY <1>3, <1>4, <1>6, FS_Union
<1>8. Cardinality(In(s \o t)) = Cardinality(In(s)) + Cardinality(In(t))
  BY <1>2, <1>4, <1>6, <1>7, FS_EmptySet
<1> QED
  BY <1>8 DEF Copies, In

(* The head counts, and the rest does. *)
LEMMA CopiesOfTail ==
    ASSUME NEW T, NEW s \in Seq(T), s # <<>>, NEW e
    PROVE  Copies(s, e) = (IF Head(s) = e THEN 1 ELSE 0) + Copies(Tail(s), e)
<1>1. Head(s) \in T /\ Tail(s) \in Seq(T) /\ <<Head(s)>> \in Seq(T)
      /\ s = <<Head(s)>> \o Tail(s)
  OBVIOUS
<1>2. Copies(<<Head(s)>> \o Tail(s), e)
        = Copies(<<Head(s)>>, e) + Copies(Tail(s), e)
  BY <1>1, CopiesOfConcat
<1>3. {n \in DOMAIN <<Head(s)>> : <<Head(s)>>[n] = e}
        = IF Head(s) = e THEN {1} ELSE {}
  OBVIOUS
<1>4. Copies(<<Head(s)>>, e) = (IF Head(s) = e THEN 1 ELSE 0)
  BY <1>3, FS_Singleton, FS_EmptySet DEF Copies
<1> QED
  BY <1>1, <1>2, <1>4

(* A batch has every row once. *)
LEMMA CopiesOfDistinct ==
    ASSUME NEW T, NEW s \in Seq(T), Distinct(s), NEW e
    PROVE  Copies(s, e) = IF e \in Elements(s) THEN 1 ELSE 0
<1>1. CASE e \in Elements(s)
  <2>1. PICK n \in DOMAIN s : s[n] = e
    BY <1>1 DEF Elements, Producing!Elements
  <2>2. {m \in DOMAIN s : s[m] = e} = {n}
    BY <2>1 DEF Distinct
  <2> QED
    BY <1>1, <2>2, FS_Singleton DEF Copies
<1>2. CASE e \notin Elements(s)
  <2>1. {m \in DOMAIN s : s[m] = e} = {}
    BY <1>2 DEF Elements, Producing!Elements
  <2> QED
    BY <1>2, <2>1, FS_EmptySet DEF Copies
<1> QED
  BY <1>1, <1>2

(* A prefix of a batch has no row twice. *)
LEMMA PrefixDistinct ==
    ASSUME NEW T, NEW s \in Seq(T), Distinct(s), NEW n \in 0..Len(s) - 1
    PROVE  Distinct(SubSeq(s, 1, n))
  BY DEF Distinct

(* The sum changes by what one replica's queue does. *)
LEMMA UnderwayStep ==
    ASSUME Producing!TypeOK, Producing!TypeOK', NEW p \in Publishers, NEW e,
           \A q \in Publishers \ {p} : queue'[q] = queue[q]
    PROVE  /\ Underway(e) \in Nat /\ Underway(e)' \in Nat
           /\ Underway(e)' + Copies(queue[p], e)
                = Underway(e) + Copies(queue'[p], e)
<1> DEFINE f == [q \in Publishers |-> Copies(queue[q], e)]
           g == [q \in Publishers |-> Copies(queue'[q], e)]
           Rest == Publishers \ {p}
<1>1. /\ \A q \in Publishers : f[q] \in Nat /\ g[q] \in Nat
      /\ \A q \in Rest : f[q] = g[q]
      /\ f[p] = Copies(queue[p], e) /\ g[p] = Copies(queue'[p], e)
  BY CopiesFinite DEF Producing!TypeOK
<1>2. Underway(e) = Sum!SumFunctionOnSet(f, Publishers)
      /\ Underway(e)' = Sum!SumFunctionOnSet(g, Publishers)
  BY DEF Underway
<1>3. Sum!IsFiniteSet(Publishers) /\ Sum!IsFiniteSet(Rest)
  BY FinitelyManyReplicas, FS_Subset, SameCardinality
<1> HIDE DEF f, g
<1>4. /\ Sum!SumFunctionOnSet(f, Publishers)
           = f[p] + Sum!SumFunctionOnSet(f, Rest)
      /\ Sum!SumFunctionOnSet(g, Publishers)
           = g[p] + Sum!SumFunctionOnSet(g, Rest)
  <2>1. \A q \in Publishers : f[q] \in Int /\ g[q] \in Int
    BY <1>1
  <2> QED
    BY <1>3, <2>1, Sum!SumRemove
<1>5. /\ Sum!SumFunctionOnSet(f, Rest) = Sum!SumFunctionOnSet(g, Rest)
      /\ Sum!SumFunctionOnSet(f, Rest) \in Nat
  BY <1>1, <1>3, Sum!SumOfEqual, Sum!SumNat
<1> QED
  BY <1>1, <1>2, <1>4, <1>5

(* The rows of a batch are in order, so that they differ, and free. *)
LEMMA RowsAreFree ==
    ASSUME Producing!TypeOK, NEW p \in Publishers, Producing!Fetch(p)
    PROVE  \E rows \in Seq(Events) :
             /\ batch' = [batch EXCEPT ![p] = rows]
             /\ Distinct(rows)
             /\ \A e \in Elements(rows) : outbox[e] = "pending"
             /\ \A q \in Publishers : Elements(rows) \cap Elements(batch[q]) = {}
<1>1. PICK rows \in Producing!Oldest(BatchSize, Producing!Available) :
           batch' = [batch EXCEPT ![p] = rows]
  BY DEF Producing!Fetch
<1>2. PICK k \in 1..BatchSize : rows \in [1..k -> Producing!Available]
  BY <1>1 DEF Producing!Oldest
<1>3. k \in Nat
  BY <1>2, BusAssumption DEF Producing!OutboxAssumption
<1>4. \A e \in Producing!Available :
          /\ e \in Events /\ outbox[e] = "pending"
          /\ \A q \in Publishers : e \notin Elements(batch[q])
  BY DEF Producing!Available, Producing!Locked, Elements
<1>5. /\ rows \in Seq(Events) /\ DOMAIN rows = 1..k
      /\ Elements(rows) \subseteq Producing!Available
  BY <1>2, <1>3, <1>4 DEF Elements, Producing!Elements
<1>6. Distinct(rows)
  <2>1. \A i, j \in DOMAIN rows : i < j => rows[i] < rows[j]
    BY <1>1 DEF Producing!Oldest
  <2>2. \A i \in DOMAIN rows : rows[i] \in Nat
    BY <1>2, <1>4, <1>5, BusAssumption DEF Producing!OutboxAssumption
  <2> QED
    BY <1>3, <1>5, <2>1, <2>2 DEF Distinct
<1> QED
  BY <1>1, <1>4, <1>5, <1>6

(* The empty batch holds no lock. *)
LEMMA NothingInEmpty == Elements(<<>>) = {} /\ Distinct(<<>>)
  BY DEF Elements, Producing!Elements, Distinct

(* The locks are held from the SELECT to the end of the batch. *)
LEMMA LocksStep ==
    ASSUME Producing!TypeOK, LocksHeld, Producing!Next
    PROVE  LocksHeld'
<1>1. ASSUME NEW e \in Events, Producing!Emit(e) PROVE LocksHeld'
  <2>1. /\ UNCHANGED <<ppc, batch>>
        /\ \A x \in Events : outbox[x] = "pending" => outbox'[x] = "pending"
    BY <1>1 DEF Producing!Emit, Producing!TypeOK
  <2>2. \A p \in Publishers : Elements(batch[p]) \subseteq Events
    BY DEF Producing!TypeOK, Elements, Producing!Elements
  <2> QED
    BY <2>1, <2>2 DEF LocksHeld, Elements
<1>2. ASSUME NEW p \in Publishers, Producing!Fetch(p) PROVE LocksHeld'
  <2>1. PICK rows \in Seq(Events) :
             /\ batch' = [batch EXCEPT ![p] = rows]
             /\ Distinct(rows)
             /\ \A e \in Elements(rows) : outbox[e] = "pending"
             /\ \A q \in Publishers : Elements(rows) \cap Elements(batch[q]) = {}
    BY <1>2, RowsAreFree
  <2>2. /\ outbox' = outbox
        /\ \A q \in Publishers :
             /\ batch'[q] = IF q = p THEN rows ELSE batch[q]
             /\ ppc'[q] = IF q = p THEN "fetched" ELSE ppc[q]
    BY <1>2, <2>1 DEF Producing!Fetch, Producing!TypeOK
  <2> QED
    BY <2>1, <2>2 DEF LocksHeld, Elements
<1>3. ASSUME NEW p \in Publishers, Producing!Produce(p) PROVE LocksHeld'
  <2>1. /\ UNCHANGED <<outbox, batch>>
        /\ \A q \in Publishers : ppc'[q] = "idle" => ppc[q] = "idle"
    BY <1>3 DEF Producing!Produce, Producing!TypeOK
  <2> QED
    BY <2>1 DEF LocksHeld, Elements
<1>4. ASSUME NEW p \in Publishers,
             Producing!MarkPublished(p) \/ Producing!BatchFails(p)
             \/ Producing!CrashPublisher(p)
      PROVE  LocksHeld'
  <2>1. /\ \A e \in Events : outbox'[e] = outbox[e] \/ e \in Elements(batch[p])
        /\ \A q \in Publishers :
             /\ batch'[q] = IF q = p THEN <<>> ELSE batch[q]
             /\ ppc'[q] = IF q = p THEN "idle" ELSE ppc[q]
    BY <1>4 DEF Producing!MarkPublished, Producing!BatchFails,
       Producing!CrashPublisher, Producing!Unlock, Producing!TypeOK, Elements
  <2>2. \A q \in Publishers : Elements(batch[q]) \subseteq Events
    BY DEF Producing!TypeOK, Elements, Producing!Elements
  <2>3. \A q \in Publishers \ {p} : \A e \in Elements(batch[q]) :
            outbox'[e] = "pending"
    BY <2>1, <2>2 DEF LocksHeld
  <2> QED
    BY <2>1, <2>3, NothingInEmpty DEF LocksHeld, Elements
<1>5. ASSUME UNCHANGED <<outbox, ppc, batch>> PROVE LocksHeld'
  BY <1>5 DEF LocksHeld, Elements
<1> QED
  BY <1>1, <1>2, <1>3, <1>4, <1>5 DEF Producing!Next, Producing!Publish,
     Producing!Deliver, Producing!DeliverTwice, Producing!Expire

(* The count is one of natural numbers. *)
LEMMA CountsAreNatural ==
    ASSUME Producing!TypeOK, NEW e
    PROVE  /\ Copies(log, e) \in Nat /\ Underway(e) \in Nat
           /\ Owed(e) \in {0, 1} /\ faults \in Nat
<1> DEFINE f == [q \in Publishers |-> Copies(queue[q], e)]
<1>1. \A q \in Publishers : f[q] \in Nat
  BY CopiesFinite DEF Producing!TypeOK
<1>2. Sum!IsFiniteSet(Publishers)
  BY FinitelyManyReplicas, SameCardinality
<1>3. Underway(e) = Sum!SumFunctionOnSet(f, Publishers)
  BY DEF Underway
<1> HIDE DEF f
<1>4. Underway(e) \in Nat
  BY <1>1, <1>2, <1>3, Sum!SumNat
<1>5. log \in Seq(Events) /\ faults \in Nat
  BY BusAssumption DEF Producing!TypeOK, Producing!OutboxAssumption
<1> QED
  BY <1>4, <1>5, CopiesFinite DEF Owed

(* A step that moves no record: nothing that was sent becomes unsent. *)
LEMMA CountKept ==
    ASSUME Producing!TypeOK, Producing!TypeOK', CopiesPaidFor,
           UNCHANGED <<log, queue, faults>>,
           \A e \in Events : Sent(e) => Sent(e)'
    PROVE  CopiesPaidFor'
<1>1. SUFFICES ASSUME NEW e \in Events
               PROVE  Copies(log', e) + Underway(e)' + Owed(e)' <= 1 + faults'
  BY DEF CopiesPaidFor
<1>2. Underway(e)' = Underway(e) /\ log' = log /\ faults' = faults
  BY DEF Underway
<1>3. Owed(e)' <= Owed(e) /\ Owed(e)' \in {0, 1}
  BY DEF Owed
<1>4. Copies(log, e) + Underway(e) + Owed(e) <= 1 + faults
  BY DEF CopiesPaidFor
<1> QED
  BY <1>2, <1>3, <1>4, CountsAreNatural

(* A step of one replica pays for the copies it may make. *)
LEMMA CountMoved ==
    ASSUME Producing!TypeOK, Producing!TypeOK', CopiesPaidFor,
           NEW p \in Publishers,
           \A q \in Publishers \ {p} : queue'[q] = queue[q],
           \A e \in Events :
             Copies(log', e) + Copies(queue'[p], e) + Owed(e)' + faults
               <= Copies(log, e) + Copies(queue[p], e) + Owed(e) + faults'
    PROVE  CopiesPaidFor'
<1>1. SUFFICES ASSUME NEW e \in Events
               PROVE  Copies(log', e) + Underway(e)' + Owed(e)' <= 1 + faults'
  BY DEF CopiesPaidFor
<1>2. /\ Underway(e) \in Nat /\ Underway(e)' \in Nat
      /\ Underway(e)' + Copies(queue[p], e) = Underway(e) + Copies(queue'[p], e)
  BY UnderwayStep
<1>3. /\ Copies(log, e) \in Nat /\ Copies(log', e) \in Nat
      /\ Copies(queue[p], e) \in Nat /\ Copies(queue'[p], e) \in Nat
      /\ faults \in Nat /\ faults' \in Nat
  <2>1. /\ log \in Seq(Events) /\ log' \in Seq(Events)
        /\ queue[p] \in Seq(Events) /\ queue'[p] \in Seq(Events)
        /\ faults \in Nat /\ faults' \in Nat
    BY BusAssumption DEF Producing!TypeOK, Producing!OutboxAssumption
  <2> QED
    BY <2>1, CopiesFinite
<1>4. Owed(e) \in {0, 1} /\ Owed(e)' \in {0, 1}
  BY DEF Owed
<1>5. Copies(log, e) + Underway(e) + Owed(e) <= 1 + faults
  BY DEF CopiesPaidFor
<1>6. Copies(log', e) + Copies(queue'[p], e) + Owed(e)' + faults
        <= Copies(log, e) + Copies(queue[p], e) + Owed(e) + faults'
  OBVIOUS
<1> QED
  BY <1>2, <1>3, <1>4, <1>5, <1>6

(* Every further copy is paid for by a fault. *)
LEMMA CountStep == CountInv /\ Producing!Next => CountInv'
<1>1. SUFFICES ASSUME CountInv, Producing!Next PROVE CopiesPaidFor'
  BY OutboxType, LocksStep DEF CountInv
<1>2. Producing!TypeOK /\ Producing!TypeOK' /\ LocksHeld /\ CopiesPaidFor
  BY <1>1, OutboxType DEF CountInv
<1>3. ASSUME NEW p \in Publishers, NEW e \in Events
      PROVE  /\ Copies(log, e) \in Nat /\ faults \in Nat
             /\ Copies(queue[p], e) \in Nat /\ Copies(queue'[p], e) \in Nat
             /\ Owed(e) \in {0, 1} /\ Owed(e)' \in {0, 1}
  <2>1. /\ log \in Seq(Events) /\ faults \in Nat
        /\ queue[p] \in Seq(Events) /\ queue'[p] \in Seq(Events)
    BY <1>2, BusAssumption DEF Producing!TypeOK, Producing!OutboxAssumption
  <2> QED
    BY <2>1, CopiesFinite DEF Owed
<1>4. ASSUME NEW e \in Events, Producing!Emit(e) PROVE CopiesPaidFor'
  <2>1. \A x \in Events : Sent(x) => Sent(x)'
    BY <1>2, <1>4 DEF Producing!Emit, Producing!TypeOK, Sent, Elements
  <2> QED
    BY <1>2, <1>4, <2>1, CountKept DEF Producing!Emit
<1>5. ASSUME NEW p \in Publishers, Producing!Fetch(p) PROVE CopiesPaidFor'
  <2>1. \A q \in Publishers : ppc[q] = "produced" =>
            ppc'[q] = "produced" /\ batch'[q] = batch[q]
    BY <1>2, <1>5 DEF Producing!Fetch, Producing!TypeOK
  <2>2. \A x \in Events : Sent(x) => Sent(x)'
    BY <1>5, <2>1 DEF Producing!Fetch, Sent, Elements
  <2> QED
    BY <1>2, <1>5, <2>2, CountKept DEF Producing!Fetch
<1>6. ASSUME NEW p \in Publishers, Producing!MarkPublished(p)
      PROVE  CopiesPaidFor'
  <2>1. \A q \in Publishers \ {p} : ppc'[q] = ppc[q] /\ batch'[q] = batch[q]
    BY <1>2, <1>6 DEF Producing!MarkPublished, Producing!TypeOK
  <2>2. \A x \in Events : outbox'[x] = IF x \in Elements(batch[p])
                                       THEN "published" ELSE outbox[x]
    BY <1>6 DEF Producing!MarkPublished, Elements
  <2>3. \A x \in Events : Sent(x) => Sent(x)'
    BY <2>1, <2>2 DEF Sent, Elements
  <2> QED
    BY <1>2, <1>6, <2>3, CountKept DEF Producing!MarkPublished
<1>7. ASSUME NEW p \in Publishers, Producing!Produce(p) PROVE CopiesPaidFor'
  <2>1. /\ UNCHANGED <<outbox, batch, log, faults>>
        /\ ppc[p] = "fetched"
        /\ \A q \in Publishers :
             /\ queue'[q] = IF q = p THEN queue[p] \o batch[p] ELSE queue[q]
             /\ ppc'[q] = IF q = p THEN "produced" ELSE ppc[q]
    BY <1>2, <1>7 DEF Producing!Produce, Producing!TypeOK
  <2>2. ASSUME NEW e \in Events
        PROVE  Copies(queue'[p], e) + Owed(e)' <= Copies(queue[p], e) + Owed(e)
    <3>1. /\ batch[p] \in Seq(Events) /\ queue[p] \in Seq(Events)
          /\ queue'[p] = queue[p] \o batch[p] /\ Distinct(batch[p])
      BY <1>2, <2>1 DEF LocksHeld, Producing!TypeOK
    <3>2. Copies(queue'[p], e) = Copies(queue[p], e) + Copies(batch[p], e)
      BY <3>1, CopiesOfConcat
    <3>3. Copies(batch[p], e) = IF e \in Elements(batch[p]) THEN 1 ELSE 0
      BY <3>1, CopiesOfDistinct
    <3>4. /\ Copies(queue'[p], e) = Copies(queue[p], e) + Copies(batch[p], e)
          /\ Copies(batch[p], e) = IF e \in Elements(batch[p]) THEN 1 ELSE 0
          /\ Copies(queue[p], e) \in Nat
      BY <1>3, <3>2, <3>3
    <3>5. CASE e \in Elements(batch[p])
      <4>1. Sent(e)'
        BY <2>1, <3>5 DEF Sent, Elements
      <4>2. ~Sent(e)
        <5>1. outbox[e] # "published"
          BY <1>2, <3>5 DEF LocksHeld
        <5>2. ASSUME NEW q \in Publishers, e \in Elements(batch[q])
              PROVE  ppc[q] # "produced"
          BY <1>2, <2>1, <3>5, <5>2 DEF LocksHeld
        <5> QED
          BY <5>1, <5>2 DEF Sent
      <4> QED
        BY <3>4, <3>5, <4>1, <4>2 DEF Owed
    <3>6. CASE e \notin Elements(batch[p])
      <4>1. Sent(e) => Sent(e)'
        BY <2>1 DEF Sent, Elements
      <4> QED
        BY <3>4, <3>6, <4>1 DEF Owed
    <3> QED
      BY <3>5, <3>6
  <2>3. ASSUME NEW e \in Events
        PROVE  Copies(log', e) + Copies(queue'[p], e) + Owed(e)' + faults
                 <= Copies(log, e) + Copies(queue[p], e) + Owed(e) + faults'
    BY <1>3, <2>1, <2>2
  <2> QED
    BY <1>2, <2>1, <2>3, CountMoved
<1>8. ASSUME NEW p \in Publishers,
             Producing!Deliver(p) \/ Producing!DeliverTwice(p)
             \/ Producing!Expire(p)
      PROVE  CopiesPaidFor'
  <2>1. /\ queue[p] # <<>> /\ UNCHANGED <<outbox, ppc, batch>>
        /\ \/ /\ log' = Append(log, Head(queue[p])) /\ faults' = faults
              /\ queue' = [queue EXCEPT ![p] = Tail(@)]
           \/ /\ log' = Append(log, Head(queue[p])) /\ faults' = faults + 1
              /\ queue' = queue
           \/ /\ log' = log /\ faults' = faults + 1
              /\ queue' = [queue EXCEPT ![p] = Tail(@)]
    BY <1>8 DEF Producing!Deliver, Producing!DeliverTwice, Producing!Expire,
       Producing!AnotherFault
  <2>2. queue[p] \in Seq(Events) /\ log \in Seq(Events)
        /\ Head(queue[p]) \in Events /\ Tail(queue[p]) \in Seq(Events)
    BY <1>2, <2>1 DEF Producing!TypeOK
  <2>3. /\ \A q \in Publishers \ {p} : queue'[q] = queue[q]
        /\ queue'[p] = queue[p] \/ queue'[p] = Tail(queue[p])
        /\ faults' = faults => queue'[p] = Tail(queue[p])
    BY <1>2, <2>1 DEF Producing!TypeOK
  <2>4. ASSUME NEW e \in Events
        PROVE  Copies(log', e) + Copies(queue'[p], e) + Owed(e)' + faults
                 <= Copies(log, e) + Copies(queue[p], e) + Owed(e) + faults'
    <3> DEFINE h == IF Head(queue[p]) = e THEN 1 ELSE 0
    <3>1. /\ Copies(log, e) \in Nat /\ faults \in Nat
          /\ Copies(Tail(queue[p]), e) \in Nat /\ Copies(queue[p], e) \in Nat
      BY <1>3, <2>2, CopiesFinite
    <3>2. Owed(e)' = Owed(e) /\ Owed(e) \in {0, 1}
      BY <2>1 DEF Owed, Sent, Elements
    <3>3. Copies(Append(log, Head(queue[p])), e) = Copies(log, e) + h
      BY <2>2, CopiesOfAppend
    <3>4. Copies(queue[p], e) = h + Copies(Tail(queue[p]), e)
      BY <2>1, <2>2, CopiesOfTail
    <3>5. h \in {0, 1}
      OBVIOUS
    <3> HIDE DEF h
    <3>6. CASE /\ log' = Append(log, Head(queue[p])) /\ faults' = faults
               /\ queue'[p] = Tail(queue[p])
      BY <3>1, <3>2, <3>3, <3>4, <3>5, <3>6
    <3>7. CASE /\ log' = Append(log, Head(queue[p])) /\ faults' = faults + 1
               /\ queue'[p] = queue[p]
      BY <3>1, <3>2, <3>3, <3>5, <3>7
    <3>8. CASE /\ log' = log /\ faults' = faults + 1
               /\ queue'[p] = Tail(queue[p])
      BY <3>1, <3>2, <3>4, <3>5, <3>8
    <3>9. \/ /\ log' = Append(log, Head(queue[p])) /\ faults' = faults
             /\ queue'[p] = Tail(queue[p])
          \/ /\ log' = Append(log, Head(queue[p])) /\ faults' = faults + 1
             /\ queue'[p] = queue[p]
          \/ /\ log' = log /\ faults' = faults + 1
             /\ queue'[p] = Tail(queue[p])
      BY <1>2, <2>1 DEF Producing!TypeOK
    <3> QED
      BY <3>6, <3>7, <3>8, <3>9
  <2> QED
    BY <1>2, <2>3, <2>4, CountMoved
<1>9. ASSUME NEW p \in Publishers,
             Producing!BatchFails(p) \/ Producing!CrashPublisher(p)
      PROVE  CopiesPaidFor'
  <2>1. /\ UNCHANGED <<outbox, log>> /\ faults' = faults + 1
        /\ \A q \in Publishers \ {p} :
             queue'[q] = queue[q] /\ ppc'[q] = ppc[q] /\ batch'[q] = batch[q]
    BY <1>2, <1>9 DEF Producing!BatchFails, Producing!CrashPublisher,
       Producing!Unlock, Producing!AnotherFault, Producing!TypeOK
  <2>2. ASSUME NEW e \in Events
        PROVE  Copies(queue'[p], e) + Owed(e)' <= Copies(queue[p], e) + Owed(e) + 1
    <3>1. /\ Copies(queue[p], e) \in Nat
          /\ Owed(e) \in {0, 1} /\ Owed(e)' \in {0, 1}
      BY <1>3
    <3>2. CASE Producing!CrashPublisher(p)
      <4>1. queue'[p] = <<>>
        BY <1>2, <3>2 DEF Producing!CrashPublisher, Producing!TypeOK
      <4> QED
        BY <3>1, <4>1, CopiesOfEmpty
    <3>3. CASE Producing!BatchFails(p) /\ UNCHANGED queue
      BY <3>1, <3>3
    <3>4. ASSUME NEW n \in 0..Len(batch[p]) - 1, ppc[p] = "fetched",
                 queue' = [queue EXCEPT ![p] = @ \o SubSeq(batch[p], 1, n)]
          PROVE  Copies(queue'[p], e) + Owed(e)'
                   <= Copies(queue[p], e) + Owed(e) + 1
      <4> DEFINE rows == SubSeq(batch[p], 1, n)
      <4>1. batch[p] \in Seq(Events) /\ queue[p] \in Seq(Events)
            /\ queue'[p] = queue[p] \o rows
        BY <1>2, <3>4 DEF Producing!TypeOK
      <4>2. rows \in Seq(Events) /\ Distinct(rows)
        BY <1>2, <3>4, <4>1, ElementsOfPrefix, PrefixDistinct DEF LocksHeld
      <4> HIDE DEF rows
      <4>3. /\ Copies(queue'[p], e) = Copies(queue[p], e) + Copies(rows, e)
            /\ Copies(rows, e) \in {0, 1}
        BY <4>1, <4>2, CopiesOfConcat, CopiesOfDistinct
      <4>4. Sent(e) => Sent(e)'
        BY <2>1, <3>4 DEF Sent, Elements
      <4> QED
        BY <3>1, <4>3, <4>4 DEF Owed
    <3> QED
      BY <1>9, <3>2, <3>3, <3>4 DEF Producing!BatchFails
  <2>3. ASSUME NEW e \in Events
        PROVE  Copies(log', e) + Copies(queue'[p], e) + Owed(e)' + faults
                 <= Copies(log, e) + Copies(queue[p], e) + Owed(e) + faults'
    BY <1>3, <2>1, <2>2
  <2> QED
    BY <1>2, <2>1, <2>3, CountMoved
<1> QED
  BY <1>1, <1>4, <1>5, <1>6, <1>7, <1>8, <1>9
     DEF Producing!Next, Producing!Publish

(* Nothing is written, and every row may be written once. *)
LEMMA CountInit == Init => CountInv
<1>1. SUFFICES ASSUME Init PROVE CountInv
  OBVIOUS
<1>2. Producing!TypeOK
  BY <1>1, InitBusInv DEF BusInv, OutboxInv
<1>3. LocksHeld
  BY <1>1, NothingInEmpty DEF Init, Producing!Init, LocksHeld
<1>4. ASSUME NEW e \in Events
      PROVE  Copies(log, e) + Underway(e) + Owed(e) <= 1 + faults
  <2> DEFINE f == [q \in Publishers |-> Copies(queue[q], e)]
  <2>1. \A q \in Publishers : f[q] = 0
    BY <1>1, CopiesOfEmpty DEF Init, Producing!Init
  <2>2. Sum!IsFiniteSet(Publishers)
    BY FinitelyManyReplicas, SameCardinality
  <2>3. Underway(e) = Sum!SumFunctionOnSet(f, Publishers)
    BY DEF Underway
  <2> HIDE DEF f
  <2>4. Underway(e) = 0
    BY <2>1, <2>2, <2>3, Sum!SumOfZeros
  <2>5. Copies(log, e) = 0 /\ faults = 0
    BY <1>1, CopiesOfEmpty DEF Init, Producing!Init
  <2> QED
    BY <2>4, <2>5 DEF Owed
<1> QED
  BY <1>2, <1>3, <1>4 DEF CountInv, CopiesPaidFor

-----------------------------------------------------------------------------
(* The two halves together. *)

(* The broker appends one event at a time. *)
LEMMA PartitionGrows ==
    ASSUME Producing!TypeOK, Producing!Next
    PROVE  log' = log \/ \E e \in Events : log' = Append(log, e)
<1>1. ASSUME NEW p \in Publishers,
             Producing!Deliver(p) \/ Producing!DeliverTwice(p)
      PROVE  \E e \in Events : log' = Append(log, e)
  <2>1. queue[p] # <<>> /\ log' = Append(log, Head(queue[p]))
    BY <1>1 DEF Producing!Deliver, Producing!DeliverTwice
  <2>2. Head(queue[p]) \in Events
    BY <2>1 DEF Producing!TypeOK
  <2> QED
    BY <2>1, <2>2
<1> QED
  BY <1>1 DEF Producing!Next, Producing!Publish, Producing!Emit,
     Producing!Fetch, Producing!Produce, Producing!MarkPublished,
     Producing!Expire, Producing!BatchFails, Producing!CrashPublisher

(* The processes of the composition take the steps the group's proofs are  *)
(* about.                                                                  *)
LEMMA WorkOfGroup == Consuming!Work => Group!Work
  BY DEF Consuming!Work, Group!Work, Consuming!Consume, Group!Consume,
     Consuming!Poll, Group!Poll, Consuming!SkipDuplicate,
     Group!SkipDuplicate, Consuming!InsertMarker, Group!InsertMarker,
     Consuming!Handle, Group!Handle, Consuming!SendToDlq, Group!SendToDlq,
     Consuming!Ack, Group!Ack, Consuming!HandlerRaises, Group!HandlerRaises,
     Consuming!DlqFails, Group!DlqFails, Consuming!Crash, Group!Crash,
     Consuming!Rebalance, Group!Rebalance, Consuming!OffsetAfterPoll,
     Group!OffsetAfterPoll, Consuming!Goto, Group!Goto, Consuming!event,
     Group!event, Consuming!database, Group!database, Consuming!MarksFirst,
     Group!MarksFirst, Consuming!KeyIsFree, Group!KeyIsFree,
     Consuming!CommitMarker, Group!CommitMarker, Consuming!CommittedOffset,
     Group!CommittedOffset, Consuming!MayAck, Group!MayAck,
     Consuming!MoreTrouble, Group!MoreTrouble, Consuming!StartPosition,
     Group!StartPosition

(* Only a handler has an effect. *)
LEMMA HandlingOfGroup ==
    ASSUME Group!Work
    PROVE  UNCHANGED effects \/ \E c \in Consumers : Group!Handle(c)
  BY DEF Group!Work, Group!Consume, Group!Poll, Group!SkipDuplicate,
     Group!InsertMarker, Group!SendToDlq, Group!Ack, Group!HandlerRaises,
     Group!DlqFails, Group!Crash, Group!Rebalance, Group!database

(* The consumers do not write to the partition. *)
LEMMA WorkReadsOnly == Group!Work => log' = log
  BY DEF Group!Work, Group!Consume, Group!Poll, Group!SkipDuplicate,
     Group!InsertMarker, Group!Handle, Group!SendToDlq, Group!Ack,
     Group!HandlerRaises, Group!DlqFails, Group!Crash, Group!Rebalance

(* The invariant of the composition is preserved. *)
LEMMA BusStep == BusInv /\ [Next]_vars => BusInv'
<1>1. SUFFICES ASSUME BusInv, [Next]_vars PROVE BusInv'
  OBVIOUS
<1>2. OutboxInv /\ Group!IInv
  BY <1>1 DEF BusInv
<1>3. ASSUME Group!IInv, [Group!Step]_(Group!vars) PROVE Group!IInv'
  BY <1>3, GroupAssumption, Group!GroupStep
<1>4. ASSUME UNCHANGED <<producerVars, log>> PROVE OutboxInv'
  BY <1>2, <1>4 DEF OutboxInv, Producing!TypeOK, CommittedOnly, Committed,
     Kept, producerVars, Elements
<1>5. CASE Producing!Next /\ UNCHANGED consumerVars
  <2>1. OutboxInv'
    BY <1>2, <1>5, OutboxStep
  <2>2. [Group!Step]_(Group!vars)
    <3>1. log' = log \/ \E e \in Events : log' = Append(log, e)
      BY <1>2, <1>5, PartitionGrows DEF OutboxInv
    <3> QED
      BY <1>5, <3>1 DEF consumerVars, Group!Step, Group!Grow, Group!vars,
         Group!database
  <2> QED
    BY <1>2, <1>3, <2>1, <2>2 DEF BusInv
<1>6. CASE Consuming!Work /\ UNCHANGED producerVars
  <2>1. Group!Work
    BY <1>6, WorkOfGroup
  <2>2. log' = log
    BY <2>1, WorkReadsOnly
  <2> QED
    BY <1>2, <1>3, <1>4, <1>6, <2>1, <2>2 DEF BusInv, Group!Step
<1>7. CASE UNCHANGED vars
  BY <1>2, <1>3, <1>4, <1>7 DEF BusInv, vars, consumerVars, Group!vars,
     Group!database
<1> QED
  BY <1>1, <1>5, <1>6, <1>7 DEF Next

(* The consumers leave the replicas and the partition alone. *)
LEMMA BusCount == CountInv /\ [Next]_vars => CountInv'
<1>1. SUFFICES ASSUME CountInv, [Next]_vars PROVE CountInv'
  OBVIOUS
<1>2. ASSUME UNCHANGED <<producerVars, log>> PROVE CountInv'
  <2>1. Producing!TypeOK' /\ LocksHeld'
    BY <1>1, <1>2 DEF CountInv, Producing!TypeOK, LocksHeld, Elements,
       producerVars
  <2>2. \A e \in Events : Sent(e) => Sent(e)'
    BY <1>2 DEF Sent, Elements, producerVars
  <2> QED
    BY <1>1, <1>2, <2>1, <2>2, CountKept DEF CountInv, producerVars
<1>3. CASE Producing!Next
  BY <1>1, <1>3, CountStep
<1>4. CASE Consuming!Work /\ UNCHANGED producerVars
  BY <1>2, <1>4, WorkOfGroup, WorkReadsOnly
<1>5. CASE UNCHANGED vars
  BY <1>2, <1>5 DEF vars
<1> QED
  BY <1>1, <1>3, <1>4, <1>5 DEF Next

-----------------------------------------------------------------------------
(* The inductive invariant of the composition, for any number of events,   *)
(* replicas of the publisher and processes of the consuming service.       *)
THEOREM BusInvariant == Spec => []BusInv
  BY InitBusInv, BusStep, PTL DEF Spec

(* publisher.py:40-82: while the broker answers in time, a row that is     *)
(* marked published is in the partition or on its way there, whatever      *)
(* replicas crash, fail or send twice, and whatever the consumers do.      *)
THEOREM PublishedIsNotMissed == Spec => []NeverMissedInTime
<1>1. BusInv => NeverMissedInTime
  BY DEF BusInv, OutboxInv, Kept, NeverMissedInTime, Elements,
     Producing!NeverMissedInTime, Producing!NeverMissed
<1> QED
  BY BusInvariant, <1>1, PTL

(* publisher.py:40-82, 133: the replicas between them write a row to the   *)
(* partition once, and once more for every crash, error or lost answer.    *)
THEOREM CopiesArePaidFor == Spec => []CopiesCostFaults
<1>1. CountInv => CopiesCostFaults
  <2>1. SUFFICES ASSUME CountInv, NEW e \in Events
                 PROVE  Copies(log, e) <= 1 + faults
    BY SameCardinality DEF CopiesCostFaults, Producing!CopiesCostFaults, Copies
  <2>2. Copies(log, e) + Underway(e) + Owed(e) <= 1 + faults
    BY <2>1 DEF CountInv, CopiesPaidFor
  <2>3. /\ Copies(log, e) \in Nat /\ Underway(e) \in Nat
        /\ Owed(e) \in {0, 1} /\ faults \in Nat
    BY <2>1, CountsAreNatural DEF CountInv
  <2> QED
    BY <2>2, <2>3
<1> QED
  BY CountInit, BusCount, <1>1, PTL DEF Spec

(* The outbox and the consumer group implement EventDelivery: a handler    *)
(* works only for an event whose transaction has committed, and once.      *)
THEOREM DeliveryKept == Spec => KeepsDelivery
<1>1. Init => Delivery!Init
  BY DEF Init, Producing!Init, Consuming!Init, Delivery!Init
<1>2. ASSUME BusInv, [Next]_vars PROVE [Delivery!Next]_(Delivery!vars)
  <2>1. /\ Producing!TypeOK /\ CommittedOnly
        /\ Group!TypeOK /\ Group!MarkerInv
        /\ \A c \in Consumers : Group!PlaceInv(c)
    BY <1>2 DEF BusInv, OutboxInv, Group!IInv, Group!MarkingInv
  <2>2. CASE Producing!Next /\ UNCHANGED consumerVars
    <3>1. ASSUME NEW e \in Events, Producing!Emit(e)
          PROVE  Delivery!Commit(e)
      <4>1. effects' = effects
        BY <2>2 DEF consumerVars
      <4>2. \A x \in Events : outbox'[x] = IF x = e THEN "pending" ELSE outbox[x]
        BY <2>1, <3>1 DEF Producing!Emit, Producing!TypeOK
      <4> QED
        BY <4>1, <4>2 DEF Delivery!Commit
    <3>2. ASSUME NEW p \in Publishers, Producing!MarkPublished(p)
          PROVE  UNCHANGED Delivery!vars
      <4>1. effects' = effects
        BY <2>2 DEF consumerVars
      <4>2. \A e \in Events : outbox'[e] = IF e \in Elements(batch[p])
                                           THEN "published" ELSE outbox[e]
        BY <3>2 DEF Producing!MarkPublished, Elements
      <4>3. \A e \in Elements(batch[p]) : outbox[e] # "none"
        BY <2>1 DEF CommittedOnly, Committed
      <4> QED
        BY <4>1, <4>2, <4>3 DEF Delivery!vars
    <3>3. ASSUME UNCHANGED outbox PROVE UNCHANGED Delivery!vars
      BY <2>2, <3>3 DEF consumerVars, Delivery!vars
    <3> QED
      BY <2>2, <3>1, <3>2, <3>3 DEF Producing!Next, Producing!Publish,
         Producing!Fetch, Producing!Produce, Producing!Deliver,
         Producing!DeliverTwice, Producing!Expire, Producing!BatchFails,
         Producing!CrashPublisher, Delivery!Next
  <2>3. CASE Consuming!Work /\ UNCHANGED producerVars
    <3>1. outbox' = outbox
      BY <2>3 DEF producerVars
    <3>2. ASSUME NEW c \in Consumers, Group!Handle(c)
          PROVE  \E e \in Events : Delivery!Handle(e)
      <4>1. cpc[c] \in {"begun", "marked"} /\ cur[c] \in 1..Len(log)
        BY <2>1, <3>2 DEF Group!Handle, Group!PlaceInv
      <4>2. Group!event(c) \in Committed /\ Group!event(c) \in Events
        BY <2>1, <4>1 DEF CommittedOnly, Elements, Producing!Elements,
           Producing!TypeOK, Group!event, Committed
      <4>3. effects[Group!event(c)] = 0
        BY <2>1, <4>1, <4>2 DEF Group!PlaceInv, Group!MarkerInv
      <4>4. effects' = [effects EXCEPT ![Group!event(c)] = 1]
        BY <2>1, <3>2, <4>2, <4>3 DEF Group!Handle, Group!TypeOK
      <4> QED
        BY <3>1, <4>2, <4>3, <4>4 DEF Delivery!Handle, Committed
    <3>3. ASSUME UNCHANGED effects PROVE UNCHANGED Delivery!vars
      BY <3>1, <3>3 DEF Delivery!vars
    <3> QED
      BY <2>3, <3>2, <3>3, WorkOfGroup, HandlingOfGroup DEF Delivery!Next
  <2>4. CASE UNCHANGED vars
    BY <2>4 DEF vars, producerVars, consumerVars, Delivery!vars
  <2> QED
    BY <1>2, <2>2, <2>3, <2>4 DEF Next
<1> QED
  BY BusInvariant, <1>1, <1>2, PTL DEF Spec, KeepsDelivery, Delivery!Spec
=============================================================================
