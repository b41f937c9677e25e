------------------------ MODULE ConsumerGroupProofs ------------------------
(***************************************************************************)
(* Proofs about ConsumerGroup for any sets of events and processes, any    *)
(* style of the loop and any bounds: what the processed_events row         *)
(* guarantees, and what a committed offset stands for.                     *)
(***************************************************************************)
EXTENDS ConsumerGroup, TLAPS

(* A step, whatever it is that writes the partition: EventBus, where the   *)
(* outbox does, takes such steps, too.                                     *)
Grow(e) ==
    /\ log' = Append(log, e)
    /\ UNCHANGED <<style, offset, owner, next, cpc, cur, database, trouble>>

Step == Work \/ \E e \in Events : Grow(e)

(* What the place a process has reached says of its record, of the marker  *)
(* and of the work.                                                        *)
PlaceInv(c) ==
    /\ next[c] \in 1..Len(log) + 1
    /\ cpc[c] # "idle" => cur[c] \in 1..Len(log) /\ next[c] = cur[c] + 1
    /\ cpc[c] = "begun" => ~MarksFirst /\ event(c) \notin processed
    /\ cpc[c] = "marked" =>
          MarksFirst /\ event(c) \in processed /\ effects[event(c)] = 0

(* Two processes never have the same event in work. *)
HolderInv ==
    \A c, d \in Consumers :
        /\ c # d
        /\ cpc[c] \in {"begun", "marked"} /\ cpc[d] \in {"begun", "marked"}
        => event(c) # event(d)

MarkerInv ==
    \A e \in Events :
        /\ effects[e] \in {0, 1}
        /\ e \notin processed => effects[e] = 0
        /\ ~MarksFirst /\ e \in processed => effects[e] = 1

(* A process has finished with every record behind it but the one in hand. *)
InHand(c, n) == n = cur[c] /\ cpc[c] \in {"polled", "begun", "failed"}

ReadInv(c) ==
    ~MarksFirst =>
        \A n \in 1..next[c] - 1 : InHand(c, n) \/ Finished(log[n])

MarkingInv ==
    /\ TypeOK
    /\ \A c \in Consumers : PlaceInv(c)
    /\ HolderInv
    /\ MarkerInv

IInv ==
    /\ MarkingInv
    /\ \A c \in Consumers : ReadInv(c)
    /\ AckedIsFinished

-----------------------------------------------------------------------------
(* The inductive invariant holds before the first poll. *)
LEMMA InitIInv == Init => IInv
<1>1. SUFFICES ASSUME Init PROVE IInv
  OBVIOUS
<1>2. TypeOK
  BY <1>1, ConsumerAssumption DEF Init, TypeOK, PCs
<1>3. \A c \in Consumers : PlaceInv(c)
  BY <1>1 DEF Init, PlaceInv
<1>4. HolderInv /\ MarkerInv
  BY <1>1 DEF Init, HolderInv, MarkerInv
<1>5. \A c \in Consumers : ReadInv(c)
  BY <1>1 DEF Init, ReadInv
<1>6. AckedIsFinished
  BY <1>1 DEF Init, AckedIsFinished
<1> QED
  BY <1>2, <1>3, <1>4, <1>5, <1>6 DEF IInv, MarkingInv

(* The record at hand names an event. *)
LEMMA EventAtHand ==
    ASSUME TypeOK, NEW c \in Consumers, PlaceInv(c), cpc[c] # "idle"
    PROVE  event(c) \in Events
  BY DEF TypeOK, PlaceInv, event

(* The partition only grows, and what is finished stays finished. *)
LEMMA LogGrows ==
    ASSUME TypeOK, [Step]_vars
    PROVE  /\ Len(log') \in Nat /\ Len(log') >= Len(log)
           /\ \A n \in 1..Len(log) : log'[n] = log[n] /\ log[n] \in Events
<1>1. Len(log) \in Nat /\ \A n \in 1..Len(log) : log[n] \in Events
  BY DEF TypeOK
<1>2. CASE UNCHANGED log
  BY <1>1, <1>2
<1>3. ASSUME NEW e \in Events, Grow(e)
      PROVE  /\ Len(log') = Len(log) + 1
             /\ \A n \in 1..Len(log) : log'[n] = log[n]
  BY <1>3 DEF Grow, TypeOK
<1> QED
  BY <1>1, <1>2, <1>3 DEF Step, Work, Consume, vars, Poll, SkipDuplicate,
     InsertMarker, Handle, SendToDlq, Ack, HandlerRaises, DlqFails, Crash,
     Rebalance

-----------------------------------------------------------------------------
(* Type correctness.                                                       *)

(* Types are preserved, given where each consumer is. *)
LEMMA TypeStep == TypeOK /\ (\A c \in Consumers : PlaceInv(c)) /\ [Step]_vars
                      => TypeOK'
<1>1. SUFFICES ASSUME TypeOK, \A c \in Consumers : PlaceInv(c), [Step]_vars
               PROVE  TypeOK'
  OBVIOUS
<1> USE ConsumerAssumption DEF TypeOK, PCs, Goto, MoreTrouble
<1>2. ASSUME NEW e \in Events, Grow(e) PROVE TypeOK'
  <2>1. log' \in Seq(Events) /\ Len(log') = Len(log) + 1
    BY <1>1, <1>2 DEF Grow
  <2> QED
    BY <1>1, <1>2, <2>1 DEF Grow, database
<1>3. ASSUME NEW c \in Consumers,
             Poll(c) \/ SkipDuplicate(c) \/ Ack(c) \/ Crash(c) \/ Rebalance(c)
      PROVE  TypeOK'
  <2>1. style' = style /\ log' = log /\ UNCHANGED database
    BY <1>3 DEF Poll, SkipDuplicate, Ack, Crash, Rebalance
  <2>2. offset' \in 0..Len(log)
    BY <1>1, <1>3 DEF Poll, OffsetAfterPoll, SkipDuplicate, Ack,
       CommittedOffset, Crash, Rebalance, PlaceInv
  <2>3. owner' \in Consumers /\ next' \in [Consumers -> Nat \ {0}]
    <3>1. \E n \in Nat \ {0} : next' = next \/ next' = [next EXCEPT ![c] = n]
      <4>1. next[c] \in Nat \ {0} /\ offset \in Nat
        BY <1>1
      <4> HIDE DEF TypeOK
      <4> QED
        BY <1>3, <4>1 DEF Poll, SkipDuplicate, Ack, Crash, Rebalance,
           StartPosition
    <3>2. owner' \in Consumers
      BY <1>1, <1>3 DEF Poll, SkipDuplicate, Ack, Crash, Rebalance
    <3> QED
      BY <1>1, <3>1, <3>2
  <2>4. cpc' \in [Consumers -> PCs] /\ cur' \in [Consumers -> Nat]
    BY <1>1, <1>3 DEF Poll, SkipDuplicate, Ack, Crash, Rebalance
  <2>5. trouble' \in 0..MaxTrouble
    BY <1>1, <1>3 DEF Poll, SkipDuplicate, Ack, Crash, Rebalance
  <2> QED
    BY <1>1, <2>1, <2>2, <2>3, <2>4, <2>5 DEF database
<1>4. ASSUME NEW c \in Consumers,
             \/ InsertMarker(c) \/ Handle(c) \/ SendToDlq(c)
             \/ HandlerRaises(c) \/ DlqFails(c)
      PROVE  TypeOK'
  <2>1. cpc[c] # "idle"
    BY <1>4 DEF InsertMarker, Handle, SendToDlq, HandlerRaises, DlqFails
  <2>2. event(c) \in Events
    BY <1>1, <2>1, EventAtHand
  <2>3. UNCHANGED <<style, log, offset, owner, next, cur>>
    BY <1>4 DEF InsertMarker, Handle, SendToDlq, HandlerRaises, DlqFails
  <2>4. trouble' \in 0..MaxTrouble
    BY <1>1, <1>4 DEF InsertMarker, Handle, SendToDlq, HandlerRaises, DlqFails
  <2>5. \E label \in PCs : Goto(c, label)
    BY <1>4 DEF InsertMarker, Handle, SendToDlq, HandlerRaises, DlqFails
  <2>6. cpc' \in [Consumers -> PCs]
    BY <1>1, <2>5
  <2>7. /\ processed' \subseteq Events
        /\ dead' \subseteq Events /\ given_up' \subseteq Events
    BY <1>1, <1>4, <2>2 DEF InsertMarker, Handle, CommitMarker, SendToDlq,
       HandlerRaises, DlqFails
  <2>8. effects' \in [Events -> Nat]
    BY <1>1, <1>4, <2>2 DEF InsertMarker, Handle, SendToDlq, HandlerRaises,
       DlqFails
  <2> QED
    BY <1>1, <2>3, <2>4, <2>6, <2>7, <2>8
<1>5. CASE UNCHANGED vars
  BY <1>1, <1>5 DEF vars, database
<1> QED
  BY <1>1, <1>2, <1>3, <1>4, <1>5 DEF Step, Work, Consume

-----------------------------------------------------------------------------
(* The marker and the work.                                                *)

Quiet == UNCHANGED <<style, next, cpc, cur, processed, effects>>

(* A new record changes nothing for those who have one at hand. *)
LEMMA MarkingQuiet ==
    ASSUME MarkingInv, [Step]_vars, Quiet
    PROVE  (\A c \in Consumers : PlaceInv(c))' /\ HolderInv' /\ MarkerInv'
<1>1. /\ Len(log') \in Nat /\ Len(log') >= Len(log) /\ Len(log) \in Nat
      /\ \A n \in 1..Len(log) : log'[n] = log[n]
  BY LogGrows DEF MarkingInv, TypeOK
<1>2. \A c \in Consumers : cpc[c] # "idle" => event(c)' = event(c)
  BY <1>1 DEF MarkingInv, PlaceInv, event, Quiet
<1>3. (\A c \in Consumers : PlaceInv(c))'
  BY <1>1, <1>2 DEF MarkingInv, PlaceInv, Quiet, MarksFirst
<1>4. HolderInv'
  BY <1>2 DEF MarkingInv, HolderInv, Quiet
<1>5. MarkerInv'
  BY DEF MarkingInv, MarkerInv, Quiet, MarksFirst
<1> QED
  BY <1>3, <1>4, <1>5

(* c goes on without a marker in hand, and nothing is committed. *)
LEMMA MarkingRelease ==
    ASSUME MarkingInv, NEW c \in Consumers,
           \/ Poll(c) \/ SkipDuplicate(c) \/ Ack(c) \/ Crash(c) \/ Rebalance(c)
           \/ HandlerRaises(c) \/ SendToDlq(c) \/ DlqFails(c)
    PROVE  (\A d \in Consumers : PlaceInv(d))' /\ HolderInv' /\ MarkerInv'
<1>1. UNCHANGED <<style, log, processed, effects>>
  BY DEF Poll, SkipDuplicate, Ack, Crash, Rebalance, HandlerRaises, SendToDlq,
     DlqFails, database
<1>2. \A d \in Consumers \ {c} : /\ cpc'[d] = cpc[d] /\ cur'[d] = cur[d]
                                 /\ next'[d] = next[d]
  BY DEF MarkingInv, TypeOK, Goto, Poll, SkipDuplicate, Ack, Crash, Rebalance,
     HandlerRaises, SendToDlq, DlqFails
<1>3. \A d \in Consumers \ {c} : event(d)' = event(d)
  BY <1>1, <1>2 DEF event
<1>4. cpc'[c] \in {"idle", "polled", "failed", "ack"}
  BY DEF MarkingInv, TypeOK, Goto, Poll, SkipDuplicate, Ack, Crash, Rebalance,
     HandlerRaises, SendToDlq, DlqFails
<1>5. PlaceInv(c)'
  <2>1. next'[c] \in 1..Len(log') + 1
    BY <1>1 DEF MarkingInv, TypeOK, PlaceInv, Poll, SkipDuplicate, Ack, Crash,
       Rebalance, StartPosition, HandlerRaises, SendToDlq, DlqFails
  <2>2. cpc'[c] # "idle" => cur'[c] \in 1..Len(log') /\ next'[c] = cur'[c] + 1
    BY <1>1 DEF MarkingInv, TypeOK, PlaceInv, Goto, Poll, SkipDuplicate, Ack,
       Crash, Rebalance, HandlerRaises, SendToDlq, DlqFails
  <2> QED
    BY <1>4, <2>1, <2>2 DEF PlaceInv
<1>6. \A d \in Consumers \ {c} : PlaceInv(d)'
  BY <1>1, <1>2, <1>3 DEF MarkingInv, PlaceInv, MarksFirst
<1>7. HolderInv'
  BY <1>2, <1>3, <1>4 DEF MarkingInv, HolderInv
<1>8. MarkerInv'
  BY <1>1 DEF MarkingInv, MarkerInv, MarksFirst
<1> QED
  BY <1>5, <1>6, <1>7, <1>8

(* The unique key lets nobody else in. *)
LEMMA MarkingInsert ==
    ASSUME MarkingInv, NEW c \in Consumers, InsertMarker(c)
    PROVE  (\A d \in Consumers : PlaceInv(d))' /\ HolderInv' /\ MarkerInv'
<1>1. UNCHANGED <<style, log, next, cur, effects>>
  BY DEF InsertMarker
<1>2. \A d \in Consumers \ {c} : cpc'[d] = cpc[d]
  BY DEF MarkingInv, TypeOK, Goto, InsertMarker
<1>3. \A d \in Consumers : event(d)' = event(d)
  BY <1>1 DEF event
<1>4. event(c) \in Events /\ event(c) \notin processed
  BY EventAtHand DEF MarkingInv, InsertMarker, KeyIsFree
<1>5. /\ MarksFirst => cpc'[c] = "marked" /\ processed' = processed \cup {event(c)}
      /\ ~MarksFirst => cpc'[c] = "begun" /\ processed' = processed
  BY DEF MarkingInv, TypeOK, Goto, InsertMarker
<1>6. effects[event(c)] = 0
  BY <1>4 DEF MarkingInv, MarkerInv
<1>7. \A d \in Consumers \ {c} :
         cpc[d] \in {"begun", "marked"} => event(d) # event(c)
  BY <1>4 DEF MarkingInv, PlaceInv, InsertMarker, KeyIsFree
<1>8. PlaceInv(c)'
  BY <1>1, <1>3, <1>4, <1>5, <1>6
     DEF MarkingInv, PlaceInv, MarksFirst, InsertMarker
<1>9. \A d \in Consumers \ {c} : PlaceInv(d)'
  BY <1>1, <1>2, <1>3, <1>5, <1>7 DEF MarkingInv, PlaceInv, MarksFirst
<1>10. HolderInv'
  BY <1>2, <1>3, <1>7 DEF MarkingInv, HolderInv
<1>11. MarkerInv'
  BY <1>1, <1>4, <1>5, <1>6 DEF MarkingInv, MarkerInv, MarksFirst
<1> QED
  BY <1>8, <1>9, <1>10, <1>11

(* The work that commits is the first on its event. *)
LEMMA MarkingHandle ==
    ASSUME MarkingInv, NEW c \in Consumers, Handle(c)
    PROVE  (\A d \in Consumers : PlaceInv(d))' /\ HolderInv' /\ MarkerInv'
<1>1. /\ UNCHANGED <<style, log, next, cur>>
      /\ processed' = processed \cup {event(c)}
  BY DEF Handle, CommitMarker
<1>2. /\ \A d \in Consumers \ {c} : cpc'[d] = cpc[d]
      /\ cpc'[c] = "ack"
  BY DEF MarkingInv, TypeOK, Goto, Handle
<1>3. \A d \in Consumers : event(d)' = event(d)
  BY <1>1 DEF event
<1>4. event(c) \in Events
  BY EventAtHand DEF MarkingInv, Handle
<1>5. effects[event(c)] = 0
  BY <1>4 DEF MarkingInv, PlaceInv, MarkerInv, Handle
<1>6. /\ effects'[event(c)] = 1
      /\ \A e \in Events \ {event(c)} : effects'[e] = effects[e]
  BY <1>4, <1>5 DEF MarkingInv, TypeOK, Handle
<1>7. \A d \in Consumers \ {c} :
         cpc[d] \in {"begun", "marked"} => event(d) # event(c)
  BY DEF MarkingInv, HolderInv, Handle
<1>8. PlaceInv(c)'
  BY <1>1, <1>2 DEF MarkingInv, PlaceInv, Handle
<1>9. \A d \in Consumers \ {c} : PlaceInv(d)'
  <2>1. SUFFICES ASSUME NEW d \in Consumers \ {c} PROVE PlaceInv(d)'
    OBVIOUS
  <2>2. cpc[d] # "idle" => event(d) \in Events
    BY EventAtHand DEF MarkingInv
  <2> QED
    BY <1>1, <1>2, <1>3, <1>6, <1>7, <2>2 DEF MarkingInv, PlaceInv, MarksFirst
<1>10. HolderInv'
  BY <1>2, <1>3 DEF MarkingInv, HolderInv
<1>11. MarkerInv'
  BY <1>1, <1>4, <1>6 DEF MarkingInv, MarkerInv, MarksFirst
<1> QED
  BY <1>8, <1>9, <1>10, <1>11

(* Who holds and who marked an event: preserved. *)
LEMMA MarkingStep == MarkingInv /\ [Step]_vars => MarkingInv'
<1>1. SUFFICES ASSUME MarkingInv, [Step]_vars PROVE MarkingInv'
  OBVIOUS
<1>2. TypeOK'
  BY <1>1, TypeStep DEF MarkingInv
<1> DEFINE Rest == (\A c \in Consumers : PlaceInv(c))' /\ HolderInv' /\ MarkerInv'
<1>3. ASSUME NEW e \in Events, Grow(e) PROVE Rest
  <2>1. Quiet
    BY <1>3 DEF Grow, Quiet, database
  <2> QED
    BY <1>1, <2>1, MarkingQuiet
<1>4. ASSUME UNCHANGED vars PROVE Rest
  <2>1. Quiet
    BY <1>4 DEF vars, Quiet, database
  <2> QED
    BY <1>1, <2>1, MarkingQuiet
<1>5. ASSUME NEW c \in Consumers,
             \/ Poll(c) \/ SkipDuplicate(c) \/ Ack(c) \/ Crash(c)
             \/ Rebalance(c) \/ HandlerRaises(c) \/ SendToDlq(c) \/ DlqFails(c)
      PROVE  Rest
  BY <1>1, <1>5, MarkingRelease
<1>6. ASSUME NEW c \in Consumers, InsertMarker(c) PROVE Rest
  BY <1>1, <1>6, MarkingInsert
<1>7. ASSUME NEW c \in Consumers, Handle(c) PROVE Rest
  BY <1>1, <1>7, MarkingHandle
<1>8. Rest
  BY <1>1, <1>3, <1>4, <1>5, <1>6, <1>7 DEF Step, Work, Consume
<1> QED
  BY <1>2, <1>8 DEF MarkingInv

-----------------------------------------------------------------------------
(* The offset.                                                             *)

(* An event that is finished stays so. *)
LEMMA FinishedStays ==
    ASSUME MarkingInv, [Step]_vars, NEW n \in 1..Len(log), Finished(log[n])
    PROVE  Finished(log[n])'
<1>1. log'[n] = log[n] /\ log[n] \in Events
  BY LogGrows DEF MarkingInv
<1>2. dead \subseteq dead' /\ given_up \subseteq given_up'
  BY DEF Step, Work, Consume, vars, database, Grow, Poll, SkipDuplicate,
     InsertMarker, Handle, SendToDlq, Ack, HandlerRaises, DlqFails, Crash,
     Rebalance
<1>3. \A e \in Events : effects[e] > 0 => effects'[e] > 0
  <2>1. ASSUME NEW c \in Consumers, Handle(c)
        PROVE  \A e \in Events : effects[e] > 0 => effects'[e] > 0
    BY <2>1 DEF Handle, MarkingInv, TypeOK
  <2> QED
    BY <2>1 DEF Step, Work, Consume, vars, database, Grow, Poll,
       SkipDuplicate, InsertMarker, SendToDlq, Ack, HandlerRaises, DlqFails,
       Crash, Rebalance
<1> QED
  BY <1>1, <1>2, <1>3 DEF Finished

(* A process that takes no step: its record keeps its place. *)
LEMMA ReadElsewhere ==
    ASSUME MarkingInv, [Step]_vars, NEW c \in Consumers, ReadInv(c),
           style' = style, next'[c] = next[c], cur'[c] = cur[c],
           \/ cpc'[c] = cpc[c]
           \/ /\ cpc[c] \in {"polled", "begun", "failed"}
              /\ cpc'[c] \in {"polled", "begun", "failed"}
           \/ Finished(log[cur[c]])'
    PROVE  ReadInv(c)'
<1>1. SUFFICES ASSUME ~MarksFirst', NEW n \in 1..next'[c] - 1
               PROVE  InHand(c, n)' \/ Finished(log[n])'
  BY DEF ReadInv
<1>2. n \in 1..Len(log) /\ n \in 1..next[c] - 1
  BY DEF MarkingInv, TypeOK, PlaceInv
<1>3. InHand(c, n) \/ Finished(log[n])
  BY <1>1, <1>2 DEF ReadInv, MarksFirst
<1>4. Finished(log[n]) => Finished(log[n])'
  BY <1>2, FinishedStays
<1> QED
  BY <1>3, <1>4 DEF InHand

(* A poll, a crash or a rebalance reads on from the committed offset. *)
LEMMA ReadMove ==
    ASSUME IInv, [Step]_vars, NEW c \in Consumers, Poll(c) \/ Crash(c) \/ Rebalance(c)
    PROVE  ReadInv(c)'
<1>1. SUFFICES ASSUME ~MarksFirst', NEW n \in 1..next'[c] - 1
               PROVE  InHand(c, n)' \/ Finished(log[n])'
  BY DEF ReadInv
<1>2. ~MarksFirst /\ UNCHANGED <<log, offset>>
  BY <1>1 DEF MarksFirst, Poll, OffsetAfterPoll, Crash, Rebalance
<1>3. CASE Poll(c)
  <2>1. cpc'[c] = "polled" /\ cur'[c] = next[c] /\ next'[c] = next[c] + 1
    BY <1>3 DEF IInv, MarkingInv, TypeOK, Goto, Poll
  <2>2. next[c] \in 1..Len(log)
    BY <1>3 DEF IInv, MarkingInv, PlaceInv, TypeOK, Poll
  <2>3. CASE n = next[c]
    BY <2>1, <2>3 DEF InHand
  <2>4. CASE n \in 1..next[c] - 1
    <3>1. Finished(log[n])
      BY <1>2, <1>3, <2>4 DEF IInv, ReadInv, InHand, Poll
    <3>2. n \in 1..Len(log)
      BY <2>2, <2>4
    <3>3. MarkingInv
      BY DEF IInv
    <3> QED
      BY <3>1, <3>2, <3>3, FinishedStays
  <2> QED
    BY <2>1, <2>2, <2>3, <2>4
<1>4. CASE Crash(c) \/ Rebalance(c)
  <2>1. n \in 1..offset
    BY <1>4 DEF IInv, MarkingInv, TypeOK, Crash, Rebalance, StartPosition
  <2>2. n \in 1..Len(log) /\ Finished(log[n])
    BY <1>2, <2>1 DEF IInv, MarkingInv, TypeOK, AckedIsFinished, MarksFirst
  <2> QED
    BY <2>2, FinishedStays DEF IInv
<1> QED
  BY <1>3, <1>4

(* The steps of a delivery leave finished what was read before. *)
LEMMA ReadEnd ==
    ASSUME IInv, [Step]_vars, NEW c \in Consumers,
           \/ SkipDuplicate(c) \/ InsertMarker(c) \/ Handle(c) \/ Ack(c)
           \/ HandlerRaises(c) \/ SendToDlq(c) \/ DlqFails(c)
    PROVE  ReadInv(c)'
<1>1. SUFFICES ASSUME ~MarksFirst PROVE ReadInv(c)'
  BY DEF ReadInv, MarksFirst, SkipDuplicate, InsertMarker, Handle, Ack,
     HandlerRaises, SendToDlq, DlqFails
<1>2. UNCHANGED <<style, log, next, cur>>
  BY DEF SkipDuplicate, InsertMarker, Handle, Ack, HandlerRaises, SendToDlq,
     DlqFails
<1>3. event(c) \in Events /\ event(c) = log[cur[c]] /\ cur[c] \in 1..Len(log)
  BY EventAtHand DEF IInv, MarkingInv, PlaceInv, event, SkipDuplicate,
     InsertMarker, Handle, Ack, HandlerRaises, SendToDlq, DlqFails
<1>4. CASE SkipDuplicate(c)
  <2>1. Finished(log[cur[c]])
    BY <1>1, <1>3, <1>4 DEF IInv, MarkingInv, MarkerInv, Finished,
       SkipDuplicate
  <2>2. Finished(log[cur[c]])'
    BY <1>2, <1>3, <2>1, FinishedStays DEF IInv
  <2> QED
    BY <1>2, <2>2, ReadElsewhere DEF IInv
<1>5. CASE InsertMarker(c)
  <2>1. cpc[c] = "polled" /\ cpc'[c] = "begun"
    BY <1>1, <1>5 DEF IInv, MarkingInv, TypeOK, Goto, InsertMarker
  <2> QED
    BY <1>2, <2>1, ReadElsewhere DEF IInv
<1>6. CASE Handle(c)
  <2>1. effects'[event(c)] > 0
    BY <1>3, <1>6 DEF IInv, MarkingInv, TypeOK, Handle
  <2>2. Finished(log[cur[c]])'
    BY <1>2, <1>3, <2>1 DEF Finished
  <2> QED
    BY <1>2, <2>2, ReadElsewhere DEF IInv
<1>7. CASE Ack(c)
  <2>1. \A n \in 1..next[c] - 1 : Finished(log[n])
    BY <1>1, <1>7 DEF IInv, ReadInv, InHand, Ack
  <2>2. cur[c] \in 1..next[c] - 1
    BY <1>7 DEF IInv, MarkingInv, PlaceInv, Ack
  <2>3. Finished(log[cur[c]])'
    BY <1>2, <1>3, <2>1, <2>2, FinishedStays DEF IInv
  <2> QED
    BY <1>2, <2>3, ReadElsewhere DEF IInv
<1>8. CASE HandlerRaises(c)
  <2>1. \/ event(c) \in given_up'
        \/ cpc[c] \in {"polled", "begun"} /\ cpc'[c] = "failed"
    BY <1>1, <1>8 DEF IInv, MarkingInv, TypeOK, PlaceInv, Goto, HandlerRaises
  <2>2. CASE event(c) \in given_up'
    <3>1. Finished(log[cur[c]])'
      BY <1>2, <1>3, <2>2 DEF Finished
    <3> QED
      BY <1>2, <3>1, ReadElsewhere DEF IInv
  <2>3. CASE cpc[c] \in {"polled", "begun"} /\ cpc'[c] = "failed"
    BY <1>2, <2>3, ReadElsewhere DEF IInv
  <2> QED
    BY <2>1, <2>2, <2>3
<1>9. CASE SendToDlq(c) \/ DlqFails(c)
  <2>1. event(c) \in dead' \cup given_up'
    BY <1>9 DEF SendToDlq, DlqFails
  <2>2. Finished(log[cur[c]])'
    BY <1>2, <1>3, <2>1 DEF Finished
  <2> QED
    BY <1>2, <2>2, ReadElsewhere DEF IInv
<1> QED
  BY <1>4, <1>5, <1>6, <1>7, <1>8, <1>9

(* What a consumer has read past is finished: preserved. *)
LEMMA ReadStep == IInv /\ [Step]_vars => (\A c \in Consumers : ReadInv(c))'
<1>1. SUFFICES ASSUME IInv, [Step]_vars, NEW d \in Consumers PROVE ReadInv(d)'
  OBVIOUS
<1>2. ASSUME style' = style, next'[d] = next[d], cur'[d] = cur[d],
             cpc'[d] = cpc[d]
      PROVE  ReadInv(d)'
  BY <1>1, <1>2, ReadElsewhere DEF IInv
<1>3. CASE UNCHANGED vars \/ \E e \in Events : Grow(e)
  BY <1>2, <1>3 DEF vars, Grow
<1>4. ASSUME NEW c \in Consumers,
             \/ Consume(c) \/ HandlerRaises(c) \/ DlqFails(c)
             \/ Crash(c) \/ Rebalance(c)
      PROVE  ReadInv(d)'
  <2>1. CASE c = d
    BY <1>1, <1>4, <2>1, ReadMove, ReadEnd DEF Consume
  <2>2. CASE c # d
    <3>1. /\ style' = style /\ next'[d] = next[d] /\ cur'[d] = cur[d]
          /\ cpc'[d] = cpc[d]
      BY <1>1, <1>4, <2>2 DEF IInv, MarkingInv, TypeOK, Goto, Consume, Poll,
         SkipDuplicate, InsertMarker, Handle, SendToDlq, Ack, HandlerRaises,
         DlqFails, Crash, Rebalance
    <3> QED
      BY <1>2, <3>1
  <2> QED
    BY <2>1, <2>2
<1> QED
  BY <1>1, <1>3, <1>4 DEF Step, Work

(* What was acknowledged is finished: preserved. *)
LEMMA AckedStep == IInv /\ [Step]_vars => AckedIsFinished'
<1>1. SUFFICES ASSUME IInv, [Step]_vars, ~MarksFirst', NEW n \in 1..offset'
               PROVE  Finished(log[n])'
  BY DEF AckedIsFinished, MarksFirst
<1>2. ~MarksFirst
  BY <1>1 DEF MarksFirst, Step, Work, Consume, vars, Grow, Poll,
     SkipDuplicate, InsertMarker, Handle, SendToDlq, Ack, HandlerRaises,
     DlqFails, Crash, Rebalance
<1>3. n \in 1..Len(log) /\ Finished(log[n])
  <2>1. CASE offset' = offset
    BY <1>1, <1>2, <2>1 DEF IInv, MarkingInv, TypeOK, AckedIsFinished,
       MarksFirst
  <2>2. ASSUME NEW c \in Consumers, Ack(c), offset' = cur[c]
        PROVE  n \in 1..Len(log) /\ Finished(log[n])
    <3>1. cur[c] \in 1..Len(log) /\ next[c] = cur[c] + 1
      BY <1>1, <2>2 DEF IInv, MarkingInv, PlaceInv, Ack
    <3>2. n \in 1..Len(log) /\ n \in 1..next[c] - 1
      BY <1>1, <2>2, <3>1 DEF IInv, MarkingInv, TypeOK
    <3>3. ~InHand(c, n)
      BY <2>2 DEF InHand, Ack
    <3> QED
      BY <1>1, <1>2, <3>2, <3>3 DEF IInv, ReadInv
  <2> QED
    BY <1>1, <2>1, <2>2 DEF Step, Work, Consume, vars, Grow, Poll,
       OffsetAfterPoll, SkipDuplicate, InsertMarker, Handle, SendToDlq, Ack,
       CommittedOffset, HandlerRaises, DlqFails, Crash, Rebalance
<1> QED
  BY <1>1, <1>3, FinishedStays DEF IInv

-----------------------------------------------------------------------------
(* The inductive invariant is preserved. *)
LEMMA GroupStep == IInv /\ [Step]_vars => IInv'
  BY MarkingStep, ReadStep, AckedStep DEF IInv

(* The inductive invariant, for any number of processes and records. *)
THEOREM GroupInvariant == Spec => []IInv
<1>1. IInv /\ [Next]_vars => IInv'
  <2>1. Next => Step
    BY DEF Next, Step, Arrive, Grow
  <2> QED
    BY <2>1, GroupStep
<1> QED
  BY InitIInv, <1>1, PTL DEF Spec

(* consumer.py:101 and idempotency.py:29: whatever is delivered twice or   *)
(* finished by a process that lost the partition, work is committed once.  *)
THEOREM WorkIsDoneOnce == Spec => []HandledOnce
<1>1. IInv => HandledOnce
  <2>1. SUFFICES ASSUME IInv, NEW e \in Events PROVE effects[e] <= 1
    BY DEF HandledOnce
  <2>2. effects[e] = 0 \/ effects[e] = 1
    BY <2>1 DEF IInv, MarkingInv, MarkerInv
  <2> QED
    BY <2>2
<1> QED
  BY GroupInvariant, <1>1, PTL

(* At-least-once: an offset that is committed passes only records that were*)
(* handled or seen to fail.                                                *)
THEOREM OffsetsPassFinished == Spec => []AckedIsFinished
<1>1. IInv => AckedIsFinished
  BY DEF IInv
<1> QED
  BY GroupInvariant, <1>1, PTL

(* idempotency.py:29: a marker never outlives its handler's work, except in*)
(* the service that commits it first.                                      *)
THEOREM MarkersMeanWork == Spec => []MarkedIsHandled
<1>1. IInv => MarkedIsHandled
  BY DEF IInv, MarkingInv, TypeOK, MarkerInv, MarkedIsHandled, MarksFirst
<1> QED
  BY GroupInvariant, <1>1, PTL
=============================================================================
