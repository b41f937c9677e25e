--------------------------- MODULE ConsumerGroup ---------------------------
(***************************************************************************)
(* A consumer group of one service on one partition: the poll loop, the    *)
(* processed_events row that makes handling idempotent, the handler's      *)
(* transaction, the dead letters, the offset commit; and what Kafka does   *)
(* to it: rebalances, redelivery, records that are in the partition twice. *)
(*                                                                         *)
(* The services write this loop in four ways:                              *)
(*   "poll_loop"    shared KafkaConsumer (trade-ingestion, netting-engine):*)
(*                  an exception becomes a dead letter;                    *)
(*   "log_and_ack"  settlement-engine, collateral-manager,                 *)
(*                  liquidation-engine: an exception is logged;            *)
(*   "skip_unacked" margin-engine: the same, and a duplicate is skipped    *)
(*                  without an offset commit;                              *)
(*   "mark_first"   compliance-monitor: the processed_events row is        *)
(*                  committed on a connection of its own before the handler*)
(*                  runs.                                                  *)
(*                                                                         *)
(* A handler is one atomic effect here; Settlement and Netting look inside.*)
(***************************************************************************)
EXTENDS Naturals, Sequences

CONSTANTS
    Events,     \* event_ids
    Consumers,  \* processes in the group
    Styles,     \* which of the loops above the service may have
    MaxLog,     \* bound on the partition, when its producer is not modelled
    MaxTrouble  \* bound on the crashes, rebalances and errors of a behaviour

AllStyles == {"poll_loop", "log_and_ack", "skip_unacked", "mark_first"}

ASSUME ConsumerAssumption ==
    /\ Styles \subseteq AllStyles
    /\ MaxLog \in Nat
    /\ MaxTrouble \in Nat

VARIABLES
    style,      \* which loop this service runs
    log,        \* the partition
    offset,     \* the committed offset: records 1..offset are acknowledged
    owner,      \* the process the partition is assigned to
    next,       \* next[c]: the record c would poll next
    cpc,        \* cpc[c]: how far c is with its record
    cur,        \* cur[c]: that record
    processed,  \* processed_events of the service (committed)
    effects,    \* effects[e]: how often the handler's work was committed
    dead,       \* events in dead_letter_events
    given_up,   \* events whose failure left nothing but a log line
    trouble     \* faults so far

database == <<processed, effects, dead, given_up>>
vars == <<style, log, offset, owner, next, cpc, cur, database, trouble>>

(* "polled": the record is at hand.  "begun": the transaction has inserted *)
(* its processed_events row.  "marked": that row is committed, the handler *)
(* has not run ("mark_first").  "failed": the callback raised and the dead *)
(* letter is not written ("poll_loop").  "ack": only the offset is left.   *)
PCs == {"idle", "polled", "begun", "marked", "failed", "ack"}

TypeOK ==
    /\ style \in Styles
    /\ log \in Seq(Events)
    /\ offset \in 0..Len(log)
    /\ owner \in Consumers
    /\ next \in [Consumers -> Nat \ {0}]
    /\ cpc \in [Consumers -> PCs]
    /\ cur \in [Consumers -> Nat]
    /\ processed \subseteq Events
    /\ effects \in [Events -> Nat]
    /\ dead \subseteq Events /\ given_up \subseteq Events
    /\ trouble \in 0..MaxTrouble

Init ==
    /\ style \in Styles
    /\ log = <<>>
    /\ offset = 0
    /\ owner \in Consumers
    /\ next = [c \in Consumers |-> 1]
    /\ cpc = [c \in Consumers |-> "idle"]
    /\ cur = [c \in Consumers |-> 0]
    /\ processed = {}
    /\ effects = [e \in Events |-> 0]
    /\ dead = {} /\ given_up = {}
    /\ trouble = 0

event(c) == log[cur[c]]

Goto(c, label) == cpc' = [cpc EXCEPT ![c] = label]

-----------------------------------------------------------------------------
(* The producers, when Outbox does not stand for them: any event, in any   *)
(* order, any number of times.                                             *)
Arrive(e) ==
    /\ Len(log) < MaxLog
    /\ log' = Append(log, e)
    /\ UNCHANGED <<style, offset, owner, next, cpc, cur, database, trouble>>

(* consumer.poll; enable.auto.commit is False. *)
AutoCommit(c) == next[c]        \* mutant: the poll commits the offset
OffsetAfterPoll(c) == offset

Poll(c) ==
    /\ cpc[c] = "idle"
    /\ owner = c
    /\ next[c] <= Len(log)
    /\ offset' = OffsetAfterPoll(c)
    /\ cur' = [cur EXCEPT ![c] = next[c]]
    /\ next' = [next EXCEPT ![c] = @ + 1]
    /\ Goto(c, "polled")
    /\ UNCHANGED <<style, log, owner, database, trouble>>

(* process_if_new returns False. *)
SkipDuplicate(c) ==
    /\ cpc[c] = "polled"
    /\ event(c) \in processed
    /\ Goto(c, IF style = "skip_unacked" THEN "idle" ELSE "ack")
    /\ UNCHANGED <<style, log, offset, owner, next, cur, database, trouble>>

(* process_if_new inserts; it waits for another open transaction that has  *)
(* inserted the same key.                                                  *)
NoUniqueKey(c) == TRUE          \* mutant: processed_events has no key
KeyIsFree(c) ==
    /\ event(c) \notin processed
    /\ \A d \in Consumers \ {c} : ~(cpc[d] = "begun" /\ event(d) = event(c))

MarksFirst == style = "mark_first"

InsertMarker(c) ==
    /\ cpc[c] = "polled"
    /\ KeyIsFree(c)
    /\ IF MarksFirst
       THEN Goto(c, "marked") /\ processed' = processed \cup {event(c)}
       ELSE Goto(c, "begun") /\ UNCHANGED processed
    /\ UNCHANGED <<style, log, offset, owner, next, cur, effects, dead,
                   given_up, trouble>>

(* The handler's work commits, together with the marker. *)
MarkerLeftOut(c) ==             \* mutant: the marker is not in the commit
    UNCHANGED processed
CommitMarker(c) == processed' = processed \cup {event(c)}

Handle(c) ==
    /\ cpc[c] \in {"begun", "marked"}
    /\ CommitMarker(c)
    /\ effects' = [effects EXCEPT ![event(c)] = @ + 1]
    /\ Goto(c, "ack")
    /\ UNCHANGED <<style, log, offset, owner, next, cur, dead, given_up,
                   trouble>>

(* consumer.commit(message=msg): the broker ignores it from a process that *)
(* no longer owns the partition.                                           *)
MayAck(c) == owner = c
CommittedOffset(c) == IF MayAck(c) THEN cur[c] ELSE offset

Ack(c) ==
    /\ cpc[c] = "ack"
    /\ offset' = CommittedOffset(c)
    /\ Goto(c, "idle")
    /\ UNCHANGED <<style, log, owner, next, cur, database, trouble>>

-----------------------------------------------------------------------------
(* Failures of the handler.  Its transaction is rolled back.               *)

MoreTrouble == trouble < MaxTrouble /\ trouble' = trouble + 1

HandlerRaises(c) ==
    /\ MoreTrouble
    /\ cpc[c] \in {"polled", "begun", "marked"}
    /\ IF style = "poll_loop"
       THEN Goto(c, "failed") /\ UNCHANGED given_up
       ELSE Goto(c, "ack") /\ given_up' = given_up \cup {event(c)}
    /\ UNCHANGED <<style, log, offset, owner, next, cur, processed, effects,
                   dead>>

(* _send_to_dlq: a connection and a transaction of its own. *)
SendToDlq(c) ==
    /\ cpc[c] = "failed"
    /\ dead' = dead \cup {event(c)}
    /\ Goto(c, "ack")
    /\ UNCHANGED <<style, log, offset, owner, next, cur, processed, effects,
                   given_up, trouble>>

(* _send_to_dlq, except: logged, and the offset is committed all the same. *)
DlqFails(c) ==
    /\ MoreTrouble
    /\ cpc[c] = "failed"
    /\ given_up' = given_up \cup {event(c)}
    /\ Goto(c, "ack")
    /\ UNCHANGED <<style, log, offset, owner, next, cur, processed, effects,
                   dead>>

(* Where a process starts to read when the partition is assigned to it. *)
StartPosition == offset + 1

(* The process dies and rejoins the group with nothing in memory. *)
Crash(c) ==
    /\ MoreTrouble
    /\ Goto(c, "idle")
    /\ next' = [next EXCEPT ![c] = StartPosition]
    /\ UNCHANGED <<style, log, offset, owner, cur, database>>

(* The group coordinator moves the partition; c starts at the committed    *)
(* offset, and the previous owner still finishes the record it has.        *)
Rebalance(c) ==
    /\ MoreTrouble
    /\ owner # c
    /\ cpc[c] = "idle"
    /\ owner' = c
    /\ next' = [next EXCEPT ![c] = StartPosition]
    /\ UNCHANGED <<style, log, offset, cpc, cur, database>>

-----------------------------------------------------------------------------
Consume(c) ==
    \/ Poll(c) \/ SkipDuplicate(c) \/ InsertMarker(c) \/ Handle(c)
    \/ SendToDlq(c) \/ Ack(c)

Work ==
    \E c \in Consumers :
        Consume(c) \/ HandlerRaises(c) \/ DlqFails(c) \/ Crash(c)
        \/ Rebalance(c)

Next == Work \/ \E e \in Events : Arrive(e)

Spec == Init /\ [][Next]_vars

-----------------------------------------------------------------------------
(* Properties. *)

(* However records are duplicated and processes overlap or die, the work of*)
(* a handler is committed at most once per event_id.                       *)
HandledOnce == \A e \in Events : effects[e] <= 1

(* Where the marker shares the handler's commit, the offset never passes a *)
(* record whose event was neither handled nor seen to fail: a crash or a   *)
(* rebalance at any point loses nothing (README.md:133, at-least-once).    *)
Finished(e) == effects[e] > 0 \/ e \in dead \cup given_up

AckedIsFinished ==
    style # "mark_first" => \A n \in 1..offset : Finished(log[n])

(* A marker never outlives its handler's work, except in the service that  *)
(* commits it first.                                                       *)
MarkedIsHandled ==
    style # "mark_first" => \A e \in processed : effects[e] = 1

-----------------------------------------------------------------------------
(* Statements of the documentation that the code does not keep; each has a *)
(* configuration of its own under which TLC refutes it.                    *)

(* consumer.py:54: "On failure, inserts the event into the                 *)
(* dead_letter_events table, then commits."                                *)
FailureIsDeadLetter ==
    style = "poll_loop" =>
        \A n \in 1..offset : effects[log[n]] > 0 \/ log[n] \in dead

(* README.md:133: "At-least-once delivery + DLQ", of the one service that  *)
(* commits the marker before the handler runs.                             *)
MarkFirstIsFinished ==
    style = "mark_first" => \A n \in 1..offset : Finished(log[n])
=============================================================================
