------------------------------- MODULE Outbox -------------------------------
(***************************************************************************)
(* The transactional outbox: the outbox_events table that every service    *)
(* inserts into, the replicas of the outbox publisher that drain it, the   *)
(* queue of the Kafka client library inside each of them, and the partition*)
(* that the records end up in.                                             *)
(*                                                                         *)
(* A replica's queue is memory of the process.  produce() only appends to  *)
(* it; the library delivers from it in the background, also long after the *)
(* batch that filled it was committed, and flush() waits for it to drain   *)
(* but returns after 5 seconds in any case.                                *)
(***************************************************************************)
EXTENDS Naturals, Sequences, FiniteSets

CONSTANTS
    Events,         \* outbox rows, numbered in the order of created_at
    Publishers,     \* replicas of the service
    BatchSize,      \* settings.outbox_batch_size
    Timeliness,     \* may the broker answer in time (TRUE), or not (FALSE)?
    MaxFaults       \* bound on the crashes, errors and losses of a behaviour

(* What the constants are; EventBus assumes it. *)
OutboxAssumption ==
    /\ Events \subseteq Nat
    /\ IsFiniteSet(Publishers)
    /\ BatchSize \in Nat \ {0}
    /\ Timeliness \subseteq BOOLEAN
    /\ MaxFaults \in Nat

VARIABLES
    outbox,     \* outbox[e]: "none", "pending" (published_at IS NULL) or
                \* "published", as committed
    ppc,        \* ppc[p]: how far the replica is with its batch
    batch,      \* batch[p]: the rows it has locked, oldest first
    queue,      \* queue[p]: the client library's records not yet delivered
    log,        \* the partition
    timely,     \* does the broker take every record within 5 seconds?
    faults      \* faults so far

vars == <<outbox, ppc, batch, queue, log, timely, faults>>

Elements(s) == {s[n] : n \in DOMAIN s}

TypeOK ==
    /\ outbox \in [Events -> {"none", "pending", "published"}]
    /\ ppc \in [Publishers -> {"idle", "fetched", "produced"}]
    /\ batch \in [Publishers -> Seq(Events)]
    /\ queue \in [Publishers -> Seq(Events)]
    /\ log \in Seq(Events)
    /\ timely \in Timeliness
    /\ faults \in 0..MaxFaults

Init ==
    /\ outbox = [e \in Events |-> "none"]
    /\ ppc = [p \in Publishers |-> "idle"]
    /\ batch = [p \in Publishers |-> <<>>]
    /\ queue = [p \in Publishers |-> <<>>]
    /\ log = <<>>
    /\ timely \in Timeliness
    /\ faults = 0

-----------------------------------------------------------------------------
(* A service commits a business record and, with it, the outbox row.       *)
(* created_at is the start of that transaction, so rows may become visible *)
(* in another order than theirs.                                           *)
Emit(e) ==
    /\ outbox[e] = "none"
    /\ outbox' = [outbox EXCEPT ![e] = "pending"]
    /\ UNCHANGED <<ppc, batch, queue, log, timely, faults>>

(* fetch_unpublished_batch: ORDER BY created_at LIMIT n FOR UPDATE SKIP    *)
(* LOCKED, in a transaction that stays open until the batch ends.          *)
Locked == UNION {Elements(batch[p]) : p \in Publishers}

WithoutLocks ==                 \* mutant: no FOR UPDATE SKIP LOCKED
    {e \in Events : outbox[e] = "pending"}
Available == {e \in Events : outbox[e] = "pending"} \ Locked

(* The rows of S in their order, at most n of them: {one sequence}. *)
Oldest(n, S) ==
    {rows \in UNION {[1..k -> S] : k \in 1..n} :
        /\ \A i, j \in DOMAIN rows : i < j => rows[i] < rows[j]
        /\ \A e \in S \ Elements(rows) :
              Len(rows) = n /\ \A i \in DOMAIN rows : rows[i] < e}

Fetch(p) ==
    /\ ppc[p] = "idle"
    /\ Available # {}
    /\ \E rows \in Oldest(BatchSize, Available) :
          batch' = [batch EXCEPT ![p] = rows]
    /\ ppc' = [ppc EXCEPT ![p] = "fetched"]
    /\ UNCHANGED <<outbox, queue, log, timely, faults>>

(* publish_batch, up to the flush. *)
Produce(p) ==
    /\ ppc[p] = "fetched"
    /\ queue' = [queue EXCEPT ![p] = @ \o batch[p]]
    /\ ppc' = [ppc EXCEPT ![p] = "produced"]
    /\ UNCHANGED <<outbox, batch, log, timely, faults>>

(* flush() returns, mark_published, commit. *)
NoFlush(p) == TRUE              \* mutant: the flush is left out
Flushed(p) == queue[p] = <<>> \/ ~timely

MarkPublished(p) ==
    /\ ppc[p] = "produced"
    /\ Flushed(p)
    /\ outbox' = [e \in Events |-> IF e \in Elements(batch[p])
                                   THEN "published" ELSE outbox[e]]
    /\ batch' = [batch EXCEPT ![p] = <<>>]
    /\ ppc' = [ppc EXCEPT ![p] = "idle"]
    /\ UNCHANGED <<queue, log, timely, faults>>

-----------------------------------------------------------------------------
(* The client library. *)

Deliver(p) ==
    /\ queue[p] # <<>>
    /\ log' = Append(log, Head(queue[p]))
    /\ queue' = [queue EXCEPT ![p] = Tail(@)]
    /\ UNCHANGED <<outbox, ppc, batch, timely, faults>>

-----------------------------------------------------------------------------
(* Faults. *)

AnotherFault == faults < MaxFaults /\ faults' = faults + 1

(* The broker stores a record, its answer is lost, the library sends it    *)
(* again: the producer is not configured to be idempotent.                 *)
DeliverTwice(p) ==
    /\ AnotherFault
    /\ queue[p] # <<>>
    /\ log' = Append(log, Head(queue[p]))
    /\ UNCHANGED <<outbox, ppc, batch, queue, timely>>

(* The broker refuses a record, or it expires in the queue.  No delivery   *)
(* callback is registered, so nobody is told.                              *)
Expire(p) ==
    /\ ~timely
    /\ AnotherFault
    /\ queue[p] # <<>>
    /\ queue' = [queue EXCEPT ![p] = Tail(@)]
    /\ UNCHANGED <<outbox, ppc, batch, log, timely>>

(* _process_batch, except: a produce(), the UPDATE or the commit raises.   *)
(* The rows are unlocked; what produce() has queued stays queued.          *)
Unlock(p) == batch' = [batch EXCEPT ![p] = <<>>]

BatchFails(p) ==
    /\ AnotherFault
    /\ \/ /\ ppc[p] = "fetched"
          /\ \E n \in 0..Len(batch[p]) - 1 :
               queue' = [queue EXCEPT ![p] = @ \o SubSeq(batch[p], 1, n)]
       \/ ppc[p] = "produced" /\ UNCHANGED queue
    /\ Unlock(p)
    /\ ppc' = [ppc EXCEPT ![p] = "idle"]
    /\ UNCHANGED <<outbox, log, timely>>

(* The replica dies with its queue; PostgreSQL drops its locks. *)
CrashPublisher(p) ==
    /\ AnotherFault
    /\ ppc[p] # "idle" \/ queue[p] # <<>>
    /\ ppc' = [ppc EXCEPT ![p] = "idle"]
    /\ batch' = [batch EXCEPT ![p] = <<>>]
    /\ queue' = [queue EXCEPT ![p] = <<>>]
    /\ UNCHANGED <<outbox, log, timely>>

-----------------------------------------------------------------------------
Publish(p) == Fetch(p) \/ Produce(p) \/ MarkPublished(p)

Next ==
    \/ \E e \in Events : Emit(e)
    \/ \E p \in Publishers :
         \/ Publish(p) \/ Deliver(p)
         \/ DeliverTwice(p) \/ Expire(p) \/ BatchFails(p)
         \/ CrashPublisher(p)

Spec == Init /\ [][Next]_vars

(* A replica polls for ever and the library sends what it has queued. *)
Fairness == \A p \in Publishers : WF_vars(Publish(p)) /\ WF_vars(Deliver(p))

FairSpec == Spec /\ Fairness

-----------------------------------------------------------------------------
(* Properties. *)

Queued == UNION {Elements(queue[p]) : p \in Publishers}

(* README.md:267, "downstream systems never miss an event, even across     *)
(* crashes": a row marked published, which no replica ever reads again, is *)
(* in the partition or still on its way there.                             *)
NeverMissed ==
    \A e \in Events :
        outbox[e] = "published" => e \in Elements(log) \cup Queued

(* It holds as long as the broker answers in time: publisher.py:82 ignores *)
(* what flush() returns, and a crash or an error after it repeats the batch*)
(* instead of losing it.                                                   *)
NeverMissedInTime == timely => NeverMissed

(* Several replicas publish an event once: every further copy costs one    *)
(* fault (the locks are held from the SELECT to the commit).               *)
CopiesCostFaults ==
    \A e \in Events :
        Cardinality({n \in DOMAIN log : log[n] = e}) <= 1 + faults

(* A row leaves "pending" only when its publication is done for: no row    *)
(* stays behind because a replica that held it died or failed.             *)
EventuallyPublished ==
    \A e \in Events : timely /\ outbox[e] = "pending" ~> e \in Elements(log)
=============================================================================
