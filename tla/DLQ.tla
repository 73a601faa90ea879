-------------------------------- MODULE DLQ ---------------------------------
(***************************************************************************)
(* The in-memory dead letter queue of proxy/dlq.go.  Enqueue runs in the   *)
(* logger's goroutine whenever an INSERT fails; retryLoop runs in its own  *)
(* goroutine: it sleeps, copies the queue under the mutex, writes the copy *)
(* event by event without the mutex, and merges the failures back under    *)
(* the mutex.  Each critical section is one action, each INSERT of the     *)
(* retry is one action, and Enqueue may run between any two of them.       *)
(*                                                                         *)
(* In this module the logger is the environment: Arrive is its failed      *)
(* INSERT followed by Enqueue.  UsagePipeline supplies the real logger.    *)
(***************************************************************************)
EXTENDS Integers, FiniteSets, SequencesExt, UsageTable

CONSTANT DLQCap   \* dlqCap

ASSUME DLQCapAssumption == DLQCap \in Nat \ {0}

MaxAttempt == 2   \* len(backoff)-1

VARIABLES
    queue,    \* d.queue, oldest first
    phase,    \* retryLoop: "asleep" between retries, "writing" in flushBatch
    batch,    \* the copy of the queue that is being retried
    pos,      \* flushBatch: index in batch of the next event to write
    failed,   \* flushBatch: the events whose write failed
    attempt,  \* index of the next backoff
    \* History, read by properties only:
    offered,  \* every event ever given to Enqueue, in order
    snapAt,   \* Len(offered) when batch was copied
    drops,    \* how often Enqueue found the queue full
    snapDrops \* drops when batch was copied

loopVars == <<phase, batch, pos, failed, attempt>>
historyVars == <<offered, snapAt, drops, snapDrops>>
dlqVars == <<queue, loopVars, historyVars>>

DLQTypeOK ==
    /\ queue \in Seq(Event)
    /\ phase \in {"asleep", "writing"}
    /\ batch \in Seq(Event)
    /\ pos \in 1 .. Len(batch) + 1
    /\ failed \in Seq(Event)
    /\ attempt \in 0 .. MaxAttempt
    /\ offered \in Seq(Event)
    /\ snapAt \in 0 .. Len(offered)
    /\ drops \in Nat
    /\ snapDrops \in 0 .. drops

DLQInit ==
    /\ queue = <<>>
    /\ phase = "asleep"
    /\ batch = <<>>
    /\ pos = 1
    /\ failed = <<>>
    /\ attempt = 0
    /\ offered = <<>>
    /\ snapAt = 0
    /\ drops = 0
    /\ snapDrops = 0

-----------------------------------------------------------------------------
(***************************************************************************)
(* Deviations of the definitions below, each a bug the code could have had.*)
(* The specification never uses them: PROJECT.json names the property that *)
(* fails when one replaces the definition it deviates from.                *)
(***************************************************************************)
MergeLeaving(q, a) ==
    /\ phase = "writing" /\ pos > Len(batch)
    /\ queue' = q
    /\ attempt' = a
    /\ phase' = "asleep" /\ batch' = <<>> /\ pos' = 1 /\ failed' = <<>>
    /\ UNCHANGED historyVars

BackedOff == IF failed = <<>> THEN 0 ELSE MaxAttempt

NewInQueue == SubSeq(queue, Len(batch) + 1, Len(queue))

\* d.queue = failed: forgets what arrived during the retry.
RetryMergeReplacing == MergeLeaving(failed, BackedOff)

\* d.queue = append(failed, d.queue...): keeps the retried events as well.
RetryMergeUncut == MergeLeaving(failed \o queue, BackedOff)

\* d.queue = append(newlyEnqueued, failed...): the failures go to the back.
RetryMergeAtBack == MergeLeaving(NewInQueue \o failed, BackedOff)

\* attempt is not reset after a retry without failures.
RetryMergeNoReset == MergeLeaving(failed \o NewInQueue, MaxAttempt)

\* attempt grows past the end of the backoff table.
RetryMergeNoMin == MergeLeaving(failed \o NewInQueue, attempt + 1)

EnqueueDropping(e, full, q) ==
    /\ queue' = Append(IF full THEN q ELSE queue, e)
    /\ drops' = IF full THEN drops + 1 ELSE drops
    /\ offered' = Append(offered, e)
    /\ UNCHANGED <<loopVars, snapAt, snapDrops>>

\* The capacity test is off by one.
EnqueueOffByOne(e) == EnqueueDropping(e, Len(queue) > DLQCap, Tail(queue))

\* One warning, two events lost.
EnqueueDropTwo(e) ==
    EnqueueDropping(e, Len(queue) >= DLQCap, SubSeq(queue, 3, Len(queue)))

\* A full queue loses its newest event.
EnqueueDropNewest(e) == EnqueueDropping(e, Len(queue) >= DLQCap, Front(queue))

\* flushBatch gives up on the rest of the batch at the first failure.
RetryWriteStopping(out) ==
    /\ phase = "writing" /\ pos <= Len(batch)
    /\ WriteUsageEvent(batch[pos], out)
    /\ pos' = IF out = "ok" THEN pos + 1 ELSE Len(batch) + 1
    /\ failed' = IF out = "ok" THEN failed
                 ELSE failed \o SubSeq(batch, pos, Len(batch))
    /\ UNCHANGED <<queue, phase, batch, attempt, historyVars>>
-----------------------------------------------------------------------------

(***************************************************************************)
(* Enqueue: one critical section.  A full queue loses its oldest event.    *)
(***************************************************************************)
Enqueue(e) ==
    LET full == Len(queue) >= DLQCap IN
    /\ queue' = Append(IF full THEN Tail(queue) ELSE queue, e)
    /\ drops' = IF full THEN drops + 1 ELSE drops
    /\ offered' = Append(offered, e)
    /\ UNCHANGED <<loopVars, snapAt, snapDrops>>

\* A restart of the process makes a new, empty queue; rows survive it.
NewDLQ ==
    /\ queue' = <<>>
    /\ phase' = "asleep" /\ batch' = <<>> /\ pos' = 1 /\ failed' = <<>>
    /\ attempt' = 0
    /\ offered' = <<>> /\ snapAt' = 0 /\ drops' = 0 /\ snapDrops' = 0

\* retryLoop wakes up and finds nothing to do.
RetryEmpty ==
    /\ phase = "asleep"
    /\ queue = <<>>
    /\ attempt' = 0
    /\ UNCHANGED <<queue, phase, batch, pos, failed, historyVars>>

\* retryLoop wakes up and copies the queue.
RetrySnapshot ==
    /\ phase = "asleep"
    /\ queue # <<>>
    /\ phase' = "writing"
    /\ batch' = queue
    /\ pos' = 1
    /\ failed' = <<>>
    /\ snapAt' = Len(offered)
    /\ snapDrops' = drops
    /\ UNCHANGED <<queue, attempt, offered, drops>>

\* One iteration of flushBatch's loop.
RetryWrite(out) ==
    /\ phase = "writing"
    /\ pos <= Len(batch)
    /\ WriteUsageEvent(batch[pos], out)
    /\ failed' = IF out = "ok" THEN failed ELSE Append(failed, batch[pos])
    /\ pos' = pos + 1
    /\ UNCHANGED <<queue, phase, batch, attempt, historyVars>>

(***************************************************************************)
(* The second critical section.  The events at positions beyond the length *)
(* of the copy are taken to be the ones enqueued since.                    *)
(***************************************************************************)
Cutoff == IF Len(batch) <= Len(queue) THEN Len(batch) ELSE Len(queue)

RetryMerge ==
    /\ phase = "writing"
    /\ pos > Len(batch)
    /\ queue' = failed \o SubSeq(queue, Cutoff + 1, Len(queue))
    /\ attempt' = IF failed = <<>> THEN 0
                  ELSE IF attempt < MaxAttempt THEN attempt + 1 ELSE MaxAttempt
    /\ phase' = "asleep"
    /\ batch' = <<>>
    /\ pos' = 1
    /\ failed' = <<>>
    /\ UNCHANGED historyVars

RetryStep ==
    \/ RetryEmpty /\ UNCHANGED tableVars
    \/ RetrySnapshot /\ UNCHANGED tableVars
    \/ \E out \in Outcome : RetryWrite(out)
    \/ RetryMerge /\ UNCHANGED tableVars

-----------------------------------------------------------------------------
(***************************************************************************)
(* The queue with the logger as its environment.                           *)
(***************************************************************************)
Arrive(e, out) ==
    /\ e \notin ToSet(offered)
    /\ out # "ok"
    /\ WriteUsageEvent(e, out)
    /\ Enqueue(e)

Environment ==
    \/ \E e \in Event, out \in Outcome : Arrive(e, out)
    \/ DBFails /\ UNCHANGED dlqVars
    \/ DBRecovers /\ UNCHANGED dlqVars

vars == <<dlqVars, tableVars>>

Init == DLQInit /\ TableInit

Next == RetryStep \/ Environment

Spec == Init /\ [][Next]_vars

-----------------------------------------------------------------------------
(***************************************************************************)
(* Properties.                                                             *)
(***************************************************************************)
\* What was enqueued since the copy was taken, and the drops among it.
Arrived == SubSeq(offered, snapAt + 1, Len(offered))
DropsSince == drops - snapDrops

From(s, i) == SubSeq(s, i, Len(s))

\* The arrivals that are still in the queue.
Waiting == ToSet(Arrived) \cap ToSet(queue)

\* The events some retry can still write.
Held == ToSet(queue) \cup ToSet(From(batch, pos)) \cup ToSet(failed)

\* Given to Enqueue, in no row and in no buffer.
Lost == {e \in ToSet(offered) : ~Stored(e) /\ e \notin Held}

\* Types of the queue, the retry loop and the table (proxy/dlq.go:15-20).
TypeOK == DLQTypeOK /\ TableTypeOK

\* The queue never holds more than dlqCap events, not even after a merge has
\* put the failures of a retry in front of what arrived during it.
CapHolds == Len(queue) <= DLQCap

\* While a retry is in flight the queue is the copied batch and what arrived
\* since, less one event from the front per drop.  So the queue is never
\* shorter than the batch: the case the guard of proxy/dlq.go:59-62 is there
\* for (Enqueue shrinking the queue below the batch) does not arise.
QueueIsSuffix ==
    phase = "writing" =>
        /\ queue = From(batch \o Arrived, DropsSince + 1)
        /\ Len(queue) >= Len(batch)

\* A merge leaves the failures, oldest first, and then what arrived during the
\* retry, less the first arrivals, one for each drop of the retry
\* (proxy/dlq.go:58-64).  Without a drop nothing that arrived is lost.
MergeKeepsArrivals ==
    [][phase = "writing" /\ phase' = "asleep"
        => queue' = failed \o From(Arrived, DropsSince + 1)]_vars

\* The queue stays in the order of arrival across retries, so that the event
\* a full queue drops is always the oldest it holds.
OldestFirst ==
    \A i, j \in DOMAIN queue : i < j =>
        \E k, l \in DOMAIN offered :
            k < l /\ offered[k] = queue[i] /\ offered[l] = queue[j]

\* An INSERT that was acknowledged is never tried again, whatever arrives or
\* is dropped between the copy and the merge: a second row of an event can
\* only come from an INSERT whose answer was lost.
AckedOnce == \A e \in Event : acked[e] <= 1

\* The queue loses at most one event per "dropping oldest event" warning
\* (proxy/dlq.go:32), although the event named oldest may survive in the
\* retry's copy and a newer one be lost in its place.
LossBoundedByDrops == Cardinality(Lost) <= drops

\* The loop only backs off while it has something to retry: the first event
\* of a new outage waits the shortest delay (proxy/dlq.go:44-48, 67-72).
BackoffOnlyWithWork == phase = "asleep" /\ attempt > 0 => queue # <<>>

\* The comment at proxy/dlq.go:58: "Preserve events enqueued while the retry
\* was in flight."  Stated for the case in which the queue has room for all of
\* them beside the failures.  It fails when the queue overflowed in between.
ArrivalsSurviveMerge ==
    [][ /\ phase = "writing" /\ phase' = "asleep"
        /\ Len(failed) + Cardinality(Waiting) <= DLQCap
        => Waiting \subseteq ToSet(queue')]_vars
=============================================================================
