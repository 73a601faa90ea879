----------------------------- MODULE DLQProofs ------------------------------
(***************************************************************************)
(* Theorems about the dead letter queue, for every capacity, every set of  *)
(* events and every bound on unknown outcomes.                             *)
(*                                                                         *)
(* The first part is about the shape of the queue while a copy of it is    *)
(* retried; the second, on top of it, about the order of the events, the   *)
(* INSERTs that are repeated, the backoff, and how many events are lost.   *)
(***************************************************************************)
EXTENDS DLQ, TLAPS, SequenceTheorems, FiniteSetTheorems

\* The place in batch \o Arrived of the event at place i of the queue.
EventAt(i) ==
    IF i + DropsSince <= Len(batch) THEN batch[i + DropsSince]
    ELSE offered[snapAt + i + DropsSince - Len(batch)]

\* QueueIsSuffix, place by place; the first conjunct is why the queue never
\* becomes shorter than the batch: a drop is always paired with an arrival.
Shape ==
    phase = "writing" =>
        /\ DropsSince <= Len(offered) - snapAt
        /\ Len(failed) < pos
        /\ Len(queue) = Len(batch) + (Len(offered) - snapAt) - DropsSince
        /\ \A i \in 1 .. Len(queue) : queue[i] = EventAt(i)

IInv == TypeOK /\ CapHolds /\ Shape

\* The queue starts empty and asleep.
LEMMA InitInv == Init => IInv
<1> SUFFICES ASSUME Init PROVE IInv
  OBVIOUS
<1> USE DLQCapAssumption DEF Init, DLQInit, TableInit
<1>1. TypeOK
  BY DEF TypeOK, DLQTypeOK, TableTypeOK, MaxAttempt
<1>2. CapHolds
  BY DEF CapHolds
<1>3. Shape
  BY DEF Shape
<1> QED
  BY <1>1, <1>2, <1>3 DEF IInv

\* An INSERT changes the table only, and keeps its type.
LEMMA WriteType ==
    ASSUME TableTypeOK, NEW e \in Event, NEW out, WriteUsageEvent(e, out)
    PROVE  TableTypeOK'
BY DEF TableTypeOK, WriteUsageEvent, CommitRow

\* Where a place of the queue falls in what was offered since the copy.
LEMMA PlaceArith ==
    ASSUME NEW i \in Int, NEW s \in Nat, NEW d \in Int, NEW b \in Nat,
           NEW o \in Nat, NEW q \in Int,
           q = b + (o + 1 - s) - d, i < q, ~(i + d <= b)
    PROVE  s + i + d - b \in 1 .. o
OBVIOUS

\* Enqueue keeps the invariant: a drop and an arrival move the queue by one.
LEMMA EnqueueInv ==
    ASSUME IInv, NEW e \in Event, Enqueue(e), TableTypeOK'
    PROVE  IInv'
<1> DEFINE full == Len(queue) >= DLQCap
           kept == IF full THEN Tail(queue) ELSE queue
<1> USE DLQCapAssumption
<1>t. /\ queue \in Seq(Event) /\ offered \in Seq(Event) /\ batch \in Seq(Event)
      /\ failed \in Seq(Event) /\ snapAt \in 0 .. Len(offered)
      /\ drops \in Nat /\ snapDrops \in 0 .. drops
      /\ Len(queue) <= DLQCap
  BY DEF IInv, TypeOK, DLQTypeOK, CapHolds
<1>e. /\ queue' = Append(kept, e)
      /\ drops' = IF full THEN drops + 1 ELSE drops
      /\ offered' = Append(offered, e)
      /\ UNCHANGED <<phase, batch, pos, failed, attempt, snapAt, snapDrops>>
  BY DEF Enqueue, loopVars
<1>k. kept \in Seq(Event) /\ Len(kept) = IF full THEN Len(queue) - 1 ELSE Len(queue)
  BY <1>t
<1>1. TypeOK'
  <2>1. queue' \in Seq(Event) /\ offered' \in Seq(Event)
    BY <1>k, <1>t, <1>e
  <2>2. Len(offered') = Len(offered) + 1
    BY <1>t, <1>e
  <2>3. snapAt' \in 0 .. Len(offered') /\ drops' \in Nat /\ snapDrops' \in 0 .. drops'
    BY <1>t, <1>e, <2>2
  <2> QED
    BY <2>1, <2>3, <1>e DEF IInv, TypeOK, DLQTypeOK
<1>2. CapHolds'
  <2>1. Len(queue') = Len(kept) + 1
    BY <1>k, <1>e
  <2> QED
    BY <2>1, <1>k, <1>t DEF CapHolds
<1>3. Shape'
  <2> SUFFICES ASSUME phase = "writing"
               PROVE  /\ DropsSince' <= Len(offered') - snapAt'
                      /\ Len(failed') < pos'
                      /\ Len(queue') = Len(batch') + (Len(offered') - snapAt') - DropsSince'
                      /\ \A i \in 1 .. Len(queue') : queue'[i] = EventAt(i)'
    BY <1>e DEF Shape
  <2>s. /\ drops - snapDrops <= Len(offered) - snapAt
        /\ Len(failed) < pos
        /\ Len(queue) = Len(batch) + (Len(offered) - snapAt) - (drops - snapDrops)
        /\ \A i \in 1 .. Len(queue) : queue[i] = EventAt(i)
    BY DEF IInv, Shape, DropsSince
  <2>l. Len(offered') = Len(offered) + 1 /\ Len(queue') = Len(kept) + 1
    BY <1>t, <1>k, <1>e
  <2>1. DropsSince' <= Len(offered') - snapAt'
    BY <2>s, <2>l, <1>t, <1>e DEF DropsSince
  <2>2. Len(failed') < pos'
    BY <2>s, <1>e
  <2>i. /\ Len(queue) \in Nat /\ Len(batch) \in Nat /\ Len(offered) \in Nat
        /\ DropsSince \in Int /\ snapAt \in Nat
    BY <1>t DEF DropsSince
  <2>d. DropsSince' = IF full THEN DropsSince + 1 ELSE DropsSince
    BY <1>e, <1>t DEF DropsSince
  <2>j. /\ DropsSince' \in Int /\ Len(queue') \in Nat /\ Len(offered') \in Nat
        /\ batch' = batch /\ snapAt' = snapAt
    BY <2>d, <2>i, <2>l, <1>k, <1>e
  <2>c. /\ Len(queue) = Len(batch) + (Len(offered) - snapAt) - DropsSince
        /\ UNCHANGED <<batch, snapAt>>
    BY <2>s, <1>e DEF DropsSince
  <2>3. Len(queue') = Len(batch') + (Len(offered') - snapAt') - DropsSince'
    <3>1. CASE full
      BY <3>1, <2>c, <2>d, <2>i, <2>l, <1>k
    <3>2. CASE ~full
      BY <3>2, <2>c, <2>d, <2>i, <2>l, <1>k
    <3> QED
      BY <3>1, <3>2
  <2>4. ASSUME NEW i \in 1 .. Len(queue') PROVE queue'[i] = EventAt(i)'
    <3>1. CASE i = Len(queue')
      <4>1. queue'[i] = e
        BY <3>1, <2>l, <1>k, <1>e
      <4>2. i + DropsSince' = Len(batch) + (Len(offered') - snapAt)
        BY <3>1, <2>3, <2>d, <2>i, <2>l, <1>k, <1>e
      <4>3. snapAt + i + DropsSince' - Len(batch) = Len(offered')
        <5>1. DropsSince' \in Int /\ Len(batch) \in Nat /\ Len(offered') \in Nat
              /\ snapAt \in Nat
          BY <2>i, <2>j
        <5> QED
          BY <4>2, <5>1
      <4>4. ~(i + DropsSince' <= Len(batch))
        BY <4>2, <2>l, <1>t
      <4>5. EventAt(i)' = offered'[Len(offered')]
        BY <4>3, <4>4, <1>e DEF EventAt
      <4> QED
        BY <4>1, <4>5, <2>l, <1>t, <1>e
    <3>2. CASE i # Len(queue')
      <4>1. i \in 1 .. Len(kept) /\ queue'[i] = kept[i]
        BY <3>2, <2>l, <1>k, <1>e
      <4>2. CASE full
        <5>1. kept[i] = queue[i + 1] /\ i + 1 \in 1 .. Len(queue)
          BY <4>1, <4>2, <1>k, <1>t
        <5>2. DropsSince' = DropsSince + 1
          BY <4>2, <1>e, <1>t DEF DropsSince
        <5>3. queue[i + 1] = EventAt(i + 1)
          BY <5>1, <2>s
        <5>4. EventAt(i + 1) = IF i + DropsSince' <= Len(batch) THEN batch[i + DropsSince']
                               ELSE offered[snapAt + i + DropsSince' - Len(batch)]
          BY <5>2, <1>t, <1>e DEF EventAt, DropsSince
        <5>5. ~(i + DropsSince' <= Len(batch)) =>
                 snapAt + i + DropsSince' - Len(batch) \in 1 .. Len(offered)
          <6> SUFFICES ASSUME ~(i + DropsSince' <= Len(batch))
                       PROVE  snapAt + i + DropsSince' - Len(batch) \in 1 .. Len(offered)
            OBVIOUS
          <6>1. i \in Int /\ i < Len(queue')
            BY <3>2, <2>j
          <6>2. Len(queue') = Len(batch) + (Len(offered) + 1 - snapAt) - DropsSince'
            BY <2>3, <2>i, <2>j, <2>l
          <6>d. PICK d \in Int : d = DropsSince'
            BY <2>j
          <6>b. PICK b \in Nat : b = Len(batch)
            BY <2>i
          <6>o. PICK o \in Nat : o = Len(offered)
            BY <2>i
          <6>s. PICK s \in Nat : s = snapAt
            BY <2>i
          <6>q. PICK q \in Int : q = Len(queue')
            BY <2>j
          <6>3. d = DropsSince' /\ b = Len(batch) /\ o = Len(offered)
                /\ s = snapAt /\ q = Len(queue')
            BY <6>d, <6>b, <6>o, <6>s, <6>q
          <6>4. q = b + (o + 1 - s) - d /\ i < q /\ ~(i + d <= b)
            BY <6>1, <6>2, <6>3
          <6>5. s + i + d - b \in 1 .. o
            BY <6>1, <6>4, PlaceArith
          <6> QED
            BY <6>3, <6>5
        <5>6. ~(i + DropsSince' <= Len(batch)) =>
                 offered[snapAt + i + DropsSince' - Len(batch)]
                   = offered'[snapAt + i + DropsSince' - Len(batch)]
          BY <5>5, <1>t, <1>e
        <5> QED
          BY <4>1, <5>1, <5>3, <5>4, <5>6, <1>e DEF EventAt
      <4>3. CASE ~full
        <5>1. kept[i] = queue[i] /\ i \in 1 .. Len(queue)
          BY <4>1, <4>3, <1>k, <1>t
        <5>2. DropsSince' = DropsSince
          BY <4>3, <1>e, <1>t DEF DropsSince
        <5>3. queue[i] = EventAt(i)
          BY <5>1, <2>s
        <5>5. ~(i + DropsSince <= Len(batch)) =>
                 snapAt + i + DropsSince - Len(batch) \in 1 .. Len(offered)
          BY <5>1, <2>s, <1>t, <1>e DEF DropsSince
        <5>6. ~(i + DropsSince <= Len(batch)) =>
                 offered[snapAt + i + DropsSince - Len(batch)]
                   = offered'[snapAt + i + DropsSince - Len(batch)]
          BY <5>5, <1>t, <1>e
        <5> QED
          BY <4>1, <5>1, <5>2, <5>3, <5>6, <1>e DEF EventAt
      <4> QED
        BY <4>2, <4>3
    <3> QED
      BY <3>1, <3>2
  <2> QED
    BY <2>1, <2>2, <2>3, <2>4
<1> QED
  BY <1>1, <1>2, <1>3 DEF IInv

\* Waking up with an empty queue only resets the backoff.
LEMMA RetryEmptyInv ==
    ASSUME IInv, RetryEmpty, UNCHANGED tableVars
    PROVE  IInv'
<1>1. TypeOK'
  BY DEF IInv, TypeOK, DLQTypeOK, TableTypeOK, MaxAttempt, RetryEmpty, historyVars, tableVars
<1>2. CapHolds'
  BY DEF IInv, CapHolds, RetryEmpty
<1>3. Shape'
  BY DEF IInv, Shape, EventAt, DropsSince, RetryEmpty, historyVars
<1> QED
  BY <1>1, <1>2, <1>3 DEF IInv

\* At the copy nothing has arrived and nothing has been dropped since.
LEMMA RetrySnapshotInv ==
    ASSUME IInv, RetrySnapshot, UNCHANGED tableVars
    PROVE  IInv'
<1>t. /\ queue \in Seq(Event) /\ offered \in Seq(Event) /\ drops \in Nat
      /\ Len(queue) \in Nat /\ Len(offered) \in Nat
  BY DEF IInv, TypeOK, DLQTypeOK
<1>s. /\ phase' = "writing" /\ batch' = queue /\ pos' = 1 /\ failed' = <<>>
      /\ snapAt' = Len(offered) /\ snapDrops' = drops
      /\ UNCHANGED <<queue, attempt, offered, drops>>
  BY DEF RetrySnapshot
<1>1. TypeOK'
  BY <1>t, <1>s DEF IInv, TypeOK, DLQTypeOK, TableTypeOK, tableVars
<1>2. CapHolds'
  BY <1>s DEF IInv, CapHolds
<1>3. Shape'
  <2>1. DropsSince' = 0 /\ Len(failed') = 0
    BY <1>t, <1>s DEF DropsSince
  <2>2. ASSUME NEW i \in 1 .. Len(queue) PROVE queue[i] = EventAt(i)'
    BY <2>1, <1>t, <1>s DEF EventAt
  <2> QED
    BY <2>1, <2>2, <1>t, <1>s DEF Shape
<1> QED
  BY <1>1, <1>2, <1>3 DEF IInv

\* One INSERT of the retry moves on in the batch.
LEMMA RetryWriteInv ==
    ASSUME IInv, NEW out \in Outcome, RetryWrite(out)
    PROVE  IInv'
<1>t. /\ batch \in Seq(Event) /\ failed \in Seq(Event)
      /\ pos \in Nat /\ pos >= 1 /\ pos <= Len(batch)
      /\ Len(batch) \in Nat /\ Len(failed) \in Nat
  BY DEF IInv, TypeOK, DLQTypeOK, RetryWrite
<1>w. /\ phase = "writing" /\ pos' = pos + 1
      /\ failed' = IF out = "ok" THEN failed ELSE Append(failed, batch[pos])
      /\ UNCHANGED <<queue, phase, batch, attempt, offered, snapAt, drops, snapDrops>>
      /\ WriteUsageEvent(batch[pos], out)
  BY DEF RetryWrite, historyVars
<1>e. batch[pos] \in Event
  BY <1>t
<1>f. failed' \in Seq(Event) /\ Len(failed') <= Len(failed) + 1 /\ Len(failed') \in Nat
  BY <1>t, <1>w, <1>e
<1>1. TypeOK'
  <2>1. TableTypeOK'
    BY <1>w, <1>e, WriteType DEF IInv, TypeOK
  <2>2. pos' \in 1 .. Len(batch') + 1
    BY <1>t, <1>w
  <2> QED
    BY <2>1, <2>2, <1>f, <1>w DEF IInv, TypeOK, DLQTypeOK
<1>2. CapHolds'
  BY <1>w DEF IInv, CapHolds
<1>3. Shape'
  <2>1. Len(failed) < pos
    BY <1>w DEF IInv, Shape
  <2>2. Len(failed') < pos'
    BY <2>1, <1>f, <1>t, <1>w
  <2>3. DropsSince' = DropsSince /\ \A i : EventAt(i)' = EventAt(i)
    BY <1>w DEF DropsSince, EventAt
  <2> QED
    BY <2>2, <2>3, <1>w DEF IInv, Shape
<1> QED
  BY <1>1, <1>2, <1>3 DEF IInv

\* The queue at the merge: the guard is idle, and the result fits.
LEMMA MergeFits ==
    ASSUME IInv, phase = "writing"
    PROVE  /\ Len(batch) <= Len(queue)
           /\ Cutoff = Len(batch)
           /\ Len(failed) <= Len(batch)
           /\ SubSeq(queue, Cutoff + 1, Len(queue)) \in Seq(Event)
           /\ Len(SubSeq(queue, Cutoff + 1, Len(queue))) = Len(queue) - Len(batch)
<1>t. /\ queue \in Seq(Event) /\ Len(queue) \in Nat /\ Len(batch) \in Nat
      /\ Len(failed) \in Nat /\ pos \in Nat /\ pos <= Len(batch) + 1
      /\ snapAt \in Nat /\ DropsSince \in Int /\ Len(offered) \in Nat
  BY DEF IInv, TypeOK, DLQTypeOK, DropsSince
<1>s. /\ DropsSince <= Len(offered) - snapAt
      /\ Len(failed) < pos
      /\ Len(queue) = Len(batch) + (Len(offered) - snapAt) - DropsSince
  BY DEF IInv, Shape
<1>1. Len(batch) <= Len(queue)
  BY <1>t, <1>s, Z3
<1>2. Cutoff = Len(batch)
  BY <1>1 DEF Cutoff
<1>3. Len(failed) <= Len(batch)
  BY <1>t, <1>s, Z3
<1> QED
  BY <1>1, <1>2, <1>3, <1>t

\* The merge.
LEMMA RetryMergeInv ==
    ASSUME IInv, RetryMerge, UNCHANGED tableVars
    PROVE  IInv'
<1> DEFINE rest == SubSeq(queue, Cutoff + 1, Len(queue))
<1>m. /\ phase = "writing" /\ phase' = "asleep" /\ queue' = failed \o rest
      /\ batch' = <<>> /\ pos' = 1 /\ failed' = <<>>
      /\ attempt' \in {0, attempt + 1, MaxAttempt} /\ (attempt' = attempt + 1 => attempt < MaxAttempt)
      /\ UNCHANGED <<offered, snapAt, drops, snapDrops>>
  BY DEF RetryMerge, historyVars, IInv, TypeOK, DLQTypeOK, MaxAttempt
<1>f. /\ Len(failed) <= Len(batch) /\ rest \in Seq(Event)
      /\ Len(rest) = Len(queue) - Len(batch)
  BY <1>m, MergeFits
<1>t. /\ failed \in Seq(Event) /\ Len(queue) \in Nat /\ Len(batch) \in Nat
      /\ Len(failed) \in Nat /\ queue \in Seq(Event) /\ attempt \in 0 .. MaxAttempt
  BY DEF IInv, TypeOK, DLQTypeOK
<1>l. Len(rest) \in Nat
  <2>1. rest \in Seq(Event)
    BY <1>f
  <2> HIDE DEF rest
  <2> QED
    BY <2>1
<1>q. queue' \in Seq(Event) /\ Len(queue') = Len(failed) + Len(rest)
  BY <1>m, <1>f, <1>t, <1>l
<1>1. TypeOK'
  <2>1. attempt' \in 0 .. MaxAttempt
    BY <1>m, <1>t DEF MaxAttempt
  <2> QED
    BY <2>1, <1>m, <1>q DEF IInv, TypeOK, DLQTypeOK, TableTypeOK, tableVars
<1>2. CapHolds'
  BY <1>q, <1>f, <1>t, <1>l, DLQCapAssumption, SMTT(20) DEF IInv, CapHolds
<1>3. Shape'
  BY <1>m DEF Shape
<1> QED
  BY <1>1, <1>2, <1>3 DEF IInv

\* Postgres going away or coming back does not touch the queue.
LEMMA OutageInv ==
    ASSUME IInv, (DBFails \/ DBRecovers) /\ UNCHANGED dlqVars
    PROVE  IInv'
<1>1. UNCHANGED <<queue, phase, batch, pos, failed, attempt, offered, snapAt, drops, snapDrops>>
  BY DEF dlqVars, loopVars, historyVars
<1>2. TableTypeOK'
  BY DEF IInv, TypeOK, TableTypeOK, DBFails, DBRecovers
<1> QED
  BY <1>1, <1>2 DEF IInv, TypeOK, DLQTypeOK, CapHolds, Shape, EventAt, DropsSince

\* Every step keeps the invariant.
LEMMA NextInv == IInv /\ [Next]_vars => IInv'
<1> SUFFICES ASSUME IInv, [Next]_vars PROVE IInv'
  OBVIOUS
<1>1. CASE RetryEmpty /\ UNCHANGED tableVars
  BY <1>1, RetryEmptyInv
<1>2. CASE RetrySnapshot /\ UNCHANGED tableVars
  BY <1>2, RetrySnapshotInv
<1>3. CASE \E out \in Outcome : RetryWrite(out)
  BY <1>3, RetryWriteInv
<1>4. CASE RetryMerge /\ UNCHANGED tableVars
  BY <1>4, RetryMergeInv
<1>5. ASSUME NEW e \in Event, NEW out \in Outcome, Arrive(e, out) PROVE IInv'
  <2>1. TableTypeOK'
    BY <1>5, WriteType DEF Arrive, IInv, TypeOK
  <2> QED
    BY <1>5, <2>1, EnqueueInv DEF Arrive
<1>6. CASE (DBFails \/ DBRecovers) /\ UNCHANGED dlqVars
  BY <1>6, OutageInv
<1>7. CASE UNCHANGED vars
  BY <1>7 DEF vars, dlqVars, tableVars, loopVars, historyVars, IInv, TypeOK, DLQTypeOK,
              TableTypeOK, CapHolds, Shape, EventAt, DropsSince
<1> QED
  BY <1>1, <1>2, <1>3, <1>4, <1>5, <1>6, <1>7 DEF Next, RetryStep, Environment

LEMMA Invariance == Spec => []IInv
BY InitInv, NextInv, PTL DEF Spec

\* Types hold for every capacity and every set of events (proxy/dlq.go:15-20).
THEOREM TypeCorrect == Spec => []TypeOK
<1>1. IInv => TypeOK
  BY DEF IInv
<1> QED
  BY <1>1, Invariance, PTL

\* The queue respects its capacity, also after merges (proxy/dlq.go:31, 64).
THEOREM CapRespected == Spec => []CapHolds
<1>1. IInv => CapHolds
  BY DEF IInv
<1> QED
  BY <1>1, Invariance, PTL

\* Arrived, place by place.
LEMMA ArrivedSeq ==
    ASSUME IInv
    PROVE  /\ Arrived \in Seq(Event)
           /\ Len(Arrived) = Len(offered) - snapAt
           /\ \A i \in 1 .. Len(Arrived) : Arrived[i] = offered[snapAt + i]
<1>1. offered \in Seq(Event) /\ snapAt \in 0 .. Len(offered) /\ Len(offered) \in Nat
  BY DEF IInv, TypeOK, DLQTypeOK
<1> QED
  BY <1>1 DEF Arrived

\* Shape says what QueueIsSuffix says.
LEMMA ShapeIsSuffix == IInv => QueueIsSuffix
<1> SUFFICES ASSUME IInv, phase = "writing"
             PROVE  /\ queue = From(batch \o Arrived, DropsSince + 1)
                    /\ Len(queue) >= Len(batch)
  BY DEF QueueIsSuffix
<1> DEFINE all == batch \o Arrived
           suffix == From(all, DropsSince + 1)
<1>t. /\ queue \in Seq(Event) /\ batch \in Seq(Event)
      /\ Len(queue) \in Nat /\ Len(batch) \in Nat /\ Len(offered) \in Nat
      /\ snapAt \in Nat /\ DropsSince \in Nat
  BY DEF IInv, TypeOK, DLQTypeOK, DropsSince
<1>s. /\ DropsSince <= Len(offered) - snapAt
      /\ Len(queue) = Len(batch) + (Len(offered) - snapAt) - DropsSince
      /\ \A i \in 1 .. Len(queue) : queue[i] = EventAt(i)
  BY DEF IInv, Shape
<1>a. all \in Seq(Event) /\ Len(all) = Len(batch) + (Len(offered) - snapAt)
  BY <1>t, ArrivedSeq, SMTT(20)
<1>b. suffix \in Seq(Event) /\ Len(suffix) = Len(queue)
  <2>1. DropsSince + 1 \in 1 .. Len(all) + 1
    BY <1>a, <1>s, <1>t
  <2>2. Len(suffix) = Len(all) - DropsSince
    BY <2>1, <1>a, <1>t, SMTT(20) DEF From
  <2> QED
    BY <2>1, <2>2, <1>a, <1>s, <1>t, SMTT(20) DEF From
<1>c. ASSUME NEW i \in 1 .. Len(queue) PROVE suffix[i] = queue[i]
  <2>1. suffix[i] = all[i + DropsSince] /\ i + DropsSince \in 1 .. Len(all)
    BY <1>a, <1>b, <1>s, <1>t, SMTT(20) DEF From
  <2>2. CASE i + DropsSince <= Len(batch)
    BY <2>1, <2>2, <1>s, <1>t, ArrivedSeq, SMTT(20) DEF EventAt
  <2>3. CASE ~(i + DropsSince <= Len(batch))
    <3> DEFINE j == i + DropsSince - Len(batch)
    <3>1. j \in 1 .. Len(Arrived)
      BY <2>1, <2>3, <1>a, <1>t, ArrivedSeq
    <3>2. all[i + DropsSince] = Arrived[j]
      BY <2>1, <2>3, <3>1, <1>t, ArrivedSeq
    <3>3. Arrived[j] = offered[snapAt + j]
      BY <3>1, ArrivedSeq
    <3>4. EventAt(i) = offered[snapAt + j]
      BY <2>3, <1>t DEF EventAt
    <3> QED
      BY <2>1, <3>2, <3>3, <3>4, <1>s
  <2> QED
    BY <2>2, <2>3
<1>d. queue = suffix
  BY <1>b, <1>c, <1>t
<1> QED
  BY <1>d, MergeFits

\* During a retry the queue is the copy followed by what arrived since, less
\* one event from the front per drop, and is never shorter than the copy: the
\* guard of proxy/dlq.go:59-62 never decides anything.
THEOREM QueueShape == Spec => []QueueIsSuffix
BY ShapeIsSuffix, Invariance, PTL

\* Behind the batch the queue holds what arrived, less its first DropsSince.
LEMMA NewlyEnqueued ==
    ASSUME IInv, phase = "writing"
    PROVE  SubSeq(queue, Cutoff + 1, Len(queue)) = From(Arrived, DropsSince + 1)
<1> DEFINE new == SubSeq(queue, Cutoff + 1, Len(queue))
           kept == From(Arrived, DropsSince + 1)
<1>t. /\ queue \in Seq(Event) /\ Len(queue) \in Nat /\ Len(batch) \in Nat
      /\ Len(offered) \in Nat /\ snapAt \in Nat /\ DropsSince \in Nat
  BY DEF IInv, TypeOK, DLQTypeOK, DropsSince
<1>s. /\ DropsSince <= Len(offered) - snapAt
      /\ Len(queue) = Len(batch) + (Len(offered) - snapAt) - DropsSince
      /\ \A i \in 1 .. Len(queue) : queue[i] = EventAt(i)
  BY DEF IInv, Shape
<1>n. /\ Cutoff = Len(batch) /\ new \in Seq(Event)
      /\ Len(new) = Len(queue) - Len(batch)
  BY MergeFits
<1>k. kept \in Seq(Event) /\ Len(kept) = Len(new)
  <2>1. /\ Arrived \in Seq(Event)
        /\ Len(Arrived) = Len(offered) - snapAt
    BY ArrivedSeq
  <2>2. DropsSince + 1 \in 1 .. Len(Arrived) + 1
    BY <2>1, <1>s, <1>t
  <2>3. Len(kept) = Len(Arrived) - DropsSince
    BY <2>1, <2>2, <1>t DEF From
  <2> QED
    BY <2>1, <2>2, <2>3, <1>n, <1>s, <1>t DEF From
<1>p. ASSUME NEW i \in 1 .. Len(new) PROVE new[i] = kept[i]
  <2> DEFINE j == i + DropsSince
             q == Len(batch) + i
  <2>1. new[i] = queue[q] /\ q \in 1 .. Len(queue)
    BY <1>n, <1>t
  <2>2. EventAt(q) = offered[snapAt + j]
    <3>1. ~(q + DropsSince <= Len(batch))
      BY <1>n, <1>t
    <3>2. snapAt + q + DropsSince - Len(batch) = snapAt + j
      BY <1>n, <1>t
    <3> QED
      BY <3>1, <3>2 DEF EventAt
  <2>3. j \in 1 .. Len(Arrived) /\ kept[i] = Arrived[j]
    BY <1>k, <1>n, <1>s, <1>t, ArrivedSeq DEF From
  <2>4. Arrived[j] = offered[snapAt + j]
    BY <2>3, ArrivedSeq
  <2> QED
    BY <2>1, <2>2, <2>3, <2>4, <1>s
<1> QED
  BY <1>k, <1>n, <1>p

\* A merge loses exactly as many of the events that arrived during the retry,
\* oldest first, as the queue dropped in the meantime, and no other
\* (proxy/dlq.go:57-65): without a drop, nothing that arrived is lost.
THEOREM MergeExact == Spec => MergeKeepsArrivals
<1>1. IInv /\ [Next]_vars =>
        [phase = "writing" /\ phase' = "asleep"
            => queue' = failed \o From(Arrived, DropsSince + 1)]_vars
  <2> SUFFICES ASSUME IInv, [Next]_vars, phase = "writing", phase' = "asleep"
               PROVE  queue' = failed \o From(Arrived, DropsSince + 1)
    OBVIOUS
  <2>1. RetryMerge
    BY DEF Next, RetryStep, Environment, RetryEmpty, RetrySnapshot, RetryWrite,
           Arrive, Enqueue, vars, dlqVars, loopVars
  <2>2. queue' = failed \o SubSeq(queue, Cutoff + 1, Len(queue))
    BY <2>1 DEF RetryMerge
  <2> QED
    BY <2>2, NewlyEnqueued
<1> QED
  BY <1>1, Invariance, PTL DEF Spec, MergeKeepsArrivals

-----------------------------------------------------------------------------

\* a was given to Enqueue before b.
Before(a, b) ==
    \E k, l \in DOMAIN offered : k < l /\ offered[k] = a /\ offered[l] = b

Ordered(s) == \A i, j \in DOMAIN s : i < j => Before(s[i], s[j])

\* No event is offered twice.
Once == \A k, l \in DOMAIN offered : offered[k] = offered[l] => k = l

\* What is retried was offered before the copy, and what failed was retried.
Retried ==
    /\ \A i \in DOMAIN batch : \E k \in 1 .. snapAt : offered[k] = batch[i]
    /\ \A i \in DOMAIN failed : \E j \in 1 .. pos - 1 : j \in DOMAIN batch /\ failed[i] = batch[j]

QueueOffered == \A i \in DOMAIN queue : \E k \in DOMAIN offered : offered[k] = queue[i]

Asleep == phase = "asleep" => batch = <<>> /\ failed = <<>>

Order ==
    /\ Once /\ Asleep
    /\ QueueOffered /\ Retried
    /\ Ordered(queue) /\ Ordered(batch) /\ Ordered(failed)

\* No row yet: of what can still be written.
Fresh(e) == acked[e] = 0

Unwritten ==
    /\ \A e \in Event : acked[e] <= 1
    /\ phase = "asleep" => \A i \in DOMAIN queue : Fresh(queue[i])
    /\ phase = "writing" =>
          /\ \A i \in pos .. Len(batch) : Fresh(batch[i])
          /\ \A i \in DOMAIN failed : Fresh(failed[i])
          /\ \A k \in snapAt + 1 .. Len(offered) : Fresh(offered[k])

OInv == IInv /\ Order /\ Unwritten /\ BackoffOnlyWithWork

\* No row yet: of what is offered later, when nobody else writes.
Untouched == \A e \in Event : e \notin ToSet(offered) => Fresh(e)

LEMMA Types ==
    ASSUME IInv
    PROVE  /\ queue \in Seq(Event) /\ batch \in Seq(Event) /\ failed \in Seq(Event)
           /\ offered \in Seq(Event)
           /\ Len(queue) \in Nat /\ Len(batch) \in Nat /\ Len(failed) \in Nat
           /\ Len(offered) \in Nat
           /\ DOMAIN queue = 1 .. Len(queue) /\ DOMAIN batch = 1 .. Len(batch)
           /\ DOMAIN failed = 1 .. Len(failed) /\ DOMAIN offered = 1 .. Len(offered)
           /\ snapAt \in 0 .. Len(offered) /\ snapAt \in Nat
           /\ pos \in 1 .. Len(batch) + 1 /\ pos \in Nat
           /\ phase \in {"asleep", "writing"}
           /\ attempt \in 0 .. MaxAttempt
           /\ acked \in [Event -> Nat] /\ unacked \in [Event -> Nat]
           /\ drops \in Nat /\ snapDrops \in 0 .. drops /\ DropsSince \in Nat
BY DEF IInv, TypeOK, DLQTypeOK, TableTypeOK, DropsSince

LEMMA Appended ==
    ASSUME NEW s \in Seq(Event), NEW e \in Event
    PROVE  /\ Len(s) \in Nat /\ DOMAIN s = 1 .. Len(s)
           /\ DOMAIN Append(s, e) = 1 .. Len(s) + 1 /\ Append(s, e)[Len(s) + 1] = e
           /\ \A i \in DOMAIN s : Append(s, e)[i] = s[i]
           /\ Append(s, e) # <<>>
OBVIOUS

\* What is left of a sequence behind its first d places.
LEMMA Suffix ==
    ASSUME NEW s \in Seq(Event), NEW d \in Nat
    PROVE  /\ From(s, d + 1) \in Seq(Event)
           /\ \A i \in DOMAIN From(s, d + 1) :
                 i \in Nat /\ d + i \in 1 .. Len(s) /\ From(s, d + 1)[i] = s[d + i]
<1>1. Len(s) \in Nat
  OBVIOUS
<1>2. PICK n \in Nat : n = Len(s)
  BY <1>1
<1>3. \A i \in d + 1 .. n : s[i] \in Event
  BY <1>2
<1>4. /\ SubSeq(s, d + 1, n) \in Seq(Event)
      /\ Len(SubSeq(s, d + 1, n)) = IF d + 1 <= n THEN n - d ELSE 0
      /\ \A i \in 1 .. n - d : SubSeq(s, d + 1, n)[i] = s[d + i]
  BY <1>2, <1>3, SubSeqProperties
<1> QED BY <1>2, <1>4 DEF From

\* Nothing comes before itself.
LEMMA BeforeStrict ==
    ASSUME Once, NEW a, Before(a, a), offered \in Seq(Event)
    PROVE  FALSE
<1>1. PICK k, l \in DOMAIN offered : k < l /\ offered[k] = a /\ offered[l] = a
  BY DEF Before
<1>2. k = l
  BY <1>1 DEF Once
<1> QED BY <1>1, <1>2

\* The places of offered are kept when an event is appended.
LEMMA OfferedGrows ==
    ASSUME offered \in Seq(Event), NEW e \in Event, offered' = Append(offered, e)
    PROVE  /\ Len(offered') = Len(offered) + 1 /\ Len(offered) \in Nat
           /\ DOMAIN offered = 1 .. Len(offered) /\ DOMAIN offered' = 1 .. Len(offered) + 1
           /\ \A k \in DOMAIN offered : k \in DOMAIN offered' /\ offered'[k] = offered[k]
           /\ offered'[Len(offered) + 1] = e
           /\ \A a, b : Before(a, b) => Before(a, b)'
           /\ \A k \in DOMAIN offered : Before(offered[k], e)'
<1>1. /\ Len(offered') = Len(offered) + 1 /\ Len(offered) \in Nat
      /\ DOMAIN offered = 1 .. Len(offered) /\ DOMAIN offered' = 1 .. Len(offered) + 1
      /\ \A k \in DOMAIN offered : k \in DOMAIN offered' /\ offered'[k] = offered[k]
      /\ offered'[Len(offered) + 1] = e
  OBVIOUS
<1>2. ASSUME NEW a, NEW b, Before(a, b) PROVE Before(a, b)'
  <2>1. PICK k, l \in DOMAIN offered : k < l /\ offered[k] = a /\ offered[l] = b
    BY <1>2 DEF Before
  <2>2. k \in DOMAIN offered' /\ l \in DOMAIN offered' /\ offered'[k] = a /\ offered'[l] = b
    BY <1>1, <2>1
  <2> QED BY <2>1, <2>2 DEF Before
<1>3. ASSUME NEW k \in DOMAIN offered PROVE Before(offered[k], e)'
  <2>1. /\ k \in DOMAIN offered' /\ offered'[k] = offered[k]
        /\ Len(offered) + 1 \in DOMAIN offered' /\ k < Len(offered) + 1
    BY <1>1
  <2> QED BY <1>1, <2>1 DEF Before
<1> QED BY <1>1, <1>2, <1>3

LEMMA OInitInv == Init => OInv
<1> SUFFICES ASSUME Init PROVE OInv
  OBVIOUS
<1>1. IInv
  BY InitInv
<1> QED BY <1>1 DEF Init, DLQInit, TableInit, OInv, Order, Once, Asleep, QueueOffered, Retried,
               Ordered, Unwritten, Fresh, BackoffOnlyWithWork

-----------------------------------------------------------------------------
(***************************************************************************)
(* An arrival.                                                             *)
(***************************************************************************)
\* What the queue holds after an Enqueue: events of the old queue in their order,
\* and e at its end.
LEMMA EnqueuePlaces ==
    ASSUME IInv, NEW e \in Event, Enqueue(e)
    PROVE  /\ queue' # <<>>
           /\ \A i \in DOMAIN queue' :
                 queue'[i] = e \/ \E m \in DOMAIN queue : queue'[i] = queue[m]
           /\ \A i, j \in DOMAIN queue' : i < j =>
                 \E m \in DOMAIN queue :
                    /\ queue'[i] = queue[m]
                    /\ queue'[j] = e \/ \E n \in DOMAIN queue : m < n /\ queue'[j] = queue[n]
<1> DEFINE full == Len(queue) >= DLQCap
           kept == IF full THEN Tail(queue) ELSE queue
<1>t. /\ queue \in Seq(Event) /\ Len(queue) \in Nat /\ DOMAIN queue = 1 .. Len(queue)
      /\ DLQCap \in Nat /\ DLQCap >= 1
  BY Types, DLQCapAssumption
<1>1. queue' = Append(kept, e)
  BY DEF Enqueue
<1>2. \E d \in Nat :
         /\ kept \in Seq(Event)
         /\ \A i \in 1 .. Len(kept) : i + d \in 1 .. Len(queue) /\ kept[i] = queue[i + d]
  <2>1. CASE full
    <3>1. queue # <<>>
      BY <1>t, <2>1
    <3>2. /\ Tail(queue) \in Seq(Event) /\ Len(Tail(queue)) = Len(queue) - 1
          /\ \A i \in 1 .. Len(Tail(queue)) : Tail(queue)[i] = queue[i + 1]
      BY <1>t, <3>1, HeadTailProperties
    <3>3. \A i \in 1 .. Len(Tail(queue)) :
             i + 1 \in 1 .. Len(queue) /\ Tail(queue)[i] = queue[i + 1]
      BY <1>t, <3>2
    <3> QED BY <2>1, <3>2, <3>3
  <2>2. CASE ~full
    <3>1. \A i \in 1 .. Len(queue) : i + 0 = i
      OBVIOUS
    <3> QED BY <1>t, <2>2, <3>1
  <2> QED BY <2>1, <2>2
<1>3. PICK d \in Nat :
         /\ kept \in Seq(Event)
         /\ \A i \in 1 .. Len(kept) : i + d \in 1 .. Len(queue) /\ kept[i] = queue[i + d]
  BY <1>2
<1> HIDE DEF kept
<1>4. Len(kept) \in Nat
  BY <1>3
<1>5. PICK n \in Nat : n = Len(kept)
  BY <1>4
<1>6. /\ DOMAIN queue' = 1 .. n + 1 /\ queue'[n + 1] = e /\ queue' # <<>>
      /\ \A i \in 1 .. n : queue'[i] = kept[i]
  <2>1. kept \in Seq(Event)
    BY <1>3
  <2>2. /\ DOMAIN kept = 1 .. Len(kept)
        /\ DOMAIN Append(kept, e) = 1 .. Len(kept) + 1 /\ Append(kept, e)[Len(kept) + 1] = e
        /\ \A i \in DOMAIN kept : Append(kept, e)[i] = kept[i]
        /\ Append(kept, e) # <<>>
    BY <2>1, Appended, Zenon
  <2> QED BY <1>1, <1>5, <2>2
<1>7. \A i \in DOMAIN queue' : i \in 1 .. n \/ i = n + 1
  BY <1>6
<1>8. \A i \in 1 .. n : i + d \in DOMAIN queue /\ queue'[i] = queue[i + d]
  BY <1>t, <1>3, <1>5, <1>6
<1>9. ASSUME NEW i \in DOMAIN queue', NEW j \in DOMAIN queue', i < j
      PROVE  \E m \in DOMAIN queue :
                /\ queue'[i] = queue[m]
                /\ queue'[j] = e \/ \E k \in DOMAIN queue : m < k /\ queue'[j] = queue[k]
  <2>1. i \in 1 .. n
    BY <1>6, <1>9
  <2>2. CASE j = n + 1
    BY <1>6, <1>8, <2>1, <2>2
  <2>3. CASE j \in 1 .. n
    <3>1. i + d < j + d
      BY <1>9, <2>1, <2>3
    <3> QED BY <1>8, <2>1, <2>3, <3>1
  <2> QED BY <1>7, <2>2, <2>3
<1>10. \A i \in DOMAIN queue' :
          queue'[i] = e \/ \E m \in DOMAIN queue : queue'[i] = queue[m]
  BY <1>6, <1>7, <1>8
<1> QED BY <1>6, <1>9, <1>10

LEMMA EnqueueOrder ==
    ASSUME OInv, NEW e \in Event, Enqueue(e), e \notin ToSet(offered), Fresh(e), UNCHANGED acked
    PROVE  Order' /\ Unwritten' /\ BackoffOnlyWithWork'
<1>t. /\ offered \in Seq(Event) /\ DOMAIN offered = 1 .. Len(offered) /\ Len(offered) \in Nat
      /\ snapAt \in Nat /\ snapAt <= Len(offered) /\ phase \in {"asleep", "writing"}
      /\ acked \in [Event -> Nat] /\ attempt \in Nat
  BY Types DEF OInv, MaxAttempt
<1>o. IInv /\ Order /\ Unwritten /\ BackoffOnlyWithWork
  BY DEF OInv
<1>1. /\ offered' = Append(offered, e)
      /\ UNCHANGED <<phase, batch, pos, failed, attempt, snapAt, snapDrops>>
  BY DEF Enqueue, loopVars
<1>2. /\ Len(offered') = Len(offered) + 1
      /\ DOMAIN offered' = 1 .. Len(offered) + 1
      /\ \A k \in DOMAIN offered : k \in DOMAIN offered' /\ offered'[k] = offered[k]
      /\ offered'[Len(offered) + 1] = e
      /\ \A a, b : Before(a, b) => Before(a, b)'
  BY <1>t, <1>1, OfferedGrows
<1>3. \A i \in DOMAIN queue' :
         queue'[i] = e \/ \E m \in DOMAIN queue : queue'[i] = queue[m]
  BY <1>o, EnqueuePlaces
<1>4. \A k \in DOMAIN offered : Before(offered[k], e)'
  BY <1>t, <1>1, OfferedGrows
<1>5. \A k \in DOMAIN offered : offered[k] # e
  BY DEF ToSet
<1>6. Once'
  <2> SUFFICES ASSUME NEW k \in DOMAIN offered', NEW l \in DOMAIN offered',
                      offered'[k] = offered'[l]
               PROVE  k = l
    BY DEF Once
  <2>1. \A m \in DOMAIN offered' : m \in DOMAIN offered \/ m = Len(offered) + 1
    BY <1>t, <1>2
  <2> QED BY <1>o, <1>2, <1>5, <2>1 DEF Order, Once
<1>7. QueueOffered'
  <2> SUFFICES ASSUME NEW i \in DOMAIN queue' PROVE \E k \in DOMAIN offered' : offered'[k] = queue'[i]
    BY DEF QueueOffered
  <2>1. CASE queue'[i] = e
    <3>1. Len(offered) + 1 \in DOMAIN offered'
      BY <1>t, <1>2
    <3> QED BY <1>2, <2>1, <3>1
  <2>2. CASE \E m \in DOMAIN queue : queue'[i] = queue[m]
    BY <1>o, <1>2, <2>2 DEF Order, QueueOffered
  <2> QED BY <1>3, <2>1, <2>2
<1>8. Retried'
  <2>1. \A k \in 1 .. snapAt : k \in DOMAIN offered
    BY <1>t
  <2>2. \A k \in 1 .. snapAt : offered'[k] = offered[k]
    BY <1>2, <2>1
  <2>3. \A i \in DOMAIN batch : \E k \in 1 .. snapAt : offered'[k] = batch[i]
    BY <1>o, <2>2 DEF Order, Retried
  <2>4. \A i \in DOMAIN failed : \E j \in 1 .. pos - 1 : j \in DOMAIN batch /\ failed[i] = batch[j]
    BY <1>o DEF Order, Retried
  <2> QED BY <1>1, <2>3, <2>4 DEF Retried
<1>9. Ordered(batch)' /\ Ordered(failed)' /\ Asleep'
  BY <1>o, <1>1, <1>2 DEF Order, Ordered, Asleep
<1>10. Ordered(queue)'
  <2> SUFFICES ASSUME NEW i \in DOMAIN queue', NEW j \in DOMAIN queue', i < j
               PROVE  Before(queue[i], queue[j])'
    BY DEF Ordered
  <2>1. PICK m \in DOMAIN queue :
           /\ queue'[i] = queue[m]
           /\ queue'[j] = e \/ \E n \in DOMAIN queue : m < n /\ queue'[j] = queue[n]
    BY <1>o, EnqueuePlaces
  <2>2. CASE queue'[j] = e
    <3>1. PICK k \in DOMAIN offered : offered[k] = queue[m]
      BY <1>o DEF Order, QueueOffered
    <3> QED BY <1>2, <1>4, <2>1, <2>2, <3>1
  <2>3. CASE \E n \in DOMAIN queue : m < n /\ queue'[j] = queue[n]
    <3>1. Before(queue[m], queue'[j])
      BY <1>o, <2>3 DEF Order, Ordered
    <3> QED BY <1>2, <2>1, <3>1
  <2> QED BY <2>1, <2>2, <2>3
<1>12. Unwritten'
  <2>2. ASSUME phase = "asleep", NEW i \in DOMAIN queue' PROVE Fresh(queue[i])'
    BY <1>o, <1>3, <2>2 DEF Unwritten, Fresh
  <2>3. ASSUME phase = "writing", NEW k \in snapAt + 1 .. Len(offered') PROVE Fresh(offered[k])'
    <3>1. CASE k = Len(offered) + 1
      BY <1>2, <3>1 DEF Fresh
    <3>2. CASE k \in snapAt + 1 .. Len(offered)
      <4>1. k \in DOMAIN offered
        BY <1>t, <3>2
      <4> QED BY <1>o, <1>2, <2>3, <3>2, <4>1 DEF Unwritten, Fresh
    <3> QED BY <1>t, <1>2, <2>3, <3>1, <3>2
  <2>4. \A f \in Event : acked'[f] <= 1
    BY <1>o DEF Unwritten
  <2>5. phase = "writing" => /\ \A i \in pos .. Len(batch) : Fresh(batch[i])'
                             /\ \A i \in DOMAIN failed : Fresh(failed[i])'
    BY <1>o, <1>1 DEF Unwritten, Fresh
  <2> QED BY <1>1, <2>2, <2>3, <2>4, <2>5 DEF Unwritten, Fresh
<1>13. BackoffOnlyWithWork'
  BY <1>o, EnqueuePlaces DEF BackoffOnlyWithWork
<1> QED BY <1>6, <1>7, <1>8, <1>9, <1>10, <1>12, <1>13 DEF Order

-----------------------------------------------------------------------------
(***************************************************************************)
(* The steps of the retry loop.                                            *)
(***************************************************************************)
LEMMA EmptyOrder ==
    ASSUME OInv, RetryEmpty, UNCHANGED tableVars
    PROVE  Order' /\ Unwritten' /\ BackoffOnlyWithWork'
<1>1. /\ attempt' = 0
      /\ UNCHANGED <<queue, phase, batch, pos, failed, offered, snapAt, drops, snapDrops, acked>>
  BY DEF RetryEmpty, historyVars, tableVars
<1>2. Order'
  BY <1>1 DEF OInv, Order, Once, Asleep, QueueOffered, Retried, Ordered, Before
<1>3. Unwritten'
  BY <1>1 DEF OInv, Unwritten, Fresh
<1> QED BY <1>1, <1>2, <1>3 DEF BackoffOnlyWithWork

LEMMA SnapshotOrder ==
    ASSUME OInv, RetrySnapshot, UNCHANGED tableVars
    PROVE  Order' /\ Unwritten' /\ BackoffOnlyWithWork'
<1> USE Types DEF OInv
<1>1. /\ phase = "asleep" /\ phase' = "writing" /\ batch' = queue /\ pos' = 1 /\ failed' = <<>>
      /\ snapAt' = Len(offered)
      /\ UNCHANGED <<queue, attempt, offered, drops, acked>>
  BY DEF RetrySnapshot, tableVars
<1>2. Once' /\ Asleep' /\ QueueOffered' /\ Ordered(queue)' /\ Ordered(batch)' /\ Ordered(failed)'
  BY <1>1 DEF Order, Once, Asleep, QueueOffered, Ordered, Before
<1>3. Retried'
  BY <1>1 DEF Order, QueueOffered, Retried
<1>4. Unwritten'
  <2>1. \A i \in pos' .. Len(batch') : i \in DOMAIN queue
    BY <1>1
  <2>2. \A i \in pos' .. Len(batch') : Fresh(queue[i])
    BY <1>1, <2>1 DEF Unwritten
  <2>3. snapAt' + 1 .. Len(offered') = {}
    BY <1>1
  <2>4. DOMAIN failed' = {}
    BY <1>1
  <2> QED BY <1>1, <2>2, <2>3, <2>4 DEF Unwritten, Fresh
<1> QED BY <1>1, <1>2, <1>3, <1>4 DEF Order, BackoffOnlyWithWork

LEMMA WriteOrder ==
    ASSUME OInv, NEW out \in Outcome, RetryWrite(out)
    PROVE  Order' /\ Unwritten' /\ BackoffOnlyWithWork'
<1>t. /\ batch \in Seq(Event) /\ DOMAIN batch = 1 .. Len(batch) /\ Len(batch) \in Nat
      /\ failed \in Seq(Event) /\ pos \in Nat /\ pos >= 1
      /\ acked \in [Event -> Nat]
      /\ offered \in Seq(Event) /\ DOMAIN offered = 1 .. Len(offered) /\ Len(offered) \in Nat
      /\ snapAt \in Nat /\ snapAt <= Len(offered)
  BY Types DEF OInv
<1>o. /\ Once /\ Asleep /\ QueueOffered
      /\ Ordered(queue) /\ Ordered(batch) /\ Ordered(failed)
  BY DEF OInv, Order
<1>r. /\ \A i \in DOMAIN batch : \E k \in 1 .. snapAt : offered[k] = batch[i]
      /\ \A i \in DOMAIN failed : \E j \in 1 .. pos - 1 : j \in DOMAIN batch /\ failed[i] = batch[j]
  BY DEF OInv, Order, Retried
<1>1. /\ phase = "writing" /\ pos <= Len(batch) /\ pos' = pos + 1
      /\ UNCHANGED <<queue, phase, batch, attempt, offered, snapAt>>
  BY DEF RetryWrite, historyVars
<1>u. /\ \A f \in Event : acked[f] <= 1
      /\ \A i \in pos .. Len(batch) : Fresh(batch[i])
      /\ \A i \in DOMAIN failed : Fresh(failed[i])
      /\ \A k \in snapAt + 1 .. Len(offered) : Fresh(offered[k])
  BY <1>1 DEF OInv, Unwritten
<1>2. pos \in DOMAIN batch /\ pos \in pos .. Len(batch) /\ batch[pos] \in Event
  BY <1>t, <1>1
<1> DEFINE e == batch[pos]
<1>3. /\ failed' = IF out = "ok" THEN failed ELSE Append(failed, e)
      /\ acked' = [acked EXCEPT ![e] = IF out = "ok" THEN @ + 1 ELSE @]
  BY DEF RetryWrite, WriteUsageEvent, CommitRow
<1>4. e \in Event /\ Fresh(e)
  BY <1>2, <1>u
<1>5. \A i \in DOMAIN batch : i < pos \/ i > pos => batch[i] # e
  BY <1>2, <1>o, <1>t, BeforeStrict DEF Ordered
<1>6. PICK l \in 1 .. snapAt : offered[l] = e
  BY <1>2, <1>r
<1>7. \A k \in snapAt + 1 .. Len(offered) : k \in DOMAIN offered /\ offered[k] # e
  <2> TAKE k \in snapAt + 1 .. Len(offered)
  <2>1. k \in DOMAIN offered /\ l \in DOMAIN offered /\ k # l
    BY <1>t
  <2> QED BY <1>6, <1>o, <2>1 DEF Once
<1>8. \A i \in DOMAIN failed : failed[i] # e
  <2> TAKE i \in DOMAIN failed
  <2>1. PICK j \in 1 .. pos - 1 : j \in DOMAIN batch /\ failed[i] = batch[j]
    BY <1>r
  <2>2. j < pos
    BY <1>t
  <2> QED BY <1>5, <2>1, <2>2
<1> HIDE DEF e
<1>9. /\ Once' /\ Asleep' /\ QueueOffered'
  BY <1>1, <1>o DEF Once, Asleep, QueueOffered
<1>10. Ordered(queue)' /\ Ordered(batch)'
  BY <1>1, <1>o DEF Ordered, Before
<1>11. BackoffOnlyWithWork'
  BY <1>1 DEF BackoffOnlyWithWork
<1>12. \A j : j \in 1 .. pos - 1 \/ j = pos => j \in 1 .. pos' - 1
  BY <1>1, <1>t
<1>13. CASE out = "ok"
  <2>1. failed' = failed /\ acked'[e] = 1 /\ \A f \in Event : f # e => acked'[f] = acked[f]
    BY <1>3, <1>4, <1>t, <1>13 DEF Fresh
  <2>2. Ordered(failed)'
    BY <1>1, <1>o, <2>1 DEF Ordered, Before
  <2>3. Retried'
    BY <1>1, <1>12, <1>r, <2>1 DEF Retried
  <2>4. Unwritten'
    <3>1. \A f \in Event : acked'[f] <= 1
      <4>1. \A f \in Event : f = e \/ f # e
        OBVIOUS
      <4> QED BY <1>u, <2>1, <4>1
    <3>3. ASSUME NEW i \in pos' .. Len(batch) PROVE acked'[batch[i]] = 0
      <4>1. i \in pos .. Len(batch) /\ i \in DOMAIN batch /\ i > pos
        BY <1>1, <1>t
      <4>2. batch[i] # e /\ Fresh(batch[i]) /\ batch[i] \in Event
        BY <1>5, <1>u, <1>t, <4>1 DEF e
      <4> QED BY <2>1, <4>2 DEF Fresh
    <3>4. ASSUME NEW i \in DOMAIN failed PROVE acked'[failed[i]] = 0
      <4>1. failed[i] # e /\ Fresh(failed[i]) /\ failed[i] \in Event
        BY <1>8, <1>u, <1>t
      <4> QED BY <2>1, <4>1 DEF Fresh
    <3>5. ASSUME NEW k \in snapAt + 1 .. Len(offered) PROVE acked'[offered[k]] = 0
      <4>1. offered[k] # e /\ Fresh(offered[k]) /\ offered[k] \in Event
        BY <1>7, <1>u, <1>t
      <4> QED BY <2>1, <4>1 DEF Fresh
    <3> QED BY <1>1, <2>1, <3>1, <3>3, <3>4, <3>5 DEF Unwritten, Fresh
  <2> QED BY <1>9, <1>10, <1>11, <2>2, <2>3, <2>4 DEF Order
<1>14. CASE out # "ok"
  <2>1. failed' = Append(failed, e) /\ acked' = acked
    BY <1>3, <1>4, <1>t, <1>14
  <2>2. PICK n \in Nat : n = Len(failed)
    BY <1>t
  <2>3. /\ DOMAIN failed' = 1 .. n + 1 /\ failed'[n + 1] = e
        /\ \A i \in DOMAIN failed : failed'[i] = failed[i]
        /\ DOMAIN failed = 1 .. n
    BY <1>4, <1>t, <2>1, <2>2, Appended
  <2>4. \A i \in DOMAIN failed' : i \in DOMAIN failed \/ i = n + 1
    BY <2>3
  <2>5. Retried'
    <3>1. ASSUME NEW i \in DOMAIN failed'
          PROVE  \E j \in 1 .. pos' - 1 : j \in DOMAIN batch /\ failed'[i] = batch[j]
      <4>1. CASE i \in DOMAIN failed
        BY <1>12, <1>r, <2>3, <4>1
      <4>2. CASE i = n + 1
        BY <1>2, <1>12, <2>3, <4>2 DEF e
      <4> QED BY <2>4, <4>1, <4>2
    <3> QED BY <1>1, <1>r, <3>1 DEF Retried
  <2>6. Ordered(failed)'
    <3> SUFFICES ASSUME NEW i \in DOMAIN failed', NEW j \in DOMAIN failed', i < j
                 PROVE  Before(failed'[i], failed'[j])
      BY <1>1 DEF Ordered, Before
    <3>1. i \in DOMAIN failed /\ failed'[i] = failed[i]
      <4>1. i \in 1 .. n
        BY <2>3
      <4> QED BY <2>3, <4>1
    <3>2. CASE j \in DOMAIN failed
      BY <1>o, <2>3, <3>1, <3>2 DEF Ordered
    <3>3. CASE j = n + 1
      <4>1. PICK m \in 1 .. pos - 1 : m \in DOMAIN batch /\ failed[i] = batch[m]
        BY <1>r, <3>1
      <4>2. m < pos
        BY <1>t
      <4> QED BY <1>2, <1>o, <2>3, <3>1, <3>3, <4>1, <4>2 DEF Ordered, e
    <3> QED BY <2>4, <3>2, <3>3
  <2>7. Unwritten'
    <3>1. ASSUME NEW i \in pos' .. Len(batch) PROVE Fresh(batch[i])
      <4>1. i \in pos .. Len(batch)
        BY <1>1, <1>t
      <4> QED BY <1>u, <4>1
    <3>2. ASSUME NEW i \in DOMAIN failed' PROVE Fresh(failed'[i])
      BY <1>u, <1>4, <2>3, <2>4
    <3> QED BY <1>1, <1>u, <2>1, <3>1, <3>2 DEF Unwritten, Fresh
  <2> QED BY <1>9, <1>10, <1>11, <2>5, <2>6, <2>7 DEF Order
<1> QED BY <1>13, <1>14

\* The merge puts what failed, which was offered before the copy, in front of
\* what was offered after it.
LEMMA MergeOrder ==
    ASSUME OInv, RetryMerge, UNCHANGED tableVars
    PROVE  Order' /\ Unwritten' /\ BackoffOnlyWithWork'
<1>t. /\ failed \in Seq(Event) /\ Len(failed) \in Nat /\ DOMAIN failed = 1 .. Len(failed)
      /\ offered \in Seq(Event) /\ DOMAIN offered = 1 .. Len(offered) /\ Len(offered) \in Nat
      /\ snapAt \in Nat /\ snapAt <= Len(offered) /\ DropsSince \in Nat
  BY Types DEF OInv
<1>1. /\ phase = "writing" /\ phase' = "asleep" /\ batch' = <<>> /\ failed' = <<>>
      /\ UNCHANGED <<offered, snapAt, acked>>
      /\ attempt' > 0 => failed # <<>>
  BY DEF RetryMerge, historyVars, tableVars
<1> DEFINE rest == From(Arrived, DropsSince + 1)
<1>2. queue' = failed \o rest
  BY <1>1, NewlyEnqueued DEF RetryMerge, OInv
<1>3. /\ rest \in Seq(Event)
      /\ \A i \in DOMAIN rest : /\ rest[i] = offered[snapAt + DropsSince + i]
                               /\ snapAt + DropsSince + i \in snapAt + 1 .. Len(offered)
      /\ DOMAIN rest \subseteq Nat
  <2>1. /\ Arrived \in Seq(Event) /\ Len(Arrived) = Len(offered) - snapAt
        /\ \A i \in 1 .. Len(Arrived) : Arrived[i] = offered[snapAt + i]
    BY ArrivedSeq DEF OInv
  <2>3. PICK d \in Nat : d = DropsSince
    BY <1>t
  <2>4. PICK a \in Nat : a = Len(Arrived)
    BY <2>1
  <2>2. rest \in Seq(Event)
    BY <2>1, <2>3, Suffix
  <2>5. \A i \in DOMAIN rest : i \in Nat /\ rest[i] = Arrived[d + i] /\ d + i \in 1 .. a
    BY <2>1, <2>3, <2>4, Suffix
  <2>6. ASSUME NEW i \in DOMAIN rest
        PROVE  /\ rest[i] = offered[snapAt + DropsSince + i] /\ i \in Nat
               /\ snapAt + DropsSince + i \in snapAt + 1 .. Len(offered)
    <3>1. rest[i] = offered[snapAt + (d + i)] /\ d + i \in 1 .. a /\ i \in Nat
      BY <2>1, <2>4, <2>5
    <3>2. snapAt + (d + i) = snapAt + DropsSince + i
      BY <1>t, <2>3, <3>1
    <3>3. snapAt + (d + i) \in snapAt + 1 .. Len(offered)
      BY <1>t, <2>1, <2>4, <3>1
    <3> QED BY <3>1, <3>2, <3>3
  <2> QED BY <2>2, <2>6
<1> HIDE DEF rest
<1>4. PICK n \in Nat : n = Len(failed)
  BY <1>t
<1>5. /\ \A i \in DOMAIN queue' : i \in 1 .. n \/ (i > n /\ i - n \in DOMAIN rest)
      /\ \A i \in 1 .. n : i \in DOMAIN failed /\ queue'[i] = failed[i]
      /\ \A i \in DOMAIN queue' : i > n => queue'[i] = rest[i - n]
      /\ DOMAIN queue' \subseteq Nat
      /\ failed # <<>> => queue' # <<>>
  <2>1. PICK m \in Nat : m = Len(rest)
    BY <1>3
  <2>2. /\ DOMAIN queue' = 1 .. n + m /\ DOMAIN rest = 1 .. m
        /\ \A i \in 1 .. n + m : queue'[i] = IF i <= n THEN failed[i] ELSE rest[i - n]
    BY <1>2, <1>3, <1>4, <1>t, <2>1
  <2>3. failed # <<>> => queue' # <<>>
    BY <1>2, <1>3, <1>t
  <2>4. DOMAIN failed = 1 .. n
    BY <1>4, <1>t
  <2> QED BY <2>2, <2>3, <2>4
<1>6. ASSUME NEW i \in 1 .. n
      PROVE  \E k \in 1 .. snapAt : k \in DOMAIN offered /\ offered[k] = queue'[i]
  <2>1. PICK j \in DOMAIN batch : failed[i] = batch[j]
    BY <1>5 DEF OInv, Order, Retried
  <2>2. PICK k \in 1 .. snapAt : offered[k] = batch[j]
    BY DEF OInv, Order, Retried
  <2> QED BY <1>5, <1>t, <2>1, <2>2
<1>7. ASSUME NEW i \in DOMAIN queue', i > n
      PROVE  /\ queue'[i] = offered[snapAt + DropsSince + (i - n)]
             /\ snapAt + DropsSince + (i - n) \in snapAt + 1 .. Len(offered)
             /\ snapAt + DropsSince + (i - n) \in DOMAIN offered
  <2>1. i - n \in DOMAIN rest
    BY <1>5, <1>7
  <2>2. /\ queue'[i] = offered[snapAt + DropsSince + (i - n)]
        /\ snapAt + DropsSince + (i - n) \in snapAt + 1 .. Len(offered)
    BY <1>3, <1>5, <1>7, <2>1
  <2> QED BY <1>t, <2>2
<1>8. Once' /\ Asleep' /\ Retried' /\ Ordered(batch)' /\ Ordered(failed)'
  BY <1>1 DEF OInv, Order, Once, Asleep, Retried, Ordered
<1>9. QueueOffered'
  <2> SUFFICES ASSUME NEW i \in DOMAIN queue' PROVE \E k \in DOMAIN offered : offered[k] = queue'[i]
    BY <1>1 DEF QueueOffered
  <2> QED BY <1>5, <1>6, <1>7
<1>10. Ordered(queue)'
  <2> SUFFICES ASSUME NEW i \in DOMAIN queue', NEW j \in DOMAIN queue', i < j
               PROVE  Before(queue'[i], queue'[j])
    BY <1>1 DEF Ordered, Before
  <2>0. i \in Nat /\ j \in Nat
    BY <1>5
  <2>1. CASE i \in 1 .. n /\ j \in 1 .. n
    BY <1>5, <2>1 DEF OInv, Order, Ordered
  <2>2. CASE i \in 1 .. n /\ j > n
    <3>1. PICK k \in 1 .. snapAt : k \in DOMAIN offered /\ offered[k] = queue'[i]
      BY <1>6, <2>2
    <3>2. PICK l \in snapAt + 1 .. Len(offered) : l \in DOMAIN offered /\ offered[l] = queue'[j]
      BY <1>7, <2>2
    <3>3. k < l
      BY <1>t
    <3> QED BY <3>1, <3>2, <3>3 DEF Before
  <2>3. CASE i > n /\ j > n
    <3> DEFINE k == snapAt + DropsSince + (i - n)
               l == snapAt + DropsSince + (j - n)
    <3>1. k \in DOMAIN offered /\ l \in DOMAIN offered /\ offered[k] = queue'[i] /\ offered[l] = queue'[j]
      BY <1>7, <2>3
    <3>2. k < l
      BY <1>t, <2>0
    <3> QED BY <3>1, <3>2 DEF Before
  <2>4. ~(i > n /\ j \in 1 .. n)
    BY <2>0
  <2> QED BY <1>5, <2>1, <2>2, <2>3, <2>4
<1>11. Unwritten'
  <2>1. ASSUME NEW i \in DOMAIN queue' PROVE Fresh(queue'[i])
    <3>1. CASE i \in 1 .. n
      BY <1>1, <1>5, <3>1 DEF OInv, Unwritten
    <3>2. CASE i > n
      BY <1>1, <1>7, <3>2 DEF OInv, Unwritten
    <3> QED BY <1>5, <3>1, <3>2
  <2> QED BY <1>1, <2>1 DEF OInv, Unwritten, Fresh
<1>12. BackoffOnlyWithWork'
  BY <1>1, <1>5 DEF BackoffOnlyWithWork
<1> QED BY <1>8, <1>9, <1>10, <1>11, <1>12 DEF Order

\* An INSERT without an answer adds to no event's acknowledged rows.
LEMMA NotAcked ==
    ASSUME TableTypeOK, NEW e \in Event, NEW out, out # "ok", WriteUsageEvent(e, out)
    PROVE  UNCHANGED acked
BY DEF TableTypeOK, WriteUsageEvent, CommitRow

\* Steps that leave the queue and the acknowledgements alone.
LEMMA StillOrder ==
    ASSUME OInv, UNCHANGED <<dlqVars, acked>>
    PROVE  Order' /\ Unwritten' /\ BackoffOnlyWithWork'
<1>1. UNCHANGED <<queue, phase, batch, pos, failed, attempt, offered, snapAt, acked>>
  BY DEF dlqVars, loopVars, historyVars
<1>2. Order'
  BY <1>1 DEF OInv, Order, Once, Asleep, QueueOffered, Retried, Ordered, Before
<1>3. Unwritten'
  BY <1>1 DEF OInv, Unwritten, Fresh
<1> QED BY <1>1, <1>2, <1>3 DEF OInv, BackoffOnlyWithWork

\* Every step of the loop keeps the order, the unwritten events unwritten, and
\* the backoff.
LEMMA RetryOrder == OInv /\ RetryStep => OInv'
<1> SUFFICES ASSUME OInv, RetryStep PROVE Order' /\ Unwritten' /\ BackoffOnlyWithWork'
  BY NextInv DEF OInv, Next
<1>1. CASE RetryEmpty /\ UNCHANGED tableVars
  BY <1>1, EmptyOrder
<1>2. CASE RetrySnapshot /\ UNCHANGED tableVars
  BY <1>2, SnapshotOrder
<1>3. CASE \E out \in Outcome : RetryWrite(out)
  BY <1>3, WriteOrder
<1>4. CASE RetryMerge /\ UNCHANGED tableVars
  BY <1>4, MergeOrder
<1> QED BY <1>1, <1>2, <1>3, <1>4 DEF RetryStep

\* The loop writes events of its copy only.
LEMMA RetryRows ==
    ASSUME OInv, RetryStep, NEW e \in Event, e \notin ToSet(offered)
    PROVE  acked'[e] = acked[e] /\ unacked'[e] = unacked[e] /\ UNCHANGED offered
<1>1. CASE \E out \in Outcome : RetryWrite(out)
  <2>1. PICK out \in Outcome : RetryWrite(out)
    BY <1>1
  <2>2. pos \in DOMAIN batch /\ UNCHANGED offered /\ CommitRow(batch[pos], out)
    BY <2>1, Types DEF OInv, RetryWrite, historyVars, WriteUsageEvent
  <2>3. PICK k \in 1 .. snapAt : offered[k] = batch[pos]
    BY <2>2 DEF OInv, Order, Retried
  <2>k. k \in DOMAIN offered
    BY Types DEF OInv
  <2>4. batch[pos] # e
    BY <2>3, <2>k DEF ToSet
  <2>5. acked \in [Event -> Nat] /\ unacked \in [Event -> Nat]
    BY Types DEF OInv
  <2> QED BY <2>2, <2>4, <2>5 DEF CommitRow
<1>2. CASE ~(\E out \in Outcome : RetryWrite(out))
  <2>1. UNCHANGED tableVars /\ UNCHANGED offered
    BY <1>2 DEF RetryStep, RetryEmpty, RetrySnapshot, RetryMerge, historyVars
  <2> QED BY <2>1 DEF tableVars
<1> QED BY <1>1, <1>2

\* With the logger of this module nobody else writes.
LEMMA OrderStep == OInv /\ Untouched /\ [Next]_vars => OInv' /\ Untouched'
<1> SUFFICES ASSUME OInv, Untouched, [Next]_vars
             PROVE  Order' /\ Unwritten' /\ BackoffOnlyWithWork' /\ Untouched'
  BY NextInv DEF OInv
<1>1. CASE RetryStep
  <2>1. OInv'
    BY <1>1, RetryOrder
  <2>2. UNCHANGED offered
    BY <1>1 DEF RetryStep, RetryEmpty, RetrySnapshot, RetryWrite, RetryMerge, historyVars
  <2>3. ASSUME NEW e \in Event, e \notin ToSet(offered) PROVE acked'[e] = 0
    BY <1>1, <2>3, RetryRows DEF Untouched, Fresh
  <2>4. Untouched'
    BY <2>2, <2>3 DEF Untouched, Fresh
  <2> QED BY <2>1, <2>4 DEF OInv
<1>5. ASSUME NEW e \in Event, NEW out \in Outcome, Arrive(e, out)
      PROVE  Order' /\ Unwritten' /\ BackoffOnlyWithWork' /\ Untouched'
  <2>1. UNCHANGED acked
    BY <1>5, NotAcked DEF Arrive, OInv, IInv, TypeOK
  <2>2. Order' /\ Unwritten' /\ BackoffOnlyWithWork'
    BY <1>5, <2>1, EnqueueOrder DEF Arrive, Untouched
  <2>3. \A f \in ToSet(offered) : f \in ToSet(offered')
    <3>1. offered' = Append(offered, e) /\ offered \in Seq(Event)
      BY <1>5, Types DEF Arrive, Enqueue, OInv
    <3>2. \A k \in DOMAIN offered : k \in DOMAIN offered' /\ offered'[k] = offered[k]
      BY <3>1, OfferedGrows
    <3> QED BY <3>2 DEF ToSet
  <2> QED BY <2>1, <2>2, <2>3 DEF Untouched, Fresh
<1>6. CASE (DBFails \/ DBRecovers) /\ UNCHANGED dlqVars
  <2>1. UNCHANGED acked
    BY <1>6 DEF DBFails, DBRecovers
  <2> QED BY <1>6, <2>1, StillOrder DEF Untouched, Fresh, dlqVars, historyVars
<1>7. CASE UNCHANGED vars
  <2>1. UNCHANGED dlqVars /\ UNCHANGED acked
    BY <1>7 DEF vars, tableVars
  <2> QED BY <2>1, StillOrder DEF Untouched, Fresh, dlqVars, historyVars
<1> QED BY <1>1, <1>5, <1>6, <1>7 DEF Next, Environment

LEMMA OrderInvariance == Spec => [](OInv /\ Untouched)
<1>1. Init => OInv /\ Untouched
  BY OInitInv DEF Init, TableInit, Untouched, Fresh
<1> QED BY <1>1, OrderStep, PTL DEF Spec

\* The queue stays in the order of arrival across any number of retries and
\* drops, so that the event dropped by a full queue (proxy/dlq.go:31-34) is the
\* oldest one it holds: failures are put back in front (proxy/dlq.go:64).
THEOREM StaysInOrder == Spec => []OldestFirst
<1>1. OInv => OldestFirst
  BY DEF OInv, Order, Ordered, Before, OldestFirst
<1> QED BY <1>1, OrderInvariance, PTL

\* An acknowledged INSERT is never repeated (proxy/dlq.go:50-65, 76-86): what is
\* put back has failed, and what is still in the queue behind the copy was never
\* tried.
THEOREM NeverRepeated == Spec => []AckedOnce
<1>1. OInv => AckedOnce
  BY DEF OInv, Unwritten, AckedOnce
<1> QED BY <1>1, OrderInvariance, PTL

\* retryLoop backs off only while the queue holds something to retry
\* (proxy/dlq.go:44-48, 67-72).
THEOREM BackoffHasWork == Spec => []BackoffOnlyWithWork
<1>1. OInv => BackoffOnlyWithWork
  BY DEF OInv
<1> QED BY <1>1, OrderInvariance, PTL

-----------------------------------------------------------------------------
(***************************************************************************)
(* How many events are lost.  An event is counted by its place in offered. *)
(***************************************************************************)
\* Between retries: the places whose event is in no row and not in the queue.
Gone ==
    {k \in DOMAIN offered :
        ~Stored(offered[k]) /\ \A i \in DOMAIN queue : queue[i] # offered[k]}

\* During a retry: the places before the copy whose event is in no row, will not
\* be written by this retry and will not be put back by its merge.
GoneBefore ==
    {k \in 1 .. snapAt :
        /\ ~Stored(offered[k])
        /\ \A i \in pos .. Len(batch) : batch[i] # offered[k]
        /\ \A i \in DOMAIN failed : failed[i] # offered[k]}

Loss ==
    /\ phase = "asleep" => Cardinality(Gone) <= drops
    /\ phase = "writing" => Cardinality(GoneBefore) <= snapDrops

\* Sets of places are finite.
LEMMA PlacesFinite ==
    ASSUME NEW n \in Nat, NEW S, S \subseteq 1 .. n
    PROVE  IsFiniteSet(S) /\ Cardinality(S) \in Nat
<1>1. IsFiniteSet(1 .. n)
  BY FS_Interval
<1>2. IsFiniteSet(S)
  BY <1>1, FS_Subset
<1> QED BY <1>2, FS_CardinalityType

LEMMA FewerPlaces ==
    ASSUME NEW n \in Nat, NEW S, S \subseteq 1 .. n, NEW T, T \subseteq S
    PROVE  Cardinality(T) <= Cardinality(S)
BY PlacesFinite, FS_Subset

LEMMA OnePlaceMore ==
    ASSUME NEW n \in Nat, NEW S, S \subseteq 1 .. n, NEW h \in 1 .. n, NEW T, T \subseteq S \cup {h}
    PROVE  Cardinality(T) <= Cardinality(S) + 1
<1>1. /\ IsFiniteSet(S) /\ Cardinality(S) \in Nat
  BY PlacesFinite
<1>2. Cardinality(S \cup {h}) <= Cardinality(S) + 1
  <2>1. Cardinality(S \cup {h}) = IF h \in S THEN Cardinality(S) ELSE Cardinality(S) + 1
    BY <1>1, FS_AddElement
  <2> QED BY <1>1, <2>1
<1>3. S \cup {h} \subseteq 1 .. n
  OBVIOUS
<1>4. Cardinality(T) <= Cardinality(S \cup {h})
  BY <1>3, FewerPlaces
<1>5. Cardinality(T) \in Nat /\ Cardinality(S \cup {h}) \in Nat
  BY <1>3, PlacesFinite
<1> QED BY <1>1, <1>2, <1>4, <1>5

LEMMA IntervalMore ==
    ASSUME NEW n \in Nat, NEW S, S \subseteq 1 .. n, NEW a \in Nat, NEW d \in Nat, a + d <= n,
           NEW T, T \subseteq S \cup (a + 1 .. a + d)
    PROVE  Cardinality(T) <= Cardinality(S) + d
<1> DEFINE I == a + 1 .. a + d
           U == S \cup I
<1>1. I \subseteq 1 .. n
  OBVIOUS
<1>2. /\ IsFiniteSet(S) /\ Cardinality(S) \in Nat
      /\ IsFiniteSet(I) /\ Cardinality(I) \in Nat
  BY <1>1, PlacesFinite
<1>3. Cardinality(I) = d
  <2>1. Cardinality(I) = IF a + 1 > a + d THEN 0 ELSE (a + d) - (a + 1) + 1
    BY FS_Interval
  <2> QED BY <2>1
<1>4. S \cap I \subseteq 1 .. n
  BY <1>1
<1>5. Cardinality(S \cap I) \in Nat
  BY <1>4, PlacesFinite
<1>6. Cardinality(U) = Cardinality(S) + Cardinality(I) - Cardinality(S \cap I)
  BY <1>2, FS_Union
<1>7. U \subseteq 1 .. n
  BY <1>1
<1>8. Cardinality(T) <= Cardinality(U)
  BY <1>7, FewerPlaces
<1>9. Cardinality(T) \in Nat /\ Cardinality(U) \in Nat
  BY <1>7, PlacesFinite
<1> HIDE DEF I, U
<1> QED BY <1>2, <1>3, <1>5, <1>6, <1>8, <1>9

\* A row stays a row.
LEMMA StoredStays ==
    ASSUME TableTypeOK, NEW e \in Event, NEW out, WriteUsageEvent(e, out), NEW f \in Event, Stored(f)
    PROVE  Stored(f)'
<1>1. /\ acked \in [Event -> Nat] /\ unacked \in [Event -> Nat]
      /\ acked' = [acked EXCEPT ![e] = IF out = "ok" THEN @ + 1 ELSE @]
      /\ unacked' = [unacked EXCEPT ![e] = IF out = "unknown" THEN @ + 1 ELSE @]
  BY DEF TableTypeOK, WriteUsageEvent, CommitRow
<1>2. /\ acked[f] \in Nat /\ unacked[f] \in Nat
      /\ acked'[f] \in {acked[f], acked[f] + 1} /\ unacked'[f] \in {unacked[f], unacked[f] + 1}
  BY <1>1
<1> QED BY <1>2 DEF Stored

LEMMA WrittenStored ==
    ASSUME TableTypeOK, NEW e \in Event, WriteUsageEvent(e, "ok")
    PROVE  Stored(e)'
<1>1. acked[e] \in Nat /\ unacked[e] \in Nat /\ acked'[e] = acked[e] + 1 /\ unacked'[e] = unacked[e]
  BY DEF TableTypeOK, WriteUsageEvent, CommitRow
<1> QED BY <1>1 DEF Stored

LEMMA PlaceTypes ==
    ASSUME IInv
    PROVE  /\ Gone \subseteq 1 .. Len(offered) /\ GoneBefore \subseteq 1 .. Len(offered)
           /\ \A k \in 1 .. Len(offered) : offered[k] \in Event
           /\ Cardinality(Gone) \in Nat /\ Cardinality(GoneBefore) \in Nat
<1>1. /\ offered \in Seq(Event) /\ Len(offered) \in Nat /\ DOMAIN offered = 1 .. Len(offered)
      /\ snapAt \in Nat /\ snapAt <= Len(offered)
  BY Types
<1>2. Gone \subseteq 1 .. Len(offered) /\ GoneBefore \subseteq 1 .. Len(offered)
  BY <1>1 DEF Gone, GoneBefore
<1>3. \A k \in 1 .. Len(offered) : offered[k] \in Event
  BY <1>1
<1>4. Cardinality(Gone) \in Nat /\ Cardinality(GoneBefore) \in Nat
  BY <1>1, <1>2, PlacesFinite, Zenon
<1> QED BY <1>2, <1>3, <1>4

-----------------------------------------------------------------------------
\* A full queue gives up the event at its head, and no other.
LEMMA EnqueueLoss ==
    ASSUME OInv, Loss, NEW e \in Event, NEW out, WriteUsageEvent(e, out), Enqueue(e)
    PROVE  Loss'
<1>t. /\ queue \in Seq(Event) /\ Len(queue) \in Nat /\ DOMAIN queue = 1 .. Len(queue)
      /\ offered \in Seq(Event) /\ Len(offered) \in Nat /\ DOMAIN offered = 1 .. Len(offered)
      /\ snapAt \in Nat /\ snapAt <= Len(offered) /\ drops \in Nat
  BY Types DEF OInv
<1>1. /\ offered' = Append(offered, e)
      /\ UNCHANGED <<phase, batch, pos, failed, attempt, snapAt, snapDrops>>
  BY DEF Enqueue, loopVars
<1>2. /\ Len(offered') = Len(offered) + 1
      /\ DOMAIN offered' = 1 .. Len(offered) + 1
      /\ \A k \in DOMAIN offered : offered'[k] = offered[k]
      /\ offered'[Len(offered) + 1] = e
  BY <1>t, <1>1, OfferedGrows
<1>3. \A k \in DOMAIN offered : Stored(offered[k]) => Stored(offered[k])'
  <2> TAKE k \in DOMAIN offered
  <2>1. offered[k] \in Event
    BY <1>t
  <2>2. Stored(offered[k]) => Stored(offered[k])'
    BY <2>1, <1>2, StoredStays DEF OInv, IInv, TypeOK, Stored
  <2> QED BY <2>2
<1>4. ASSUME phase = "writing" PROVE Cardinality(GoneBefore') <= snapDrops
  <2>1. GoneBefore' \subseteq GoneBefore
    <3> SUFFICES ASSUME NEW k \in GoneBefore' PROVE k \in GoneBefore
      OBVIOUS
    <3>1. /\ k \in 1 .. snapAt /\ ~Stored(offered[k])'
          /\ \A i \in pos .. Len(batch) : batch[i] # offered'[k]
          /\ \A i \in DOMAIN failed : failed[i] # offered'[k]
      BY <1>1 DEF GoneBefore
    <3>2. k \in DOMAIN offered
      BY <1>t, <3>1
    <3>3. offered'[k] = offered[k] /\ ~Stored(offered[k])
      BY <1>2, <1>3, <3>1, <3>2
    <3> QED BY <3>1, <3>3 DEF GoneBefore
  <2>2. Cardinality(GoneBefore') <= Cardinality(GoneBefore)
    BY <1>t, <2>1, FewerPlaces, PlaceTypes DEF OInv
  <2>3. Cardinality(GoneBefore) <= snapDrops
    BY <1>4 DEF Loss
  <2>4. /\ Cardinality(GoneBefore) \in Nat /\ snapDrops \in Nat /\ snapAt' \in Nat
        /\ GoneBefore' \subseteq 1 .. snapAt'
    BY <1>t, <1>1, PlaceTypes, Types DEF OInv, GoneBefore
  <2>5. Cardinality(GoneBefore') \in Nat
    BY <2>4, PlacesFinite
  <2> QED BY <2>2, <2>3, <2>4, <2>5
<1>5. ASSUME phase = "asleep" PROVE Cardinality(Gone') <= drops'
  <2>0. /\ Cardinality(Gone) <= drops /\ Cardinality(Gone) \in Nat
        /\ Gone \subseteq 1 .. Len(offered)
    BY <1>5, PlaceTypes DEF Loss, OInv
  <2>g. ASSUME NEW k \in Gone'
        PROVE  /\ k \in DOMAIN offered /\ ~Stored(offered[k])
               /\ \A i \in DOMAIN queue' : queue'[i] # offered[k]
    <3>1. /\ k \in 1 .. Len(offered) + 1 /\ ~Stored(offered[k])'
          /\ \A i \in DOMAIN queue' : queue'[i] # offered'[k]
      BY <1>2 DEF Gone
    <3>2. \E i \in DOMAIN queue' : queue'[i] = e
      <4>0. queue # <<>> => Tail(queue) \in Seq(Event)
        BY <1>t, HeadTailProperties
      <4>1. PICK q \in Seq(Event) : queue' = Append(q, e)
        <5>1. CASE Len(queue) >= DLQCap
          <6>1. Tail(queue) \in Seq(Event) /\ queue' = Append(Tail(queue), e)
            BY <1>t, <4>0, <5>1, DLQCapAssumption DEF Enqueue
          <6> QED BY <6>1, Zenon
        <5>2. CASE ~(Len(queue) >= DLQCap)
          <6>1. queue' = Append(queue, e)
            BY <5>2 DEF Enqueue
          <6> QED BY <1>t, <6>1, Zenon
        <5> QED BY <5>1, <5>2
      <4> QED BY <4>1, Appended
    <3>3. k # Len(offered) + 1
      BY <1>2, <3>1, <3>2
    <3>4. k \in DOMAIN offered
      BY <1>t, <3>1, <3>3
    <3> QED BY <1>2, <1>3, <3>1, <3>4
  <2>1. CASE Len(queue) >= DLQCap
    <3>1. /\ drops' = drops + 1 /\ queue' = Append(Tail(queue), e) /\ queue # <<>>
          /\ 1 \in DOMAIN queue
      BY <1>t, <2>1, DLQCapAssumption DEF Enqueue
    <3>2. \A i \in DOMAIN queue : i # 1 => \E j \in DOMAIN queue' : queue'[j] = queue[i]
      <4>1. /\ Tail(queue) \in Seq(Event) /\ Len(Tail(queue)) = Len(queue) - 1
            /\ \A i \in 1 .. Len(Tail(queue)) : Tail(queue)[i] = queue[i + 1]
        BY <1>t, <3>1, HeadTailProperties
      <4>2. /\ DOMAIN queue' = 1 .. Len(Tail(queue)) + 1
            /\ \A i \in 1 .. Len(Tail(queue)) : queue'[i] = Tail(queue)[i]
        BY <3>1, <4>1, Appended
      <4> SUFFICES ASSUME NEW i \in DOMAIN queue, i # 1
                   PROVE  \E j \in DOMAIN queue' : queue'[j] = queue[i]
        OBVIOUS
      <4>3. i - 1 \in 1 .. Len(Tail(queue)) /\ (i - 1) + 1 = i
        BY <1>t, <4>1
      <4>4. i - 1 \in DOMAIN queue'
        BY <1>t, <4>1, <4>2, <4>3
      <4>5. queue'[i - 1] = queue[i]
        BY <4>1, <4>2, <4>3
      <4> QED BY <4>4, <4>5
    <3>3. PICK h \in DOMAIN offered : offered[h] = queue[1]
      BY <3>1 DEF OInv, Order, QueueOffered
    <3>4. Gone' \subseteq Gone \cup {h}
      <4> SUFFICES ASSUME NEW k \in Gone', k # h PROVE k \in Gone
        OBVIOUS
      <4>1. \A i \in DOMAIN queue : queue[i] # offered[k]
        BY <2>g, <3>2, <3>3 DEF OInv, Order, Once
      <4> QED BY <2>g, <4>1 DEF Gone
    <3>5. Cardinality(Gone') <= Cardinality(Gone) + 1
      BY <1>t, <2>0, <3>4, OnePlaceMore
    <3>6. Cardinality(Gone') \in Nat
      <4>1. Gone' \subseteq 1 .. Len(offered)
        BY <1>t, <2>0, <3>4
      <4> QED BY <1>t, <4>1, PlacesFinite
    <3> QED BY <1>t, <2>0, <3>1, <3>5, <3>6
  <2>2. CASE ~(Len(queue) >= DLQCap)
    <3>1. drops' = drops /\ queue' = Append(queue, e)
      BY <2>2 DEF Enqueue
    <3>2. \A i \in DOMAIN queue : i \in DOMAIN queue' /\ queue'[i] = queue[i]
      BY <1>t, <3>1, Appended
    <3>3. Gone' \subseteq Gone
      BY <2>g, <3>2 DEF Gone
    <3>4. Cardinality(Gone') <= Cardinality(Gone)
      BY <1>t, <2>0, <3>3, FewerPlaces
    <3>5. Cardinality(Gone') \in Nat
      <4>1. Gone' \subseteq 1 .. Len(offered)
        BY <2>0, <3>3
      <4> QED BY <1>t, <4>1, PlacesFinite
    <3> QED BY <1>t, <2>0, <3>1, <3>4, <3>5
  <2> QED BY <2>1, <2>2
<1> QED BY <1>1, <1>4, <1>5 DEF Loss

\* The copy puts every event of the queue into the hands of the retry.
LEMMA SnapshotLoss ==
    ASSUME OInv, Loss, RetrySnapshot, UNCHANGED tableVars
    PROVE  Loss'
<1>t. /\ Len(offered) \in Nat /\ DOMAIN offered = 1 .. Len(offered)
      /\ Len(queue) \in Nat /\ DOMAIN queue = 1 .. Len(queue)
  BY Types DEF OInv
<1>1. /\ phase = "asleep" /\ phase' = "writing" /\ batch' = queue /\ pos' = 1
      /\ snapAt' = Len(offered) /\ snapDrops' = drops
      /\ UNCHANGED <<offered, acked, unacked>>
  BY DEF RetrySnapshot, tableVars
<1>2. GoneBefore' \subseteq Gone
  <2>1. pos' .. Len(batch') = DOMAIN queue
    BY <1>t, <1>1
  <2> QED BY <1>t, <1>1, <2>1 DEF GoneBefore, Gone, Stored
<1>3. Gone \subseteq 1 .. Len(offered)
  BY PlaceTypes DEF OInv
<1>4. Cardinality(GoneBefore') <= Cardinality(Gone)
  BY <1>t, <1>2, <1>3, FewerPlaces
<1>5. Cardinality(GoneBefore') \in Nat /\ Cardinality(Gone) \in Nat
  BY <1>t, <1>2, <1>3, PlacesFinite
<1>6. Cardinality(Gone) <= drops /\ drops \in Nat
  BY <1>1, Types DEF Loss, OInv
<1> QED BY <1>1, <1>4, <1>5, <1>6 DEF Loss

\* An INSERT of the retry makes a row or a failure of its event.
LEMMA WriteLoss ==
    ASSUME OInv, Loss, NEW out \in Outcome, RetryWrite(out)
    PROVE  Loss'
<1>t. /\ batch \in Seq(Event) /\ DOMAIN batch = 1 .. Len(batch) /\ Len(batch) \in Nat
      /\ failed \in Seq(Event) /\ pos \in Nat /\ pos >= 1
      /\ offered \in Seq(Event) /\ DOMAIN offered = 1 .. Len(offered) /\ Len(offered) \in Nat
      /\ snapAt \in Nat /\ snapAt <= Len(offered)
  BY Types DEF OInv
<1>1. /\ phase = "writing" /\ pos <= Len(batch) /\ pos' = pos + 1
      /\ failed' = IF out = "ok" THEN failed ELSE Append(failed, batch[pos])
      /\ WriteUsageEvent(batch[pos], out)
      /\ UNCHANGED <<queue, phase, batch, attempt, offered, snapAt, drops, snapDrops>>
  BY DEF RetryWrite, historyVars
<1>2. pos \in DOMAIN batch /\ batch[pos] \in Event
  BY <1>t, <1>1
<1>3. GoneBefore' \subseteq GoneBefore
  <2> SUFFICES ASSUME NEW k \in GoneBefore' PROVE k \in GoneBefore
    OBVIOUS
  <2>1. /\ k \in 1 .. snapAt /\ ~Stored(offered[k])'
        /\ \A i \in pos + 1 .. Len(batch) : batch[i] # offered[k]
        /\ \A i \in DOMAIN failed' : failed'[i] # offered[k]
    BY <1>1 DEF GoneBefore
  <2>2. offered[k] \in Event
    BY <1>t, <2>1
  <2>3. ~Stored(offered[k])
    BY <1>1, <1>2, <2>1, <2>2, StoredStays DEF OInv, IInv, TypeOK, Stored
  <2>4. batch[pos] # offered[k]
    <3>1. CASE out = "ok"
      <4>1. PICK e \in Event : e = batch[pos]
        BY <1>2
      <4>2. WriteUsageEvent(e, "ok") /\ TableTypeOK
        BY <1>1, <3>1, <4>1 DEF OInv, IInv, TypeOK
      <4>3. Stored(e)'
        BY <4>2, WrittenStored
      <4> QED BY <1>1, <2>1, <4>1, <4>3 DEF Stored
    <3>2. CASE out # "ok"
      <4>1. /\ Len(failed) + 1 \in DOMAIN failed'
            /\ failed'[Len(failed) + 1] = batch[pos]
        BY <1>t, <1>1, <1>2, <3>2, Appended
      <4> QED BY <2>1, <4>1
    <3> QED BY <3>1, <3>2
  <2>5. \A i \in DOMAIN failed : failed[i] # offered[k]
    <3>1. \A i \in DOMAIN failed : i \in DOMAIN failed' /\ failed'[i] = failed[i]
      BY <1>t, <1>1, <1>2, Appended
    <3> QED BY <2>1, <3>1
  <2>6. \A i \in pos .. Len(batch) : i = pos \/ i \in pos + 1 .. Len(batch)
    BY <1>t
  <2> QED BY <2>1, <2>3, <2>4, <2>5, <2>6 DEF GoneBefore
<1>4. GoneBefore \subseteq 1 .. Len(offered)
  BY PlaceTypes DEF OInv
<1>5. Cardinality(GoneBefore') <= Cardinality(GoneBefore)
  BY <1>t, <1>3, <1>4, FewerPlaces
<1>6. Cardinality(GoneBefore') \in Nat /\ Cardinality(GoneBefore) \in Nat
  BY <1>t, <1>3, <1>4, PlacesFinite
<1>7. Cardinality(GoneBefore) <= snapDrops /\ snapDrops \in Nat
  BY <1>1, Types DEF Loss, OInv
<1> QED BY <1>1, <1>5, <1>6, <1>7 DEF Loss

\* The end of the queue during a retry: every arrival that was not cut off.
LEMMA ArrivalInQueue ==
    ASSUME IInv, phase = "writing", NEW k \in 1 .. Len(offered), k > snapAt + DropsSince
    PROVE  \E i \in DOMAIN queue : i > Len(batch) /\ queue[i] = offered[k]
<1>t. /\ Len(queue) \in Nat /\ DOMAIN queue = 1 .. Len(queue)
      /\ Len(offered) \in Nat /\ Len(batch) \in Nat /\ snapAt \in Nat /\ DropsSince \in Nat
  BY Types
<1>s. /\ Len(queue) = Len(batch) + (Len(offered) - snapAt) - DropsSince
      /\ \A i \in 1 .. Len(queue) : queue[i] = EventAt(i)
  BY DEF IInv, Shape
<1> DEFINE i == Len(batch) + k - snapAt - DropsSince
<1>1. /\ i \in 1 .. Len(queue) /\ i > Len(batch) /\ ~(i + DropsSince <= Len(batch))
      /\ snapAt + i + DropsSince - Len(batch) = k
  BY <1>t, <1>s
<1> HIDE DEF i
<1>2. queue[i] = offered[k]
  BY <1>s, <1>1 DEF EventAt
<1> QED BY <1>t, <1>1, <1>2

\* What a retry loses: nothing but what was lost before it and what it cuts off.
LEMMA CutOffBound ==
    ASSUME OInv, Loss, phase = "writing",
           NEW S, S \subseteq 1 .. Len(offered),
           \A k \in S : k <= snapAt => k \in GoneBefore,
           \A k \in S : k <= snapAt + DropsSince
    PROVE  Cardinality(S) <= drops
<1>t. /\ Len(offered) \in Nat /\ snapAt \in Nat /\ snapAt <= Len(offered)
      /\ DropsSince \in Nat /\ drops \in Nat /\ snapDrops \in Nat
  BY Types DEF OInv
<1>1. DropsSince <= Len(offered) - snapAt
  BY DEF OInv, IInv, Shape
<1>2. S \subseteq GoneBefore \cup (snapAt + 1 .. snapAt + DropsSince)
  BY <1>t
<1>3. GoneBefore \subseteq 1 .. Len(offered) /\ Cardinality(GoneBefore) \in Nat
  BY PlaceTypes DEF OInv
<1>4. snapAt + DropsSince <= Len(offered)
  BY <1>t, <1>1
<1>5. Cardinality(S) <= Cardinality(GoneBefore) + DropsSince
  BY <1>t, <1>2, <1>3, <1>4, IntervalMore
<1>6. Cardinality(GoneBefore) <= snapDrops
  BY DEF Loss
<1>7. Cardinality(S) \in Nat
  BY <1>t, PlacesFinite
<1>8. snapDrops + DropsSince = drops
  BY <1>t DEF DropsSince
<1> QED BY <1>t, <1>3, <1>5, <1>6, <1>7, <1>8

LEMMA MergeLoss ==
    ASSUME OInv, Loss, RetryMerge, UNCHANGED tableVars
    PROVE  Loss'
<1>t. /\ failed \in Seq(Event) /\ Len(failed) \in Nat /\ DOMAIN failed = 1 .. Len(failed)
      /\ queue \in Seq(Event) /\ Len(queue) \in Nat /\ DOMAIN queue = 1 .. Len(queue)
      /\ Len(batch) \in Nat /\ pos \in Nat
      /\ Len(offered) \in Nat /\ DOMAIN offered = 1 .. Len(offered)
  BY Types DEF OInv
<1>1. /\ phase = "writing" /\ phase' = "asleep" /\ pos > Len(batch)
      /\ queue' = failed \o SubSeq(queue, Cutoff + 1, Len(queue))
      /\ UNCHANGED <<offered, acked, unacked, drops>>
  BY DEF RetryMerge, historyVars, tableVars
<1>2. Cutoff = Len(batch) /\ Len(batch) <= Len(queue)
  BY <1>1, MergeFits DEF OInv
<1> DEFINE rest == SubSeq(queue, Len(batch) + 1, Len(queue))
<1>3. /\ rest \in Seq(Event) /\ DOMAIN rest = 1 .. Len(queue) - Len(batch)
      /\ \A i \in 1 .. Len(queue) - Len(batch) : rest[i] = queue[Len(batch) + i]
  BY <1>t, <1>2
<1>4. queue' = failed \o rest
  BY <1>1, <1>2
<1> HIDE DEF rest
<1>5. \A i \in DOMAIN failed : i \in DOMAIN queue' /\ queue'[i] = failed[i]
  BY <1>t, <1>3, <1>4
<1>6. \A i \in DOMAIN rest :
         Len(failed) + i \in DOMAIN queue' /\ queue'[Len(failed) + i] = rest[i]
  BY <1>t, <1>3, <1>4
<1>7. \A i \in DOMAIN queue : i > Len(batch) => \E j \in DOMAIN queue' : queue'[j] = queue[i]
  <2> SUFFICES ASSUME NEW i \in DOMAIN queue, i > Len(batch)
               PROVE  \E j \in DOMAIN queue' : queue'[j] = queue[i]
    OBVIOUS
  <2>1. i - Len(batch) \in DOMAIN rest /\ Len(batch) + (i - Len(batch)) = i
    BY <1>t, <1>3
  <2>2. rest[i - Len(batch)] = queue[i]
    BY <1>3, <2>1
  <2> QED BY <1>6, <2>1, <2>2
<1>8. Gone' \subseteq 1 .. Len(offered)
  BY <1>t, <1>1 DEF Gone
<1>9. \A k \in Gone' : k <= snapAt => k \in GoneBefore
  <2> SUFFICES ASSUME NEW k \in Gone', k <= snapAt PROVE k \in GoneBefore
    OBVIOUS
  <2>1. ~Stored(offered[k]) /\ \A i \in DOMAIN queue' : queue'[i] # offered[k]
    BY <1>1 DEF Gone, Stored
  <2>2. pos .. Len(batch) = {}
    BY <1>t, <1>1
  <2>3. k \in 1 .. snapAt
    BY <1>8, Types DEF OInv
  <2> QED BY <1>5, <2>1, <2>2, <2>3 DEF GoneBefore
<1>10. \A k \in Gone' : k <= snapAt + DropsSince
  <2> SUFFICES ASSUME NEW k \in Gone', ~(k <= snapAt + DropsSince) PROVE FALSE
    OBVIOUS
  <2>1. \A i \in DOMAIN queue' : queue'[i] # offered[k]
    BY <1>1 DEF Gone
  <2>2. k \in 1 .. Len(offered) /\ k > snapAt + DropsSince
    BY <1>8, Types DEF OInv
  <2>3. PICK i \in DOMAIN queue : i > Len(batch) /\ queue[i] = offered[k]
    BY <1>1, <2>2, ArrivalInQueue DEF OInv
  <2> QED BY <1>7, <2>1, <2>3
<1>11. Cardinality(Gone') <= drops
  BY <1>1, <1>8, <1>9, <1>10, CutOffBound
<1> QED BY <1>1, <1>11 DEF Loss

\* The steps that touch neither the events nor the rows.
LEMMA StillLoss ==
    ASSUME Loss, UNCHANGED <<queue, phase, batch, pos, failed, historyVars, acked, unacked>>
    PROVE  Loss'
<1>1. UNCHANGED <<queue, phase, batch, pos, failed, offered, snapAt, drops, snapDrops,
                  acked, unacked>>
  BY DEF historyVars
<1>2. Gone' = Gone /\ GoneBefore' = GoneBefore
  BY <1>1 DEF Gone, GoneBefore, Stored
<1> QED BY <1>1, <1>2 DEF Loss

LEMMA LossInit == Init => Loss
<1> SUFFICES ASSUME Init PROVE Loss
  OBVIOUS
<1>1. Gone \subseteq 1 .. 0
  BY DEF Init, DLQInit, Gone
<1>2. Cardinality(Gone) <= Cardinality(1 .. 0)
  BY <1>1, FewerPlaces
<1>3. Cardinality(1 .. 0) = 0
  BY FS_Interval
<1>4. Cardinality(Gone) \in Nat
  BY <1>1, PlacesFinite
<1> QED BY <1>2, <1>3, <1>4 DEF Init, DLQInit, Loss

LEMMA LossStep == OInv /\ Loss /\ [Next]_vars => Loss'
<1> SUFFICES ASSUME OInv, Loss, [Next]_vars PROVE Loss'
  OBVIOUS
<1>1. CASE RetryEmpty /\ UNCHANGED tableVars
  BY <1>1, StillLoss DEF RetryEmpty, tableVars
<1>2. CASE RetrySnapshot /\ UNCHANGED tableVars
  BY <1>2, SnapshotLoss
<1>3. CASE \E out \in Outcome : RetryWrite(out)
  BY <1>3, WriteLoss
<1>4. CASE RetryMerge /\ UNCHANGED tableVars
  BY <1>4, MergeLoss
<1>5. ASSUME NEW e \in Event, NEW out \in Outcome, Arrive(e, out) PROVE Loss'
  BY <1>5, EnqueueLoss DEF Arrive
<1>6. CASE (DBFails \/ DBRecovers) /\ UNCHANGED dlqVars
  <2>1. UNCHANGED <<acked, unacked>>
    BY <1>6 DEF DBFails, DBRecovers
  <2> QED BY <1>6, <2>1, StillLoss DEF dlqVars, loopVars
<1>7. CASE UNCHANGED vars
  BY <1>7, StillLoss DEF vars, dlqVars, loopVars, tableVars
<1> QED
  BY <1>1, <1>2, <1>3, <1>4, <1>5, <1>6, <1>7 DEF Next, RetryStep, Environment

LEMMA LossInvariance == Spec => [](OInv /\ Loss)
BY LossInit, LossStep, OrderInvariance, PTL DEF Spec

\* At any time at most one event per drop is lost (proxy/dlq.go:31-34, 57-65):
\* between retries the dropped events are the lost ones; during a retry the copy
\* still holds some of them, and the merge loses as many arrivals instead.
THEOREM LossesAreDrops == Spec => []LossBoundedByDrops
<1>1. ASSUME OInv, Loss PROVE LossBoundedByDrops
  <2> DEFINE S == {k \in DOMAIN offered : offered[k] \in Lost}
  <2>t. /\ offered \in Seq(Event) /\ Len(offered) \in Nat /\ DOMAIN offered = 1 .. Len(offered)
        /\ Len(batch) \in Nat /\ DOMAIN batch = 1 .. Len(batch)
        /\ batch \in Seq(Event) /\ pos \in 1 .. Len(batch) + 1
        /\ phase \in {"asleep", "writing"} /\ drops \in Nat /\ snapAt \in Nat
    BY <1>1, Types DEF OInv
  <2>1. S \subseteq 1 .. Len(offered)
    BY <2>t
  <2>2. Cardinality(Lost) <= Cardinality(S) /\ Cardinality(S) \in Nat /\ Cardinality(Lost) \in Nat
    <3> DEFINE f == [k \in S |-> offered[k]]
    <3>1. f \in [S -> Lost]
      OBVIOUS
    <3>2. \A e \in Lost : \E k \in S : f[k] = e
      BY DEF Lost, ToSet
    <3>3. f \in Surjection(S, Lost)
      BY <3>1, <3>2 DEF Surjection
    <3>4. IsFiniteSet(S) /\ Cardinality(S) \in Nat
      BY <2>t, <2>1, PlacesFinite
    <3>5. Cardinality(Lost) <= Cardinality(S) /\ IsFiniteSet(Lost)
      BY <3>3, <3>4, FS_Surjection
    <3> QED BY <3>4, <3>5, FS_CardinalityType
  <2>3. \A k \in S :
           /\ ~Stored(offered[k])
           /\ \A i \in DOMAIN queue : queue[i] # offered[k]
           /\ \A i \in DOMAIN failed : failed[i] # offered[k]
           /\ offered[k] \notin ToSet(From(batch, pos))
    BY DEF Lost, Held, ToSet
  <2>4. \A e : (\E i \in pos .. Len(batch) : batch[i] = e) => e \in ToSet(From(batch, pos))
    <3> SUFFICES ASSUME NEW i \in pos .. Len(batch)
                 PROVE  batch[i] \in ToSet(From(batch, pos))
      OBVIOUS
    <3>1. /\ i - pos + 1 \in DOMAIN SubSeq(batch, pos, Len(batch))
          /\ SubSeq(batch, pos, Len(batch))[i - pos + 1] = batch[i]
      BY <2>t
    <3> QED BY <3>1 DEF From, ToSet
  <2>5. CASE phase = "asleep"
    <3>1. S \subseteq Gone
      BY <2>3 DEF Gone
    <3>2. Cardinality(S) <= Cardinality(Gone)
      BY <1>1, <2>t, <3>1, FewerPlaces, PlaceTypes DEF OInv
    <3>3. Cardinality(Gone) <= drops /\ Cardinality(Gone) \in Nat
      BY <1>1, <2>5, PlaceTypes DEF Loss, OInv
    <3> HIDE DEF S
    <3> QED BY <2>t, <2>2, <3>2, <3>3 DEF LossBoundedByDrops
  <2>6. CASE phase = "writing"
    <3>1. \A k \in S : k <= snapAt => k \in GoneBefore
      <4> SUFFICES ASSUME NEW k \in S, k <= snapAt PROVE k \in GoneBefore
        OBVIOUS
      <4>1. k \in 1 .. snapAt
        BY <2>t, <2>1
      <4> QED BY <2>3, <2>4, <4>1 DEF GoneBefore
    <3>2. \A k \in S : k <= snapAt + DropsSince
      <4> SUFFICES ASSUME NEW k \in S, ~(k <= snapAt + DropsSince) PROVE FALSE
        OBVIOUS
      <4>1. k \in 1 .. Len(offered) /\ k > snapAt + DropsSince
        BY <1>1, <2>1, Types DEF OInv
      <4>2. \E i \in DOMAIN queue : queue[i] = offered[k]
        BY <1>1, <2>6, <4>1, ArrivalInQueue DEF OInv
      <4> QED BY <2>3, <4>2
    <3> HIDE DEF S
    <3>3. Cardinality(S) <= drops
      BY <1>1, <2>1, <2>6, <3>1, <3>2, CutOffBound
    <3> QED BY <2>t, <2>2, <3>3 DEF LossBoundedByDrops
  <2> QED BY <2>t, <2>5, <2>6
<1> QED BY <1>1, LossInvariance, PTL
=============================================================================
