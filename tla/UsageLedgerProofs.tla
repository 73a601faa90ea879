------------------------ MODULE UsageLedgerProofs -------------------------
(***************************************************************************)
(* The usage pipeline implements UsageLedger: every step of the handlers,  *)
(* the logger, the retry loop and the restarts is a step of the ledger, or *)
(* changes nothing in it.                                                  *)
(***************************************************************************)
EXTENDS UsagePipelineProofs

\* Where an event can be while it is pending.
Awaiting(e) ==
    \E i \in DOMAIN lbatch : i >= lpos /\ ~(i = lpos /\ lphase = "charging") /\ lbatch[i] = e
InQueue(e) == \E i \in DOMAIN queue : queue[i] = e
ToRetry(e) == \E i \in pos .. Len(batch) : batch[i] = e
HasFailed(e) == \E i \in DOMAIN failed : failed[i] = e

Somewhere(e) == InChannel(e) \/ Awaiting(e) \/ InQueue(e) \/ ToRetry(e) \/ HasFailed(e)

\* What the retry has tried is stored or has failed.
Tried ==
    phase = "writing" =>
        \A i \in DOMAIN batch : i < pos => Stored(batch[i]) \/ HasFailed(batch[i])

LInv == PInv /\ Tried

LEMMA RestOfBatch ==
    ASSUME NEW b \in Seq(Event), NEW p \in 1 .. Len(b) + 1, NEW e
    PROVE  e \in ToSet(From(b, p)) <=> \E i \in p .. Len(b) : b[i] = e
<1>1. /\ Len(b) \in Nat /\ p \in Nat /\ p >= 1 /\ p <= Len(b) + 1
      /\ DOMAIN SubSeq(b, p, Len(b)) = 1 .. Len(b) - p + 1
      /\ \A j \in 1 .. Len(b) - p + 1 : SubSeq(b, p, Len(b))[j] = b[p + j - 1]
  OBVIOUS
<1>2. ASSUME NEW j \in 1 .. Len(b) - p + 1, b[p + j - 1] = e
      PROVE  \E i \in p .. Len(b) : b[i] = e
  <2>1. p + j - 1 \in p .. Len(b)
    BY <1>1
  <2> QED BY <1>2, <2>1
<1>3. ASSUME NEW i \in p .. Len(b), b[i] = e
      PROVE  \E j \in 1 .. Len(b) - p + 1 : b[p + j - 1] = e
  <2>1. i - p + 1 \in 1 .. Len(b) - p + 1 /\ p + (i - p + 1) - 1 = i
    BY <1>1
  <2> QED BY <1>3, <2>1
<1> QED BY <1>1, <1>2, <1>3 DEF From, ToSet

\* The status of an event, from where it is.
StatusOf(e) ==
    IF Stored(e) THEN "stored"
    ELSE IF Somewhere(e) THEN "pending"
    ELSE IF req[e] \in {"logged", "cut"} THEN "lost" ELSE "none"

LEMMA StatusIs == PipeTypeOK => \A e \in Event : Status(e) = StatusOf(e)
<1> SUFFICES ASSUME PipeTypeOK, NEW e \in Event PROVE Status(e) = StatusOf(e)
  OBVIOUS
<1>1. e \in InFlight <=> Somewhere(e)
  <2>1. e \in ToSet(From(batch, pos)) <=> ToRetry(e)
    BY RestOfBatch DEF PipeTypeOK, TypeOK, DLQTypeOK, ToRetry
  <2>2. e \in ToSet(channel) <=> InChannel(e)
    BY DEF ToSet, InChannel
  <2>3. e \in ToSet(queue) <=> InQueue(e)
    BY DEF ToSet, InQueue
  <2>4. e \in ToSet(failed) <=> HasFailed(e)
    BY DEF ToSet, HasFailed
  <2>5. e \in {lbatch[i] : i \in {j \in DOMAIN lbatch : j >= lpos /\ ~(j = lpos /\ lphase = "charging")}}
            <=> Awaiting(e)
    BY DEF Awaiting
  <2> QED BY <2>1, <2>2, <2>3, <2>4, <2>5 DEF InFlight, InLogger, Held, Somewhere
<1> QED BY <1>1 DEF Status, StatusOf

LEMMA StatusNext == PipeTypeOK' => \A e \in Event : Status(e)' = StatusOf(e)'
<1>1. (PipeTypeOK => \A e \in Event : Status(e) = StatusOf(e))'
  BY StatusIs, PTL
<1> QED BY <1>1

\* An event that keeps its row, its place and its request keeps its status.
LEMMA SameStatus ==
    ASSUME PInv, PInv', NEW e \in Event,
           \/ Stored(e) /\ Stored(e)'
           \/ /\ Stored(e)' <=> Stored(e)
              /\ Somewhere(e)' <=> Somewhere(e)
              /\ req'[e] \in {"logged", "cut"} <=> req[e] \in {"logged", "cut"}
    PROVE  Status(e)' = Status(e)
<1>1. Status(e) = StatusOf(e) /\ Status(e)' = StatusOf(e)'
  BY StatusIs, StatusNext DEF PInv
<1> QED BY <1>1 DEF StatusOf

\* What is pending was logged; the queue holds what was offered, the logger what
\* was not.
LEMMA WhoHolds ==
    ASSUME PInv, NEW e \in Event
    PROVE  /\ InChannel(e) \/ Awaiting(e) => req[e] = "logged" /\ e \notin ToSet(offered)
           /\ InQueue(e) \/ ToRetry(e) \/ HasFailed(e) => e \in ToSet(offered)
           /\ Somewhere(e) => req[e] = "logged"
<1>1. InChannel(e) \/ Awaiting(e) => req[e] = "logged" /\ e \notin ToSet(offered)
  BY DEF PInv, InHand, Handed, InChannel, Awaiting
<1>2. /\ batch \in Seq(Event) /\ DOMAIN batch = 1 .. Len(batch) /\ Len(batch) \in Nat
      /\ pos \in Nat /\ pos >= 1 /\ DOMAIN offered = 1 .. Len(offered) /\ Len(offered) \in Nat
      /\ snapAt \in Nat /\ snapAt <= Len(offered)
  BY Types DEF PInv, OInv
<1>3. 1 .. snapAt \subseteq DOMAIN offered /\ pos .. Len(batch) \subseteq DOMAIN batch
  BY <1>2
<1>4. \A i \in DOMAIN batch : batch[i] \in ToSet(offered)
  BY <1>3 DEF PInv, OInv, Order, Retried, ToSet
<1>5. \A i \in DOMAIN failed : failed[i] \in ToSet(offered)
  BY <1>4 DEF PInv, OInv, Order, Retried
<1>6. \A i \in DOMAIN queue : queue[i] \in ToSet(offered)
  BY DEF PInv, OInv, Order, QueueOffered, ToSet
<1>7. InQueue(e) \/ ToRetry(e) \/ HasFailed(e) => e \in ToSet(offered)
  BY <1>3, <1>4, <1>5, <1>6 DEF InQueue, ToRetry, HasFailed
<1>8. e \in ToSet(offered) => req[e] = "logged"
  BY DEF PInv, Queued, ToSet
<1> QED BY <1>1, <1>7, <1>8 DEF Somewhere

-----------------------------------------------------------------------------
\* The moves of the ledger, event by event.
LEMMA MoveOne ==
    ASSUME NEW e \in Event, NEW to, Status(e)' = to,
           \A f \in Event : f # e => Status(f)' = Status(f)
    PROVE  Ledger!Move({e}, to)
BY DEF Ledger!Move

LEMMA NoMove ==
    ASSUME \A f \in Event : Status(f)' = Status(f), UNCHANGED <<drops, Owed>>
    PROVE  UNCHANGED Ledger!ledgerVars
BY DEF Ledger!ledgerVars

LStep == [Ledger!LedgerNext]_(Ledger!ledgerVars)

\* Nothing is told to the ledger.
LEMMA Silent ==
    ASSUME \A f \in Event : Status(f)' = Status(f), UNCHANGED <<drops, Owed>>
    PROVE  LStep
BY NoMove DEF LStep

\* One event moves.
LEMMA OneMoves ==
    ASSUME NEW e \in Event, \A f \in Event : f # e => Status(f)' = Status(f),
           UNCHANGED <<drops, Owed>>,
           \/ Status(e) = "none" /\ Status(e)' \in {"pending", "lost", "stored"}
           \/ Status(e) = "pending" /\ Status(e)' = "stored"
    PROVE  LStep
<1>1. CASE Status(e) = "none" /\ Status(e)' = "pending"
  <2>1. Ledger!Accept(e)
    BY <1>1, MoveOne DEF Ledger!Accept
  <2> QED BY <2>1 DEF LStep, Ledger!LedgerNext
<1>2. CASE Status(e) = "none" /\ Status(e)' = "lost"
  <2>1. Ledger!Refuse(e)
    BY <1>2, MoveOne DEF Ledger!Refuse
  <2> QED BY <2>1 DEF LStep, Ledger!LedgerNext
<1>3. CASE Status(e) \in {"none", "pending"} /\ Status(e)' = "stored"
  <2>1. Ledger!Store(e)
    BY <1>3, MoveOne DEF Ledger!Store
  <2> QED BY <2>1 DEF LStep, Ledger!LedgerNext
<1> QED BY <1>1, <1>2, <1>3

\* A warning, with or without the loss of an event.
LEMMA Warns ==
    ASSUME \A f \in Event : Status(f)' = Status(f), drops' = drops + 1,
           NEW later \in BOOLEAN, Owed' = IF later THEN Owed + 1 ELSE Owed
    PROVE  LStep
<1>1. Ledger!Warn(later)
  BY DEF Ledger!Warn
<1> QED BY <1>1 DEF LStep, Ledger!LedgerNext

LEMMA Displaces ==
    ASSUME NEW e \in Event, \A f \in Event : f # e => Status(f)' = Status(f),
           Status(e) = "pending", Status(e)' = "lost", drops' = drops + 1, Owed' = Owed
    PROVE  LStep
<1>1. Ledger!Displace(e)
  BY MoveOne DEF Ledger!Displace
<1> QED BY <1>1 DEF LStep, Ledger!LedgerNext

-----------------------------------------------------------------------------
(***************************************************************************)
(* What the retry has tried.                                               *)
(***************************************************************************)
LEMMA StoredForever ==
    ASSUME PInv, [PipeNext]_allVars, NEW e \in Event, Stored(e)
    PROVE  Stored(e)'
<1>t. /\ TableTypeOK /\ lbatch \in Seq(Event) /\ DOMAIN lbatch = 1 .. Len(lbatch)
      /\ Len(lbatch) \in Nat /\ lpos \in Nat /\ lpos >= 1
      /\ batch \in Seq(Event) /\ DOMAIN batch = 1 .. Len(batch) /\ Len(batch) \in Nat
      /\ pos \in Nat /\ pos >= 1
  BY PipeTypes, Types DEF PInv, OInv
<1>1. CASE UNCHANGED <<acked, unacked>>
  BY <1>1 DEF Stored
<1>2. ASSUME NEW r \in Event, Handler(r) PROVE Stored(e)'
  <2>1. CASE UNCHANGED tableVars
    BY <1>1, <2>1 DEF tableVars
  <2>2. ASSUME NEW out \in Outcome, LogDirect(r, out) PROVE Stored(e)'
    <3>1. CommitRow(r, out)
      BY <2>2 DEF LogDirect, WriteUsageEvent, WriteCancelled
    <3> QED BY <1>t, <3>1, Committed
  <2> QED BY <1>2, <2>1, <2>2 DEF Handler, Refuse, Admit, ForwardError, Answer, Log
<1>3. CASE Logger
  <2>1. CASE UNCHANGED tableVars
    BY <1>1, <2>1 DEF tableVars
  <2>2. ASSUME NEW out \in Outcome, FlushWrite(out) PROVE Stored(e)'
    <3>1. WriteUsageEvent(lbatch[lpos], out) /\ lpos \in DOMAIN lbatch
      BY <1>t, <2>2 DEF FlushWrite
    <3>2. PICK f \in Event : f = lbatch[lpos]
      BY <1>t, <3>1
    <3> QED BY <1>t, <3>1, <3>2, StoredStays
  <2> QED BY <1>3, <2>1, <2>2 DEF Logger, Receive, Tick, FlushEnqueue, FlushCharge, FlushEnd
<1>4. CASE Retry
  <2>1. CASE UNCHANGED tableVars
    BY <1>1, <2>1 DEF tableVars
  <2>2. ASSUME NEW out \in Outcome, RetryWrite(out) PROVE Stored(e)'
    <3>1. WriteUsageEvent(batch[pos], out) /\ pos \in DOMAIN batch
      BY <1>t, <2>2 DEF RetryWrite
    <3>2. PICK f \in Event : f = batch[pos]
      BY <1>t, <3>1
    <3> QED BY <1>t, <3>1, <3>2, StoredStays
  <2> QED BY <1>4, <2>1, <2>2 DEF Retry, RetryStep
<1>5. CASE Crash \/ Outage \/ UNCHANGED allVars
  BY <1>1, <1>5 DEF Crash, Outage, DBFails, DBRecovers, allVars, tableVars
<1> QED BY <1>2, <1>3, <1>4, <1>5 DEF PipeNext

LEMMA TriedStill ==
    ASSUME PInv, Tried, [PipeNext]_allVars, UNCHANGED <<phase, batch, pos, failed>>
    PROVE  Tried'
<1> SUFFICES ASSUME phase = "writing", NEW i \in DOMAIN batch, i < pos
             PROVE  Stored(batch[i])' \/ HasFailed(batch[i])'
  BY DEF Tried
<1>1. PICK e \in Event : e = batch[i]
  BY Types DEF PInv, OInv
<1>2. Stored(e) \/ HasFailed(e)
  BY <1>1 DEF Tried
<1>3. Stored(e)' \/ HasFailed(e)'
  BY <1>2, StoredForever DEF HasFailed
<1> QED BY <1>1, <1>3 DEF Stored, HasFailed

LEMMA TriedWrite ==
    ASSUME PInv, Tried, NEW out \in Outcome, RetryWrite(out), [PipeNext]_allVars
    PROVE  Tried'
<1>t. /\ TableTypeOK /\ batch \in Seq(Event) /\ failed \in Seq(Event)
      /\ DOMAIN batch = 1 .. Len(batch) /\ Len(batch) \in Nat
      /\ pos \in Nat /\ pos >= 1
  BY PipeTypes, Types DEF PInv, OInv
<1>1. /\ phase = "writing" /\ pos <= Len(batch) /\ pos' = pos + 1
      /\ failed' = IF out = "ok" THEN failed ELSE Append(failed, batch[pos])
      /\ WriteUsageEvent(batch[pos], out)
      /\ UNCHANGED <<phase, batch>>
  BY DEF RetryWrite
<1>2. pos \in DOMAIN batch
  BY <1>t, <1>1
<1>3. \A i \in DOMAIN failed : i \in DOMAIN failed' /\ failed'[i] = failed[i]
  BY <1>t, <1>1, <1>2, Appended
<1> SUFFICES ASSUME NEW i \in DOMAIN batch, i < pos + 1
             PROVE  Stored(batch[i])' \/ HasFailed(batch[i])'
  BY <1>1 DEF Tried
<1>4. PICK e \in Event : e = batch[i]
  BY <1>t
<1>5. CASE i = pos
  <2>1. CASE out = "ok"
    <3>1. Stored(e)'
      BY <1>t, <1>1, <1>4, <1>5, <2>1, WrittenStored
    <3> QED BY <1>1, <1>4, <3>1 DEF Stored
  <2>2. CASE out # "ok"
    <3>1. Len(failed) + 1 \in DOMAIN failed' /\ failed'[Len(failed) + 1] = e
      BY <1>t, <1>1, <1>2, <1>4, <1>5, <2>2, Appended
    <3>2. HasFailed(e)'
      BY <3>1 DEF HasFailed
    <3> QED BY <1>1, <1>4, <3>2 DEF HasFailed
  <2> QED BY <2>1, <2>2
<1>6. CASE i # pos
  <2>1. i < pos
    BY <1>t, <1>6
  <2>2. Stored(e) \/ HasFailed(e)
    BY <1>1, <1>4, <2>1 DEF Tried
  <2>3. Stored(e)' \/ HasFailed(e)'
    BY <1>3, <2>2, StoredForever DEF HasFailed
  <2> QED BY <1>1, <1>4, <2>3 DEF Stored, HasFailed
<1> QED BY <1>5, <1>6

LEMMA TriedNext == PInv /\ Tried /\ [PipeNext]_allVars => Tried'
<1> SUFFICES ASSUME PInv, Tried, [PipeNext]_allVars PROVE Tried'
  OBVIOUS
<1>1. CASE UNCHANGED <<phase, batch, pos, failed>>
  BY <1>1, TriedStill
<1>2. CASE Retry
  <2>1. CASE RetryEmpty
    BY <1>1, <2>1 DEF RetryEmpty
  <2>2. CASE RetrySnapshot
    <3>1. pos' = 1 /\ batch' = queue /\ DOMAIN queue = 1 .. Len(queue) /\ Len(queue) \in Nat
      BY <2>2, Types DEF RetrySnapshot, PInv, OInv
    <3>2. \A i \in DOMAIN batch' : ~(i < pos')
      BY <3>1
    <3> QED BY <3>2 DEF Tried
  <2>3. ASSUME NEW out \in Outcome, RetryWrite(out) PROVE Tried'
    BY <2>3, TriedWrite
  <2>4. CASE RetryMerge
    BY <2>4 DEF RetryMerge, Tried
  <2> QED BY <1>2, <2>1, <2>2, <2>3, <2>4 DEF Retry, RetryStep
<1>3. CASE Crash
  BY <1>3 DEF Crash, NewDLQ, Tried
<1>4. CASE (\E r \in Event : Handler(r)) \/ Logger \/ Outage \/ UNCHANGED allVars
  BY <1>1, <1>4 DEF Handler, Refuse, Admit, ForwardError, Answer, Log, LogDirect,
     Logger, Receive, Tick, FlushWrite, FlushEnqueue, FlushCharge, FlushEnd, Enqueue,
     Outage, allVars, dlqVars, loopVars
<1> QED BY <1>1, <1>2, <1>3, <1>4 DEF PipeNext

-----------------------------------------------------------------------------
(***************************************************************************)
(* The handler.                                                            *)
(***************************************************************************)
LEMMA QueueKept ==
    ASSUME UNCHANGED dlqVars
    PROVE  /\ UNCHANGED <<drops, Owed>>
           /\ \A e : /\ InQueue(e)' <=> InQueue(e)
                     /\ ToRetry(e)' <=> ToRetry(e)
                     /\ HasFailed(e)' <=> HasFailed(e)
<1>1. UNCHANGED <<queue, phase, batch, pos, failed, drops, snapDrops>>
  BY DEF dlqVars, loopVars, historyVars
<1> QED BY <1>1 DEF Owed, DropsSince, InQueue, ToRetry, HasFailed

LEMMA PlacesKept ==
    ASSUME UNCHANGED <<dlqVars, channel, lbatch, lpos, lphase>>
    PROVE  /\ UNCHANGED <<drops, Owed>>
           /\ \A e : Somewhere(e)' <=> Somewhere(e)
BY QueueKept DEF Somewhere, InChannel, Awaiting

\* A request that is about to be logged is not in the ledger yet, unless it has a row.
LEMMA NotYet ==
    ASSUME PInv, NEW r \in Event, req[r] \notin {"logged", "cut"}
    PROVE  ~Somewhere(r) /\ (~Stored(r) => Status(r) = "none")
<1>1. ~Somewhere(r)
  BY WhoHolds
<1> QED BY <1>1, StatusIs DEF PInv, StatusOf

LEMMA LogStep ==
    ASSUME PInv, PInv', NEW r \in Event, Log(r)
    PROVE  LStep
<1>t. req \in [Event -> ReqState] /\ channel \in Seq(Event)
  BY PipeTypes
<1>1. /\ req[r] \notin {"logged", "cut"} /\ req'[r] = "logged"
      /\ \A f \in Event : f # r => req'[f] = req[f]
      /\ UNCHANGED <<dlqVars, lbatch, lpos, lphase, acked, unacked>>
      /\ channel' = channel \/ channel' = Append(channel, r)
  BY <1>t DEF Log, Goto, loggerVars, tableVars
<1>2. \A f \in Event : f # r => (InChannel(f)' <=> InChannel(f))
  <2>1. CASE channel' = channel
    BY <2>1 DEF InChannel
  <2>2. CASE channel' = Append(channel, r)
    <3>1. /\ DOMAIN channel' = 1 .. Len(channel) + 1 /\ channel'[Len(channel) + 1] = r
          /\ DOMAIN channel = 1 .. Len(channel) /\ Len(channel) \in Nat
          /\ \A i \in DOMAIN channel : channel'[i] = channel[i]
      BY <1>t, <2>2, Appended
    <3>2. \A i \in DOMAIN channel' : i = Len(channel) + 1 \/ i \in DOMAIN channel
      BY <3>1
    <3>3. \A i \in DOMAIN channel : i \in DOMAIN channel'
      BY <3>1
    <3> QED BY <3>1, <3>2, <3>3 DEF InChannel
  <2> QED BY <1>1, <2>1, <2>2
<1>3. /\ UNCHANGED <<drops, Owed>>
      /\ \A f \in Event : f # r => (Somewhere(f)' <=> Somewhere(f))
  BY <1>1, <1>2, QueueKept DEF Somewhere, Awaiting
<1>4. \A f \in Event : Stored(f)' <=> Stored(f)
  BY <1>1 DEF Stored
<1>5. \A f \in Event : f # r => Status(f)' = Status(f)
  BY <1>1, <1>3, <1>4, SameStatus
<1>6. CASE Stored(r)
  BY <1>3, <1>4, <1>5, <1>6, SameStatus, Silent
<1>7. CASE ~Stored(r)
  <2>1. Status(r) = "none"
    BY <1>1, <1>7, NotYet
  <2>2. Status(r)' \in {"pending", "lost"}
    BY <1>1, <1>4, <1>7, StatusNext DEF PInv, StatusOf
  <2> QED BY <1>3, <1>5, <2>1, <2>2, OneMoves
<1> QED BY <1>6, <1>7

LEMMA LogDirectStep ==
    ASSUME PInv, PInv', NEW r \in Event, NEW out \in Outcome, LogDirect(r, out)
    PROVE  LStep
<1>t. req \in [Event -> ReqState] /\ TableTypeOK
  BY PipeTypes
<1>1. /\ req[r] \notin {"logged", "cut"} /\ req'[r] = "logged"
      /\ \A f \in Event : f # r => req'[f] = req[f]
      /\ UNCHANGED <<dlqVars, channel, lbatch, lpos, lphase>>
      /\ CommitRow(r, out)
  BY <1>t DEF LogDirect, Goto, loggerVars, WriteUsageEvent, WriteCancelled
<1>2. /\ UNCHANGED <<drops, Owed>>
      /\ \A f \in Event : Somewhere(f)' <=> Somewhere(f)
  BY <1>1, PlacesKept
<1>3. /\ \A f \in Event : f # r => acked'[f] = acked[f] /\ unacked'[f] = unacked[f]
      /\ Stored(r) => Stored(r)'
  BY <1>t, <1>1, Committed
<1>4. \A f \in Event : f # r => (Stored(f)' <=> Stored(f))
  BY <1>3 DEF Stored
<1>5. \A f \in Event : f # r => Status(f)' = Status(f)
  BY <1>1, <1>2, <1>4, SameStatus
<1>6. CASE Stored(r)
  BY <1>2, <1>3, <1>5, <1>6, SameStatus, Silent
<1>7. CASE ~Stored(r)
  <2>1. Status(r) = "none" /\ ~Somewhere(r)'
    BY <1>1, <1>2, <1>7, NotYet
  <2>2. Status(r)' \in {"stored", "lost"}
    BY <1>1, <2>1, StatusNext DEF PInv, StatusOf
  <2> QED BY <1>2, <1>5, <2>1, <2>2, OneMoves
<1> QED BY <1>6, <1>7

LEMMA HandlerStep ==
    ASSUME PInv, PInv', NEW r \in Event, Handler(r)
    PROVE  LStep
<1>t. req \in [Event -> ReqState]
  BY PipeTypes
<1>1. CASE Refuse(r) \/ (\E down \in BOOLEAN : Admit(r, down)) \/ ForwardError(r)
           \/ (\E st \in {"answered", "hungup"} : Answer(r, st))
  <2>1. /\ UNCHANGED <<dlqVars, channel, lbatch, lpos, lphase, acked, unacked>>
        /\ \A f \in Event : req'[f] \in {"logged", "cut"} <=> req[f] \in {"logged", "cut"}
    BY <1>t, <1>1 DEF Refuse, Admit, ForwardError, Answer, Goto, loggerVars, tableVars
  <2>2. \A f \in Event : Stored(f)' <=> Stored(f)
    BY <2>1 DEF Stored
  <2>3. \A f \in Event : Status(f)' = Status(f)
    BY <2>1, <2>2, PlacesKept, SameStatus
  <2> QED BY <2>1, <2>3, PlacesKept, Silent
<1>2. CASE Log(r)
  BY <1>2, LogStep
<1>3. ASSUME NEW out \in Outcome, LogDirect(r, out) PROVE LStep
  BY <1>3, LogDirectStep
<1> QED BY <1>1, <1>2, <1>3 DEF Handler

-----------------------------------------------------------------------------
(***************************************************************************)
(* The logger.                                                             *)
(***************************************************************************)
\* An event passes from hand to hand.
LEMMA PassedOn ==
    ASSUME PInv, PInv', UNCHANGED <<dlqVars, req, acked, unacked>>,
           \A f \in Event : (InChannel(f)' \/ Awaiting(f)') <=> (InChannel(f) \/ Awaiting(f))
    PROVE  LStep
<1>1. \A f \in Event : Somewhere(f)' <=> Somewhere(f)
  BY QueueKept DEF Somewhere
<1>2. \A f \in Event : Stored(f)' <=> Stored(f)
  BY DEF Stored
<1>3. \A f \in Event : Status(f)' = Status(f)
  BY <1>1, <1>2, SameStatus
<1> QED BY <1>3, QueueKept, Silent

LEMMA ReceiveStep ==
    ASSUME PInv, PInv', Receive
    PROVE  LStep
<1>t. channel \in Seq(Event) /\ lbatch \in Seq(Event)
  BY PipeTypes
<1>1. /\ lphase = "idle" /\ lpos = 1 /\ channel # <<>> /\ lpos' = 1 /\ lphase' # "charging"
      /\ channel' = Tail(channel) /\ lbatch' = Append(lbatch, Head(channel))
      /\ UNCHANGED <<dlqVars, req, acked, unacked>>
  BY DEF Receive, PInv, InHand, handlerVars, tableVars
<1>2. PICK n \in Nat, m \in Nat : n = Len(channel) /\ m = Len(lbatch)
  BY <1>t
<1>3. /\ DOMAIN channel = 1 .. n /\ DOMAIN channel' = 1 .. n - 1 /\ n >= 1
      /\ \A i \in DOMAIN channel' : channel'[i] = channel[i + 1] /\ i + 1 \in DOMAIN channel
      /\ \A i \in DOMAIN channel : (i = 1 \/ i - 1 \in DOMAIN channel') /\ (i - 1) + 1 = i
      /\ Head(channel) = channel[1] /\ 1 \in DOMAIN channel /\ channel[1] \in Event
  BY <1>t, <1>1, <1>2
<1>4. /\ DOMAIN lbatch = 1 .. m /\ DOMAIN lbatch' = 1 .. m + 1
      /\ lbatch'[m + 1] = channel[1] /\ \A i \in DOMAIN lbatch : lbatch'[i] = lbatch[i]
  BY <1>t, <1>1, <1>2, <1>3, Appended
<1>5. /\ \A i \in DOMAIN lbatch' : i >= 1 /\ (i = m + 1 \/ i \in DOMAIN lbatch)
      /\ \A i \in DOMAIN lbatch : i >= 1 /\ i \in DOMAIN lbatch'
      /\ m + 1 \in DOMAIN lbatch'
  BY <1>4
<1>6. \A f \in Event : InChannel(f) <=> f = channel[1] \/ InChannel(f)'
  <2> SUFFICES ASSUME NEW f \in Event
               PROVE  (\E i \in DOMAIN channel : channel[i] = f) <=>
                          f = channel[1] \/ \E i \in DOMAIN channel' : channel'[i] = f
    BY DEF InChannel
  <2>1. ASSUME NEW i \in DOMAIN channel, channel[i] = f, f # channel[1]
        PROVE  \E j \in DOMAIN channel' : channel'[j] = f
    <3>1. i - 1 \in DOMAIN channel' /\ channel'[i - 1] = channel[i]
      BY <1>3, <2>1
    <3> QED BY <2>1, <3>1
  <2> QED BY <1>3, <2>1
<1>7. \A f \in Event : Awaiting(f)' <=> f = channel[1] \/ Awaiting(f)
  <2>1. \A f \in Event : Awaiting(f)' <=> \E i \in DOMAIN lbatch' : lbatch'[i] = f
    BY <1>1, <1>5 DEF Awaiting
  <2>2. \A f \in Event : Awaiting(f) <=> \E i \in DOMAIN lbatch : lbatch[i] = f
    BY <1>1, <1>5 DEF Awaiting
  <2> QED BY <1>4, <1>5, <2>1, <2>2
<1> QED BY <1>1, <1>6, <1>7, PassedOn

LEMMA TickStep ==
    ASSUME PInv, PInv', Tick
    PROVE  LStep
<1>1. /\ UNCHANGED <<dlqVars, req, acked, unacked, channel, lbatch>>
      /\ lphase = "idle" /\ lpos = 1 /\ lphase' = "writing" /\ lpos' = 1
  BY DEF Tick, PInv, InHand, handlerVars, tableVars
<1>2. \A f \in Event : (Awaiting(f)' <=> Awaiting(f)) /\ (InChannel(f)' <=> InChannel(f))
  BY <1>1 DEF Awaiting, InChannel
<1> QED BY <1>1, <1>2, PassedOn

LEMMA FlushWriteStep ==
    ASSUME PInv, PInv', NEW out \in Outcome, FlushWrite(out)
    PROVE  LStep
<1>t. /\ lbatch \in Seq(Event) /\ lpos \in Nat /\ lpos >= 1 /\ TableTypeOK
      /\ DOMAIN lbatch = 1 .. Len(lbatch) /\ Len(lbatch) \in Nat
  BY PipeTypes
<1>1. /\ UNCHANGED <<dlqVars, req, channel, lbatch, lpos>>
      /\ lphase = "writing" /\ lpos \in DOMAIN lbatch
      /\ WriteUsageEvent(lbatch[lpos], out)
      /\ lphase' = IF out = "ok" THEN "charging" ELSE "enqueueing"
  BY <1>t DEF FlushWrite, handlerVars
<1>2. PICK e \in Event : e = lbatch[lpos]
  BY <1>t, <1>1
<1>3. /\ \A f \in Event : f # e => acked'[f] = acked[f] /\ unacked'[f] = unacked[f]
      /\ Stored(e) => Stored(e)'
      /\ out # "error" => Stored(e)'
      /\ out = "error" => UNCHANGED <<acked[e], unacked[e]>>
  <2>1. CommitRow(e, out)
    BY <1>1, <1>2 DEF WriteUsageEvent
  <2>2. out = "error" => UNCHANGED <<acked, unacked>>
    BY <1>t, <2>1 DEF CommitRow, TableTypeOK
  <2> QED BY <1>t, <2>1, <2>2, Committed
<1>4. \A f \in Event : f # e \/ out # "ok" => (Awaiting(f)' <=> Awaiting(f))
  BY <1>1, <1>2 DEF Awaiting
<1>5. \A f \in Event : f # e \/ out # "ok" => (Somewhere(f)' <=> Somewhere(f))
  BY <1>1, <1>4, QueueKept DEF Somewhere, InChannel
<1>6. \A f \in Event : f # e => (Stored(f)' <=> Stored(f))
  BY <1>3 DEF Stored
<1>7. \A f \in Event : f # e => Status(f)' = Status(f)
  BY <1>1, <1>5, <1>6, SameStatus
<1>8. UNCHANGED <<drops, Owed>>
  BY <1>1, QueueKept
<1>9. CASE Stored(e)
  BY <1>3, <1>7, <1>8, <1>9, SameStatus, Silent
<1>10. CASE ~Stored(e) /\ ~Stored(e)'
  <2>1. out = "error"
    BY <1>3, <1>10
  <2> QED BY <1>1, <1>5, <1>7, <1>8, <1>10, <2>1, SameStatus, Silent
<1>11. CASE ~Stored(e) /\ Stored(e)'
  <2>1. Awaiting(e) /\ Somewhere(e)
    BY <1>t, <1>1, <1>2 DEF Awaiting, Somewhere
  <2>2. Status(e) = "pending" /\ Status(e)' = "stored"
    BY <1>11, <2>1, StatusIs, StatusNext DEF PInv, StatusOf
  <2> QED BY <1>7, <1>8, <2>2, OneMoves
<1> QED BY <1>9, <1>10, <1>11

LEMMA FlushChargeStep ==
    ASSUME PInv, PInv', NEW done \in BOOLEAN, FlushCharge(done)
    PROVE  LStep
<1>1. /\ UNCHANGED <<dlqVars, req, acked, unacked, channel, lbatch>>
      /\ lphase = "charging" /\ lphase' = "writing" /\ lpos' = lpos + 1
      /\ lpos \in Nat /\ DOMAIN lbatch = 1 .. Len(lbatch) /\ Len(lbatch) \in Nat
  BY PipeTypes DEF FlushCharge, handlerVars, tableVars
<1>2. \A i \in DOMAIN lbatch : i >= lpos + 1 <=> i >= lpos /\ i # lpos
  BY <1>1
<1>3. \A f \in Event : (Awaiting(f)' <=> Awaiting(f)) /\ (InChannel(f)' <=> InChannel(f))
  BY <1>1, <1>2 DEF Awaiting, InChannel
<1> QED BY <1>1, <1>3, PassedOn

LEMMA FlushEndStep ==
    ASSUME PInv, PInv', FlushEnd
    PROVE  LStep
<1>1. /\ UNCHANGED <<dlqVars, req, acked, unacked, channel>>
      /\ lbatch' = <<>> /\ lpos > Len(lbatch)
      /\ lpos \in Nat /\ DOMAIN lbatch = 1 .. Len(lbatch) /\ Len(lbatch) \in Nat
  BY PipeTypes DEF FlushEnd, handlerVars, tableVars
<1>2. \A i \in DOMAIN lbatch : ~(i >= lpos)
  BY <1>1
<1>3. \A f \in Event : ~Awaiting(f) /\ ~Awaiting(f)' /\ (InChannel(f)' <=> InChannel(f))
  BY <1>1, <1>2 DEF Awaiting, InChannel
<1> QED BY <1>1, <1>3, PassedOn

\* No event is twice in the queue.
LEMMA QueueDistinct ==
    ASSUME OInv, NEW i \in DOMAIN queue, NEW j \in DOMAIN queue, queue[i] = queue[j]
    PROVE  i = j
<1> SUFFICES ASSUME i # j PROVE FALSE
  OBVIOUS
<1>0. DOMAIN queue = 1 .. Len(queue) /\ Len(queue) \in Nat /\ offered \in Seq(Event)
  BY Types DEF OInv
<1>1. i \in Nat /\ j \in Nat
  BY <1>0
<1>2. Ordered(queue) /\ Once
  BY DEF OInv, Order
<1>3. i < j \/ j < i
  BY <1>1
<1>4. Before(queue[i], queue[i])
  BY <1>2, <1>3 DEF Ordered
<1> QED BY <1>0, <1>2, <1>4, BeforeStrict

\* An event of the copy was offered before the copy, and so was what failed.
LEMMA CopyIsOld ==
    ASSUME OInv, NEW k \in DOMAIN offered, k > snapAt
    PROVE  ~ToRetry(offered[k]) /\ ~HasFailed(offered[k])
<1>0. IInv
  BY DEF OInv
<1>1. /\ DOMAIN offered = 1 .. Len(offered) /\ Len(offered) \in Nat
      /\ snapAt \in 0 .. Len(offered) /\ snapAt \in Nat
      /\ DOMAIN batch = 1 .. Len(batch) /\ Len(batch) \in Nat
      /\ pos \in 1 .. Len(batch) + 1 /\ pos \in Nat
  BY <1>0, Types
<1>2. \A i \in DOMAIN batch : batch[i] # offered[k]
  <2> SUFFICES ASSUME NEW i \in DOMAIN batch, batch[i] = offered[k] PROVE FALSE
    OBVIOUS
  <2>1. PICK l \in 1 .. snapAt : offered[l] = batch[i]
    BY DEF OInv, Order, Retried
  <2>2. l \in DOMAIN offered /\ l # k
    BY <1>1, <2>1
  <2> QED BY <2>1, <2>2 DEF OInv, Order, Once
<1>3. pos .. Len(batch) \subseteq DOMAIN batch
  BY <1>1
<1>4. \A i \in DOMAIN failed : failed[i] # offered[k]
  BY <1>2 DEF OInv, Order, Retried
<1> QED BY <1>2, <1>3, <1>4 DEF ToRetry, HasFailed

\* What asleep means for the places of an event.
LEMMA AsleepHoldsNone ==
    ASSUME OInv, phase = "asleep", NEW e
    PROVE  ~ToRetry(e) /\ ~HasFailed(e)
<1>1. batch = <<>> /\ failed = <<>> /\ pos \in Nat /\ pos >= 1
  BY Types DEF OInv, Order, Asleep
<1>2. pos .. Len(batch) = {} /\ DOMAIN failed = {}
  BY <1>1
<1> QED BY <1>2 DEF ToRetry, HasFailed

\* An event given to a queue with room stays pending.
LEMMA EnqueueRoomStep ==
    ASSUME PInv, PInv', FlushEnqueue, ~(Len(queue) >= DLQCap)
    PROVE  LStep
<1>t. /\ lbatch \in Seq(Event) /\ lpos \in Nat /\ DOMAIN lbatch = 1 .. Len(lbatch)
      /\ Len(lbatch) \in Nat /\ queue \in Seq(Event)
  BY PipeTypes, Types DEF PInv, OInv
<1>1. /\ lphase = "enqueueing" /\ lphase' = "writing" /\ lpos' = lpos + 1 /\ lpos \in DOMAIN lbatch
      /\ Enqueue(lbatch[lpos])
      /\ UNCHANGED <<req, channel, lbatch, acked, unacked>>
  BY DEF FlushEnqueue, PInv, InHand, handlerVars, tableVars
<1>2. PICK e \in Event : e = lbatch[lpos]
  BY <1>t, <1>1
<1>3. /\ queue' = Append(queue, e) /\ drops' = drops
      /\ UNCHANGED <<phase, batch, pos, failed, snapDrops>>
  BY <1>1, <1>2 DEF Enqueue, loopVars
<1>4. UNCHANGED <<drops, Owed>>
  BY <1>3 DEF Owed, DropsSince
<1>5. \A f \in Event : InQueue(f)' <=> f = e \/ InQueue(f)
  <2>1. /\ DOMAIN queue' = 1 .. Len(queue) + 1 /\ queue'[Len(queue) + 1] = e
        /\ DOMAIN queue = 1 .. Len(queue) /\ Len(queue) \in Nat
        /\ \A i \in DOMAIN queue : queue'[i] = queue[i]
    BY <1>t, <1>3, Appended
  <2>2. /\ \A i \in DOMAIN queue' : i = Len(queue) + 1 \/ i \in DOMAIN queue
        /\ \A i \in DOMAIN queue : i \in DOMAIN queue'
        /\ Len(queue) + 1 \in DOMAIN queue'
    BY <2>1
  <2> QED BY <2>1, <2>2 DEF InQueue
<1>6. \A i \in DOMAIN lbatch : i >= lpos <=> i = lpos \/ i >= lpos + 1
  BY <1>t
<1>7. \A f \in Event : Awaiting(f) <=> f = e \/ Awaiting(f)'
  <2>1. \A f \in Event : Awaiting(f) <=> \E i \in DOMAIN lbatch : i >= lpos /\ lbatch[i] = f
    BY <1>1 DEF Awaiting
  <2>2. \A f \in Event : Awaiting(f)' <=> \E i \in DOMAIN lbatch : i >= lpos + 1 /\ lbatch[i] = f
    BY <1>1 DEF Awaiting
  <2> QED BY <1>1, <1>2, <1>6, <2>1, <2>2
<1>8. \A f \in Event : /\ InChannel(f)' <=> InChannel(f)
                       /\ ToRetry(f)' <=> ToRetry(f)
                       /\ HasFailed(f)' <=> HasFailed(f)
  BY <1>1, <1>3 DEF InChannel, ToRetry, HasFailed
<1>9. \A f \in Event : Somewhere(f)' <=> Somewhere(f)
  BY <1>5, <1>7, <1>8 DEF Somewhere
<1>10. \A f \in Event : Status(f)' = Status(f)
  BY <1>1, <1>9, SameStatus DEF Stored
<1> QED BY <1>4, <1>10, Silent

\* A full queue loses its oldest event, or a copy of an event the retry still has.
LEMMA EnqueueFullStep ==
    ASSUME PInv, PInv', Tried, FlushEnqueue, Len(queue) >= DLQCap
    PROVE  LStep
<1>t. /\ lbatch \in Seq(Event) /\ lpos \in Nat /\ DOMAIN lbatch = 1 .. Len(lbatch)
      /\ Len(lbatch) \in Nat
      /\ queue \in Seq(Event) /\ Len(queue) \in Nat /\ DOMAIN queue = 1 .. Len(queue)
      /\ Len(queue) >= 1 /\ phase \in {"asleep", "writing"}
  BY PipeTypes, Types, DLQCapAssumption DEF PInv, OInv
<1>1. /\ lphase = "enqueueing" /\ lphase' = "writing" /\ lpos' = lpos + 1 /\ lpos \in DOMAIN lbatch
      /\ Enqueue(lbatch[lpos])
      /\ UNCHANGED <<req, channel, lbatch, acked, unacked>>
  BY DEF FlushEnqueue, PInv, InHand, handlerVars, tableVars
<1>2. PICK e \in Event : e = lbatch[lpos]
  BY <1>t, <1>1
<1>3. /\ queue' = Append(Tail(queue), e) /\ drops' = drops + 1
      /\ UNCHANGED <<phase, batch, pos, failed, snapDrops>>
  BY <1>1, <1>2 DEF Enqueue, loopVars
<1>4. PICK h \in Event : h = queue[1]
  BY <1>t
<1>5. 1 \in DOMAIN queue /\ InQueue(h) /\ h \in ToSet(offered) /\ req[h] = "logged"
  BY <1>t, <1>4, WhoHolds DEF InQueue, Somewhere
<1>6. Awaiting(e) /\ e # h /\ e \notin ToSet(offered)
  <2>1. Awaiting(e)
    BY <1>t, <1>1, <1>2 DEF Awaiting
  <2> QED BY <1>5, <2>1, WhoHolds
<1>7. \A f \in Event : InQueue(f)' <=> f = e \/ (f # h /\ InQueue(f))
  <2>0. Len(queue) - 1 \in Nat /\ (Len(queue) - 1) + 1 = Len(queue) /\ queue # <<>>
    BY <1>t
  <2>1. PICK n \in Nat : n + 1 = Len(queue)
    BY <2>0
  <2>2. /\ Tail(queue) \in Seq(Event) /\ Len(Tail(queue)) = n
        /\ \A i \in 1 .. n : Tail(queue)[i] = queue[i + 1]
    <3>1. /\ Tail(queue) \in Seq(Event) /\ Len(Tail(queue)) = Len(queue) - 1
          /\ \A i \in 1 .. Len(Tail(queue)) : Tail(queue)[i] = queue[i + 1]
      BY <1>t, <2>0, HeadTailProperties
    <3>2. Len(Tail(queue)) = n
      BY <2>1, <3>1
    <3> QED BY <3>1, <3>2
  <2>3. /\ DOMAIN queue' = 1 .. n + 1 /\ queue'[n + 1] = e
        /\ \A i \in 1 .. n : queue'[i] = queue[i + 1]
    BY <1>3, <2>2, Appended
  <2>4. ASSUME NEW f \in Event, NEW i \in DOMAIN queue', queue'[i] = f, f # e
        PROVE  f # h /\ InQueue(f)
    <3>1. i \in 1 .. n
      BY <2>3, <2>4
    <3>2. i + 1 \in DOMAIN queue /\ queue[i + 1] = f /\ i + 1 # 1
      BY <1>t, <2>1, <2>3, <2>4, <3>1
    <3>3. f # h
      BY <1>4, <1>5, <3>2, QueueDistinct DEF PInv
    <3> QED BY <3>2, <3>3 DEF InQueue
  <2>5. ASSUME NEW f \in Event, NEW i \in DOMAIN queue, queue[i] = f, f # h
        PROVE  \E j \in DOMAIN queue' : queue'[j] = f
    <3>1. i # 1
      BY <1>4, <2>5
    <3>2. i - 1 \in 1 .. n /\ (i - 1) + 1 = i
      BY <1>t, <2>1, <3>1
    <3>3. queue'[i - 1] = f /\ i - 1 \in DOMAIN queue'
      BY <2>3, <2>5, <3>2
    <3> QED BY <3>3
  <2>6. n + 1 \in DOMAIN queue'
    BY <2>3
  <2> QED BY <2>3, <2>4, <2>5, <2>6 DEF InQueue
<1>8. \A i \in DOMAIN lbatch : i >= lpos <=> i = lpos \/ i >= lpos + 1
  BY <1>t
<1>9. \A f \in Event : Awaiting(f) <=> f = e \/ Awaiting(f)'
  <2>1. \A f \in Event : Awaiting(f) <=> \E i \in DOMAIN lbatch : i >= lpos /\ lbatch[i] = f
    BY <1>1 DEF Awaiting
  <2>2. \A f \in Event : Awaiting(f)' <=> \E i \in DOMAIN lbatch : i >= lpos + 1 /\ lbatch[i] = f
    BY <1>1 DEF Awaiting
  <2> QED BY <1>1, <1>2, <1>8, <2>1, <2>2
<1>10. \A f \in Event : /\ InChannel(f)' <=> InChannel(f)
                        /\ ToRetry(f)' <=> ToRetry(f)
                        /\ HasFailed(f)' <=> HasFailed(f)
  BY <1>1, <1>3 DEF InChannel, ToRetry, HasFailed
<1>11. \A f \in Event : f # h => (Somewhere(f)' <=> Somewhere(f))
  BY <1>7, <1>9, <1>10 DEF Somewhere
<1>12. \A f \in Event : Stored(f)' <=> Stored(f)
  BY <1>1 DEF Stored
<1>13. \A f \in Event : f # h => Status(f)' = Status(f)
  BY <1>1, <1>11, <1>12, SameStatus
<1>14. /\ Somewhere(h)
       /\ Somewhere(h)' <=> ToRetry(h) \/ HasFailed(h)
  <2>1. ~InChannel(h) /\ ~Awaiting(h)
    BY <1>5, WhoHolds
  <2> QED BY <1>5, <1>6, <1>7, <1>9, <1>10, <2>1 DEF Somewhere
<1>15. CASE Stored(h) \/ ToRetry(h) \/ HasFailed(h)
  <2>1. Status(h)' = Status(h)
    BY <1>1, <1>12, <1>14, <1>15, SameStatus
  <2>2. \E later \in BOOLEAN : Owed' = IF later THEN Owed + 1 ELSE Owed
    <3>1. CASE phase = "asleep"
      BY <1>3, <3>1 DEF Owed
    <3>2. CASE phase = "writing"
      <4>1. /\ drops \in Nat /\ snapDrops \in Nat /\ Len(batch) \in Nat /\ DropsSince \in Nat
        BY Types DEF PInv, OInv
      <4>2. DropsSince' = DropsSince + 1
        BY <1>3, <4>1 DEF DropsSince
      <4>3. /\ Owed = SmallerOf(DropsSince, Len(batch))
            /\ Owed' = SmallerOf(DropsSince + 1, Len(batch))
        BY <1>3, <3>2, <4>2 DEF Owed
      <4>4. Owed' = Owed + 1 \/ Owed' = Owed
        BY <4>1, <4>3 DEF SmallerOf
      <4> QED BY <4>4
    <3> QED BY <1>t, <3>1, <3>2
  <2> QED BY <1>3, <1>13, <2>1, <2>2, Warns
<1>16. CASE ~(Stored(h) \/ ToRetry(h) \/ HasFailed(h))
  <2>1. Status(h) = "pending" /\ Status(h)' = "lost"
    BY <1>1, <1>5, <1>12, <1>14, <1>16, StatusIs, StatusNext DEF PInv, StatusOf
  <2>2. Owed' = Owed
    <3>1. CASE phase = "asleep"
      BY <1>3, <3>1 DEF Owed
    <3>2. CASE phase = "writing"
      <4>1. /\ drops \in Nat /\ snapDrops \in Nat /\ Len(batch) \in Nat /\ DropsSince \in Nat
            /\ DOMAIN batch = 1 .. Len(batch) /\ pos \in Nat
        BY Types DEF PInv, OInv
      <4>2. queue[1] = EventAt(1)
        BY <1>t, <3>2 DEF PInv, OInv, IInv, Shape
      <4>3. ~(1 + DropsSince <= Len(batch))
        <5> SUFFICES ASSUME 1 + DropsSince <= Len(batch) PROVE FALSE
          OBVIOUS
        <5>1. 1 + DropsSince \in DOMAIN batch /\ batch[1 + DropsSince] = h
          BY <1>4, <4>1, <4>2 DEF EventAt
        <5>2. CASE 1 + DropsSince < pos
          BY <1>16, <3>2, <5>1, <5>2 DEF Tried
        <5>3. CASE 1 + DropsSince >= pos
          <6>1. 1 + DropsSince \in pos .. Len(batch)
            BY <4>1, <5>3
          <6> QED BY <1>16, <5>1, <6>1 DEF ToRetry
        <5> QED BY <4>1, <5>2, <5>3
      <4>4. DropsSince' = DropsSince + 1
        BY <1>3, <4>1 DEF DropsSince
      <4>5. /\ Owed = SmallerOf(DropsSince, Len(batch))
            /\ Owed' = SmallerOf(DropsSince + 1, Len(batch))
        BY <1>3, <3>2, <4>4 DEF Owed
      <4>6. PICK d \in Nat, b \in Nat : d = DropsSince /\ b = Len(batch)
        BY <4>1
      <4>7. SmallerOf(d, b) = SmallerOf(d + 1, b)
        BY <4>3, <4>6 DEF SmallerOf
      <4> QED BY <4>5, <4>6, <4>7
    <3> QED BY <1>t, <3>1, <3>2
  <2> QED BY <1>3, <1>13, <2>1, <2>2, Displaces
<1> QED BY <1>15, <1>16

LEMMA LoggerStep ==
    ASSUME PInv, PInv', Tried, Logger
    PROVE  LStep
<1>1. CASE Receive
  BY <1>1, ReceiveStep
<1>2. CASE Tick
  BY <1>2, TickStep
<1>3. ASSUME NEW out \in Outcome, FlushWrite(out) PROVE LStep
  BY <1>3, FlushWriteStep
<1>4. CASE FlushEnqueue
  BY <1>4, EnqueueRoomStep, EnqueueFullStep
<1>5. ASSUME NEW done \in BOOLEAN, FlushCharge(done) PROVE LStep
  BY <1>5, FlushChargeStep
<1>6. CASE FlushEnd
  BY <1>6, FlushEndStep
<1> QED BY <1>1, <1>2, <1>3, <1>4, <1>5, <1>6 DEF Logger

-----------------------------------------------------------------------------
(***************************************************************************)
(* The retry loop.                                                         *)
(***************************************************************************)
LEMMA SnapshotStep ==
    ASSUME PInv, PInv', RetrySnapshot, UNCHANGED <<pipeVars, tableVars>>
    PROVE  LStep
<1>1. /\ phase = "asleep" /\ phase' = "writing" /\ batch' = queue /\ pos' = 1 /\ failed' = <<>>
      /\ snapDrops' = drops
      /\ UNCHANGED <<queue, drops, req, channel, lbatch, lpos, lphase, acked, unacked>>
  BY DEF RetrySnapshot, pipeVars, handlerVars, loggerVars, tableVars
<1>2. DOMAIN queue = 1 .. Len(queue) /\ Len(queue) \in Nat /\ drops \in Nat
  BY Types DEF PInv, OInv
<1>3. UNCHANGED <<drops, Owed>>
  <2>1. Owed = 0 /\ Owed' = SmallerOf(DropsSince', Len(queue))
    BY <1>1 DEF Owed
  <2>2. DropsSince' = 0
    BY <1>1, <1>2 DEF DropsSince
  <2> QED BY <1>1, <1>2, <2>1, <2>2 DEF SmallerOf
<1>4. \A f \in Event : /\ ~ToRetry(f) /\ ~HasFailed(f)
                       /\ ToRetry(f)' <=> InQueue(f)
                       /\ InQueue(f)' <=> InQueue(f)
                       /\ ~HasFailed(f)'
  BY <1>1, <1>2, AsleepHoldsNone DEF PInv, ToRetry, InQueue, HasFailed
<1>5. \A f \in Event : Somewhere(f)' <=> Somewhere(f)
  BY <1>1, <1>4 DEF Somewhere, InChannel, Awaiting
<1>6. \A f \in Event : Status(f)' = Status(f)
  BY <1>1, <1>5, SameStatus DEF Stored
<1> QED BY <1>3, <1>6, Silent

LEMMA WriteStep ==
    ASSUME PInv, PInv', NEW out \in Outcome, RetryWrite(out), UNCHANGED pipeVars
    PROVE  LStep
<1>t. /\ batch \in Seq(Event) /\ DOMAIN batch = 1 .. Len(batch) /\ Len(batch) \in Nat
      /\ pos \in Nat /\ pos >= 1 /\ failed \in Seq(Event) /\ TableTypeOK
  BY PipeTypes, Types DEF PInv, OInv
<1>1. /\ pos \in DOMAIN batch /\ pos' = pos + 1
      /\ WriteUsageEvent(batch[pos], out)
      /\ failed' = IF out = "ok" THEN failed ELSE Append(failed, batch[pos])
      /\ UNCHANGED <<queue, phase, batch, drops, snapDrops>>
  BY <1>t DEF RetryWrite, historyVars
<1>2. UNCHANGED <<req, channel, lbatch, lpos, lphase>>
  BY DEF pipeVars, handlerVars, loggerVars
<1>3. UNCHANGED <<drops, Owed>>
  BY <1>1 DEF Owed, DropsSince
<1>4. PICK e \in Event : e = batch[pos]
  BY <1>t, <1>1
<1>5. /\ \A f \in Event : f # e => acked'[f] = acked[f] /\ unacked'[f] = unacked[f]
      /\ Stored(e) => Stored(e)'
      /\ out # "error" => Stored(e)'
  <2>1. CommitRow(e, out)
    BY <1>1, <1>4 DEF WriteUsageEvent
  <2> QED BY <1>t, <2>1, Committed
<1>6. \A f \in Event : f # e => (Stored(f)' <=> Stored(f))
  BY <1>5 DEF Stored
<1>7. \A f \in Event : f # e => (ToRetry(f)' <=> ToRetry(f))
  <2>1. \A i : i \in pos .. Len(batch) <=> i = pos \/ i \in pos + 1 .. Len(batch)
    BY <1>t, <1>1
  <2> QED BY <1>1, <1>4, <2>1 DEF ToRetry
<1>8. /\ out # "ok" => HasFailed(e)'
      /\ \A f \in Event : f # e => (HasFailed(f)' <=> HasFailed(f))
  <2>1. CASE out = "ok"
    BY <1>1, <2>1 DEF HasFailed
  <2>2. CASE out # "ok"
    <3>1. /\ DOMAIN failed' = 1 .. Len(failed) + 1 /\ failed'[Len(failed) + 1] = e
          /\ DOMAIN failed = 1 .. Len(failed) /\ Len(failed) \in Nat
          /\ \A i \in DOMAIN failed : failed'[i] = failed[i]
      BY <1>t, <1>1, <1>4, <2>2, Appended
    <3>2. /\ \A i \in DOMAIN failed' : i = Len(failed) + 1 \/ i \in DOMAIN failed
          /\ \A i \in DOMAIN failed : i \in DOMAIN failed'
          /\ Len(failed) + 1 \in DOMAIN failed'
      BY <3>1
    <3> QED BY <3>1, <3>2 DEF HasFailed
  <2> QED BY <2>1, <2>2
<1>9. \A f \in Event : f # e => (Somewhere(f)' <=> Somewhere(f))
  BY <1>1, <1>2, <1>7, <1>8 DEF Somewhere, InChannel, Awaiting, InQueue
<1>10. \A f \in Event : f # e => Status(f)' = Status(f)
  BY <1>2, <1>6, <1>9, SameStatus
<1>11. CASE Stored(e)
  BY <1>3, <1>5, <1>10, <1>11, SameStatus, Silent
<1>12. CASE ~Stored(e)
  <2>1. Somewhere(e)
    BY <1>t, <1>1, <1>4 DEF Somewhere, ToRetry
  <2>2. Status(e) = "pending"
    BY <1>12, <2>1, StatusIs DEF PInv, StatusOf
  <2>3. Stored(e)' \/ Somewhere(e)'
    BY <1>5, <1>8 DEF Somewhere
  <2>4. Status(e)' \in {"stored", "pending"}
    BY <2>3, StatusNext DEF PInv, StatusOf
  <2>5. CASE Status(e)' = "stored"
    BY <1>3, <1>10, <2>2, <2>5, OneMoves
  <2>6. CASE Status(e)' = "pending"
    BY <1>3, <1>10, <2>2, <2>6, Silent
  <2> QED BY <2>4, <2>5, <2>6
<1> QED BY <1>11, <1>12

\* The events at the last d of l places are d at most.
LEMMA AtPlaces ==
    ASSUME NEW q, NEW l \in Nat, NEW d \in 0 .. l, NEW S,
           \A f \in S : \E i \in l - d + 1 .. l : q[i] = f
    PROVE  Cardinality(S) <= d
<1> DEFINE I == {i \in l - d + 1 .. l : q[i] \in S}
           g == [i \in I |-> q[i]]
<1>1. l - d + 1 .. l \subseteq 1 .. l
  OBVIOUS
<1>2. Cardinality(l - d + 1 .. l) = d
  BY FS_Interval
<1>3. Cardinality(I) <= d /\ IsFiniteSet(I) /\ Cardinality(I) \in Nat
  BY <1>1, <1>2, FewerPlaces, PlacesFinite
<1>4. g \in [I -> S] /\ \A f \in S : \E i \in I : g[i] = f
  OBVIOUS
<1>5. g \in Surjection(I, S)
  BY <1>4 DEF Surjection
<1>6. Cardinality(S) <= Cardinality(I) /\ Cardinality(S) \in Nat
  BY <1>3, <1>5, FS_Surjection, FS_CardinalityType
<1> HIDE DEF I
<1> QED BY <1>3, <1>6

\* The merge loses at most one event for each drop of the retry.
LEMMA MergeStep ==
    ASSUME PInv, PInv', Tried, RetryMerge, UNCHANGED <<pipeVars, tableVars>>
    PROVE  LStep
<1>t. /\ failed \in Seq(Event) /\ Len(failed) \in Nat /\ DOMAIN failed = 1 .. Len(failed)
      /\ queue \in Seq(Event) /\ Len(queue) \in Nat /\ DOMAIN queue = 1 .. Len(queue)
      /\ Len(batch) \in Nat /\ DOMAIN batch = 1 .. Len(batch) /\ pos \in Nat
      /\ DropsSince \in Nat
  BY Types DEF PInv, OInv
<1>1. /\ phase = "writing" /\ phase' = "asleep" /\ pos > Len(batch)
      /\ queue' = failed \o SubSeq(queue, Cutoff + 1, Len(queue))
      /\ UNCHANGED <<drops, req, channel, lbatch, lpos, lphase, acked, unacked>>
  BY DEF RetryMerge, historyVars, pipeVars, handlerVars, loggerVars, tableVars
<1>2. Cutoff = Len(batch) /\ Len(batch) <= Len(queue)
  BY <1>1, MergeFits DEF PInv, OInv
<1>3. PICK l \in Nat, n \in Nat, m \in Nat : l = Len(batch) /\ n = Len(failed) /\ m = Len(queue) - l
  <2>1. Len(queue) - Len(batch) \in Nat
    BY <1>t, <1>2
  <2> QED BY <1>t, <2>1
<1> DEFINE rest == SubSeq(queue, l + 1, Len(queue))
<1>4. /\ rest \in Seq(Event) /\ Len(rest) = m /\ DOMAIN rest = 1 .. m
      /\ \A i \in 1 .. m : rest[i] = queue[l + i]
  <2>1. PICK k \in Nat : k = Len(queue)
    BY <1>t
  <2>2. l + m = k /\ \A i \in l + 1 .. k : queue[i] \in Event
    BY <1>t, <1>3, <2>1
  <2>3. /\ SubSeq(queue, l + 1, k) \in Seq(Event)
        /\ Len(SubSeq(queue, l + 1, k)) = IF l + 1 <= k THEN k - l ELSE 0
        /\ \A i \in 1 .. k - l : SubSeq(queue, l + 1, k)[i] = queue[l + i]
    BY <2>1, <2>2, SubSeqProperties
  <2> QED BY <2>1, <2>2, <2>3
<1>5. queue' = failed \o rest
  BY <1>1, <1>2, <1>3
<1> HIDE DEF rest
<1>6. /\ DOMAIN queue' = 1 .. n + m
      /\ \A i \in 1 .. n : queue'[i] = failed[i]
      /\ \A i \in 1 .. m : queue'[n + i] = rest[i]
  <2>1. /\ queue' \in Seq(Event) /\ Len(queue') = Len(failed) + Len(rest)
        /\ \A i \in 1 .. Len(failed) + Len(rest) :
              queue'[i] = IF i <= Len(failed) THEN failed[i] ELSE rest[i - Len(failed)]
    BY <1>t, <1>4, <1>5, ConcatProperties
  <2>2. /\ Len(queue') = n + m
        /\ \A i \in 1 .. n + m : queue'[i] = IF i <= n THEN failed[i] ELSE rest[i - n]
    BY <1>3, <1>4, <2>1
  <2>3. DOMAIN queue' = 1 .. n + m
    BY <2>1, <2>2
  <2>4. \A i \in 1 .. m : n + i \in 1 .. n + m /\ ~(n + i <= n) /\ (n + i) - n = i
    OBVIOUS
  <2>5. \A i \in 1 .. n : i \in 1 .. n + m /\ i <= n
    OBVIOUS
  <2> QED BY <2>2, <2>3, <2>4, <2>5
<1>7. \A f \in Event : InQueue(f)' <=> HasFailed(f) \/ \E i \in DOMAIN queue : i > l /\ queue[i] = f
  <2>1. ASSUME NEW f \in Event, NEW i \in DOMAIN queue', queue'[i] = f
        PROVE  HasFailed(f) \/ \E j \in DOMAIN queue : j > l /\ queue[j] = f
    <3>1. CASE i \in 1 .. n
      BY <1>t, <1>3, <1>6, <2>1, <3>1 DEF HasFailed
    <3>2. CASE ~(i \in 1 .. n)
      <4>1. i - n \in 1 .. m /\ n + (i - n) = i
        BY <1>6, <3>2
      <4>2. queue[l + (i - n)] = f
        BY <1>4, <1>6, <2>1, <4>1
      <4>3. l + (i - n) \in DOMAIN queue /\ l + (i - n) > l
        BY <1>t, <1>3, <4>1
      <4> QED BY <4>2, <4>3
    <3> QED BY <3>1, <3>2
  <2>2. ASSUME NEW f \in Event, NEW i \in DOMAIN failed, failed[i] = f
        PROVE  InQueue(f)'
    <3>1. i \in 1 .. n /\ i \in DOMAIN queue'
      BY <1>t, <1>3, <1>6
    <3> QED BY <1>6, <2>2, <3>1 DEF InQueue
  <2>3. ASSUME NEW f \in Event, NEW i \in DOMAIN queue, i > l, queue[i] = f
        PROVE  InQueue(f)'
    <3>1. i - l \in 1 .. m /\ l + (i - l) = i
      BY <1>t, <1>3, <2>3
    <3>2. queue'[n + (i - l)] = f /\ n + (i - l) \in DOMAIN queue'
      BY <1>4, <1>6, <2>3, <3>1
    <3> QED BY <3>2 DEF InQueue
  <2> QED BY <2>1, <2>2, <2>3 DEF InQueue, HasFailed
<1>8. \A f \in Event : ~ToRetry(f) /\ ~ToRetry(f)' /\ ~HasFailed(f)'
  <2>1. pos .. Len(batch) = {}
    BY <1>t, <1>1
  <2>2. batch' = <<>> /\ failed' = <<>> /\ pos' = 1
    BY DEF RetryMerge
  <2>3. pos' .. Len(batch') = {} /\ DOMAIN failed' = {}
    BY <2>2
  <2> QED BY <2>1, <2>3 DEF ToRetry, HasFailed
<1>9. \A f \in Event : /\ InChannel(f)' <=> InChannel(f)
                       /\ Awaiting(f)' <=> Awaiting(f)
                       /\ Stored(f)' <=> Stored(f)
  BY <1>1 DEF InChannel, Awaiting, Stored
<1>10. \A f \in Event : Somewhere(f)' => Somewhere(f)
  BY <1>7, <1>8, <1>9 DEF Somewhere, InQueue
<1> DEFINE S == {f \in Event : Status(f) = "pending" /\ ~Somewhere(f)'}
<1>11. \A f \in Event : Status(f)' = IF f \in S THEN "lost" ELSE Status(f)
  <2> SUFFICES ASSUME NEW f \in Event PROVE Status(f)' = IF f \in S THEN "lost" ELSE Status(f)
    OBVIOUS
  <2>1. Status(f) = StatusOf(f) /\ Status(f)' = StatusOf(f)'
    BY StatusIs, StatusNext DEF PInv
  <2>2. Somewhere(f) => req[f] = "logged"
    BY WhoHolds
  <2> QED BY <1>1, <1>9, <1>10, <2>1, <2>2 DEF StatusOf
<1>12. \A f \in S : \E i \in DOMAIN queue : i <= l /\ i + DropsSince > l /\ queue[i] = f
  <2> SUFFICES ASSUME NEW f \in Event, Status(f) = "pending", ~Somewhere(f)'
               PROVE  \E i \in DOMAIN queue : i <= l /\ i + DropsSince > l /\ queue[i] = f
    OBVIOUS
  <2>1. ~Stored(f) /\ Somewhere(f)
    BY StatusIs DEF PInv, StatusOf
  <2>2. ~HasFailed(f) /\ InQueue(f) /\ \A i \in DOMAIN queue : i > l => queue[i] # f
    BY <1>7, <1>8, <1>9, <2>1 DEF Somewhere
  <2>3. PICK i \in DOMAIN queue : queue[i] = f
    BY <2>2 DEF InQueue
  <2>4. i <= l /\ i \in 1 .. Len(queue)
    BY <1>t, <2>2, <2>3
  <2>5. i + DropsSince > l
    <3> SUFFICES ASSUME i + DropsSince <= l PROVE FALSE
      BY <1>t, <2>4
    <3>1. queue[i] = EventAt(i)
      BY <1>1, <2>4 DEF PInv, OInv, IInv, Shape
    <3>2. i + DropsSince \in DOMAIN batch /\ i + DropsSince < pos /\ batch[i + DropsSince] = f
      BY <1>t, <1>1, <1>3, <2>3, <2>4, <3>1 DEF EventAt
    <3> QED BY <1>1, <2>1, <2>2, <3>2 DEF Tried
  <2> QED BY <2>3, <2>4, <2>5
<1>13. Owed = SmallerOf(DropsSince, l) /\ Owed' = 0
  BY <1>1, <1>3 DEF Owed
<1>14. Owed \in 0 .. l
  BY <1>t, <1>13 DEF SmallerOf
<1>15. \A f \in S : \E i \in l - Owed + 1 .. l : queue[i] = f
  <2>1. \A i \in DOMAIN queue : i <= l /\ i + DropsSince > l => i \in l - Owed + 1 .. l
    BY <1>t, <1>13 DEF SmallerOf
  <2> QED BY <1>12, <2>1
<1>16. Cardinality(S) <= Owed
  BY <1>14, <1>15, AtPlaces
<1>17. S \subseteq Event /\ \A f \in S : Status(f) = "pending"
  OBVIOUS
<1> HIDE DEF S
<1>18. Ledger!Settle(S)
  <2>1. Ledger!Move(S, "lost")
    BY <1>11 DEF Ledger!Move
  <2>2. S \subseteq Ledger!In("pending")
    BY <1>17 DEF Ledger!In
  <2>3. Cardinality(S) <= Owed /\ Owed' = 0 /\ UNCHANGED drops
    BY <1>1, <1>13, <1>16
  <2>4. Ledger!Cardinality(S) = Cardinality(S)
    BY DEF Cardinality, Ledger!Cardinality
  <2> QED BY <2>1, <2>2, <2>3, <2>4 DEF Ledger!Settle
<1> QED BY <1>17, <1>18 DEF LStep, Ledger!LedgerNext

LEMMA RetryLedger ==
    ASSUME PInv, PInv', Tried, Retry
    PROVE  LStep
<1>1. CASE RetryEmpty /\ UNCHANGED tableVars
  <2>1. UNCHANGED <<queue, phase, batch, pos, failed, drops, snapDrops, req, channel, lbatch, lpos,
                    lphase, acked, unacked>>
    BY <1>1 DEF Retry, RetryEmpty, historyVars, pipeVars, handlerVars, loggerVars, tableVars
  <2>2. UNCHANGED <<drops, Owed>> /\ \A f \in Event : Somewhere(f)' <=> Somewhere(f)
    BY <2>1 DEF Owed, DropsSince, Somewhere, InChannel, Awaiting, InQueue, ToRetry, HasFailed
  <2>3. \A f \in Event : Status(f)' = Status(f)
    BY <2>1, <2>2, SameStatus DEF Stored
  <2> QED BY <2>2, <2>3, Silent
<1>2. CASE RetrySnapshot /\ UNCHANGED tableVars
  BY <1>2, SnapshotStep DEF Retry
<1>3. ASSUME NEW out \in Outcome, RetryWrite(out) PROVE LStep
  BY <1>3, WriteStep DEF Retry
<1>4. CASE RetryMerge /\ UNCHANGED tableVars
  BY <1>4, MergeStep DEF Retry
<1> QED BY <1>1, <1>2, <1>3, <1>4 DEF Retry, RetryStep

-----------------------------------------------------------------------------
\* A restart loses everything pending and the requests in progress.
LEMMA CrashStep ==
    ASSUME PInv, PInv', Crash
    PROVE  LStep
<1>t. req \in [Event -> ReqState]
  BY PipeTypes
<1>1. /\ channel' = <<>> /\ lbatch' = <<>> /\ queue' = <<>> /\ batch' = <<>> /\ failed' = <<>>
      /\ pos' = 1 /\ phase' = "asleep" /\ drops' = 0
      /\ UNCHANGED <<acked, unacked>>
  BY DEF Crash, NewDLQ, tableVars
<1>2. \A f \in Event : ~Somewhere(f)'
  <2>1. /\ DOMAIN channel' = {} /\ DOMAIN lbatch' = {} /\ DOMAIN queue' = {} /\ DOMAIN failed' = {}
        /\ pos' .. Len(batch') = {}
    BY <1>1
  <2> QED BY <2>1 DEF Somewhere, InChannel, Awaiting, InQueue, ToRetry, HasFailed
<1>3. Owed' = 0
  BY <1>1 DEF Owed
<1> DEFINE cut == {f \in Event : req[f] \in {"forwarding", "answered", "hungup"}}
           S == {f \in cut : Status(f) = "none"}
<1>4. \A f \in Event : req'[f] = IF f \in cut THEN "cut" ELSE req[f]
  BY DEF Crash
<1>5. \A f \in Event :
         Status(f)' = IF f \in S \/ Status(f) = "pending" THEN "lost" ELSE Status(f)
  <2> SUFFICES ASSUME NEW f \in Event
               PROVE  Status(f)' = IF f \in S \/ Status(f) = "pending" THEN "lost" ELSE Status(f)
    OBVIOUS
  <2>1. Status(f) = StatusOf(f) /\ Status(f)' = StatusOf(f)'
    BY StatusIs, StatusNext DEF PInv
  <2>2. Somewhere(f) => req[f] = "logged"
    BY WhoHolds
  <2>3. Stored(f)' <=> Stored(f)
    BY <1>1 DEF Stored
  <2>4. req'[f] = IF f \in cut THEN "cut" ELSE req[f]
    BY <1>4
  <2> QED BY <1>2, <2>1, <2>2, <2>3, <2>4 DEF StatusOf
<1>6. S \subseteq Event /\ \A f \in S : Status(f) = "none"
  OBVIOUS
<1> HIDE DEF S, cut
<1>7. Ledger!Restart(S)
  BY <1>1, <1>3, <1>5, <1>6 DEF Ledger!Restart, Ledger!In, Ledger!Move
<1> QED BY <1>6, <1>7 DEF LStep, Ledger!LedgerNext

LEMMA StillStep ==
    ASSUME PInv, PInv', Outage \/ UNCHANGED allVars
    PROVE  LStep
<1>1. UNCHANGED <<dlqVars, req, channel, lbatch, lpos, lphase, acked, unacked>>
  BY DEF Outage, DBFails, DBRecovers, allVars, pipeVars, handlerVars, loggerVars, tableVars
<1>2. \A f \in Event : (Stored(f)' <=> Stored(f)) /\ (Somewhere(f)' <=> Somewhere(f))
  BY <1>1, PlacesKept DEF Stored
<1>3. \A f \in Event : Status(f)' = Status(f)
  BY <1>1, <1>2, SameStatus
<1> QED BY <1>1, <1>3, PlacesKept, Silent

\* Every step of the pipeline is a step of the ledger or leaves it alone.
LEMMA PipeNextLedger == PInv /\ PInv' /\ Tried /\ [PipeNext]_allVars => LStep
<1> SUFFICES ASSUME PInv, PInv', Tried, [PipeNext]_allVars PROVE LStep
  OBVIOUS
<1>1. ASSUME NEW r \in Event, Handler(r) PROVE LStep
  BY <1>1, HandlerStep
<1>2. CASE Logger
  BY <1>2, LoggerStep
<1>3. CASE Retry
  BY <1>3, RetryLedger
<1>4. CASE Crash
  BY <1>4, CrashStep
<1>5. CASE Outage \/ UNCHANGED allVars
  BY <1>5, StillStep
<1> QED BY <1>1, <1>2, <1>3, <1>4, <1>5 DEF PipeNext

LEMMA PipeInitLedger == PipeInit => Tried /\ Ledger!LedgerInit
<1> SUFFICES ASSUME PipeInit PROVE Tried /\ Ledger!LedgerInit
  OBVIOUS
<1>1. PInv
  BY PipeInitInv
<1>2. /\ channel = <<>> /\ lbatch = <<>> /\ queue = <<>> /\ batch = <<>> /\ failed = <<>>
      /\ pos = 1 /\ phase = "asleep" /\ drops = 0
      /\ acked = [e \in Event |-> 0] /\ unacked = [e \in Event |-> 0]
      /\ req = [e \in Event |-> "new"]
  BY DEF PipeInit, Init, DLQInit, TableInit
<1>3. \A e \in Event : ~Somewhere(e)
  <2>1. /\ DOMAIN channel = {} /\ DOMAIN lbatch = {} /\ DOMAIN queue = {} /\ DOMAIN failed = {}
        /\ pos .. Len(batch) = {}
    BY <1>2
  <2> QED BY <2>1 DEF Somewhere, InChannel, Awaiting, InQueue, ToRetry, HasFailed
<1>4. \A e \in Event : Status(e) = "none"
  <2>1. \A e \in Event : ~Stored(e) /\ req[e] = "new"
    BY <1>2 DEF Stored
  <2> QED BY <1>1, <1>3, <2>1, StatusIs DEF PInv, StatusOf
<1>5. Owed = 0 /\ Tried
  BY <1>2 DEF Owed, Tried
<1> QED BY <1>2, <1>4, <1>5 DEF Ledger!LedgerInit

\* The pipeline keeps the promise of UsageLedger, for any number of events, any
\* capacities, and any number of outages and restarts: what is stored stays
\* stored, what is lost stays lost, and a pending event is lost only to a restart
\* or to a drop of its own (proxy/logger.go:37-92, proxy/dlq.go:28-86).
THEOREM Implements == PipeSpec => KeepsLedger
<1>1. PipeSpec => [](PInv /\ Tried)
  BY PipeInitInv, PipeNextInv, PipeInitLedger, TriedNext, PTL DEF PipeSpec
<1>2. PInv /\ PInv' /\ Tried /\ [PipeNext]_allVars => [Ledger!LedgerNext]_(Ledger!ledgerVars)
  BY PipeNextLedger DEF LStep
<1>3. PipeSpec => [][Ledger!LedgerNext]_(Ledger!ledgerVars)
  BY <1>1, <1>2, PTL DEF PipeSpec
<1> QED BY <1>3, PipeInitLedger, PTL DEF PipeSpec, KeepsLedger, Ledger!LedgerSpec
=============================================================================
