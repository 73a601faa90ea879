------------------------ MODULE UsagePipelineProofs ------------------------
(***************************************************************************)
(* Theorems about the usage pipeline, for all capacities, batch sizes,     *)
(* events and numbers of restarts.  The steps of the queue keep what       *)
(* DLQProofs says of it; the rest of the invariant says who holds          *)
(* which event on its way to the queue or to its row.                      *)
(***************************************************************************)
EXTENDS UsagePipeline, DLQProofs

InChannel(e) == \E i \in DOMAIN channel : channel[i] = e
InBatch(e) == \E i \in DOMAIN lbatch : i >= lpos /\ lbatch[i] = e

\* An event is in one place of the logger at most.
Distinct ==
    /\ \A i, j \in DOMAIN channel : channel[i] = channel[j] => i = j
    /\ \A i, j \in DOMAIN lbatch :
          i >= lpos /\ j >= lpos /\ lbatch[i] = lbatch[j] => i = j
    /\ \A i \in DOMAIN channel, j \in DOMAIN lbatch : j >= lpos => channel[i] # lbatch[j]

\* What the logger has in hand was logged, and was neither queued nor charged.
Handed(e) ==
    /\ req[e] = "logged" /\ ~failOpen[e]
    /\ e \notin ToSet(offered) /\ e \notin charged

\* It has no row yet, but for the event whose cost is being recorded.
InHand ==
    /\ \A i \in DOMAIN channel : Handed(channel[i]) /\ Fresh(channel[i])
    /\ \A i \in DOMAIN lbatch : i >= lpos =>
          /\ Handed(lbatch[i])
          /\ i > lpos \/ lphase # "charging" => Fresh(lbatch[i])
    /\ lphase = "charging" => lpos \in DOMAIN lbatch /\ acked[lbatch[lpos]] = 1
    /\ lphase = "enqueueing" => lpos \in DOMAIN lbatch
    /\ lphase = "idle" => lpos = 1 /\ Len(lbatch) < BatchSize

\* What was queued was logged by a handler that found Redis up.
Queued ==
    \A k \in DOMAIN offered :
        req[offered[k]] = "logged" /\ ~failOpen[offered[k]] /\ offered[k] \notin charged

\* Nothing is written or charged before its handler has logged it.
NotBefore == \A e \in Event : req[e] # "logged" => Fresh(e) /\ e \notin charged

\* What was logged is stored, in hand, queued (then held or dropped by the queue),
\* or was given up in an announced way.
Accounted ==
    \A e \in Event : req[e] = "logged" =>
        \/ Stored(e)
        \/ InChannel(e) \/ InBatch(e)
        \/ e \in ToSet(offered)
        \/ excused[e] # "none"

PInv ==
    /\ OInv
    /\ PipeTypeOK
    /\ Distinct
    /\ InHand
    /\ Queued
    /\ NotBefore
    /\ ChargedAreStored
    /\ Accounted

LEMMA PipeTypes ==
    ASSUME PInv
    PROVE  /\ channel \in Seq(Event) /\ Len(channel) \in Nat /\ DOMAIN channel = 1 .. Len(channel)
           /\ Len(channel) <= ChanCap
           /\ lbatch \in Seq(Event) /\ Len(lbatch) \in Nat /\ DOMAIN lbatch = 1 .. Len(lbatch)
           /\ Len(lbatch) <= BatchSize /\ lpos \in 1 .. Len(lbatch) + 1 /\ lpos \in Nat /\ lpos >= 1
           /\ req \in [Event -> ReqState] /\ failOpen \in [Event -> BOOLEAN]
           /\ charged \subseteq Event
           /\ excused \in [Event -> {"none", "channel", "direct", "overflow", "crash"}]
           /\ crashes \in 0 .. MaxCrashes
           /\ offered \in Seq(Event) /\ DOMAIN offered = 1 .. Len(offered)
           /\ acked \in [Event -> Nat] /\ unacked \in [Event -> Nat]
           /\ TypeOK /\ TableTypeOK
<1>1. IInv /\ PipeTypeOK
  BY DEF PInv, OInv
<1>2. /\ TypeOK /\ TableTypeOK
      /\ channel \in Seq(Event) /\ Len(channel) <= ChanCap
      /\ lbatch \in Seq(Event) /\ Len(lbatch) <= BatchSize /\ lpos \in 1 .. Len(lbatch) + 1
      /\ req \in [Event -> ReqState] /\ failOpen \in [Event -> BOOLEAN]
      /\ charged \subseteq Event
      /\ excused \in [Event -> {"none", "channel", "direct", "overflow", "crash"}]
      /\ crashes \in 0 .. MaxCrashes
  BY <1>1 DEF PipeTypeOK, TypeOK
<1>3. /\ offered \in Seq(Event) /\ DOMAIN offered = 1 .. Len(offered)
      /\ acked \in [Event -> Nat] /\ unacked \in [Event -> Nat]
  BY <1>1, Types
<1>4. /\ Len(channel) \in Nat /\ DOMAIN channel = 1 .. Len(channel)
      /\ Len(lbatch) \in Nat /\ DOMAIN lbatch = 1 .. Len(lbatch)
  BY <1>2
<1>5. lpos \in Nat /\ lpos >= 1
  BY <1>2, <1>4
<1> QED BY <1>2, <1>3, <1>4, <1>5

\* The steps that touch neither the queue nor the table.
LEMMA QueueStill ==
    ASSUME OInv, UNCHANGED <<dlqVars, tableVars>>
    PROVE  /\ OInv' /\ TypeOK'
           /\ UNCHANGED <<acked, unacked, offered>>
<1>1. UNCHANGED <<dlqVars, acked>>
  BY DEF tableVars
<1>2. IInv'
  BY NextInv DEF OInv, vars
<1> QED BY <1>1, <1>2, StillOrder DEF OInv, IInv, tableVars, dlqVars, historyVars

\* A row of an event that was never queued leaves the queue alone.
LEMMA RowOrder ==
    ASSUME OInv, UNCHANGED dlqVars, TableTypeOK',
           NEW e \in Event, e \notin ToSet(offered), acked'[e] <= 1,
           \A f \in Event : f # e => acked'[f] = acked[f]
    PROVE  OInv' /\ TypeOK' /\ UNCHANGED offered
<1>1. UNCHANGED <<queue, phase, batch, pos, failed, attempt, offered, snapAt, drops, snapDrops>>
  BY DEF dlqVars, loopVars, historyVars
<1>2. IInv'
  BY <1>1 DEF OInv, IInv, TypeOK, DLQTypeOK, CapHolds, Shape, EventAt, DropsSince
<1>3. Order' /\ BackoffOnlyWithWork'
  BY <1>1 DEF OInv, Order, Once, Asleep, QueueOffered, Retried, Ordered, Before, BackoffOnlyWithWork
<1>4. \A k \in DOMAIN offered : offered[k] # e /\ offered[k] \in Event
  BY Types DEF OInv, ToSet
<1>5. \A f \in Event : f # e /\ Fresh(f) => Fresh(f)'
  BY DEF Fresh
<1>6. \A i \in DOMAIN queue : queue[i] # e /\ queue[i] \in Event
  BY <1>4 DEF OInv, Order, QueueOffered
<1>7. \A i \in DOMAIN batch : batch[i] # e /\ batch[i] \in Event
  <2>1. 1 .. snapAt \subseteq DOMAIN offered
    BY Types DEF OInv
  <2> QED BY <1>4, <2>1 DEF OInv, Order, Retried
<1>8. \A i \in DOMAIN failed : failed[i] # e /\ failed[i] \in Event
  BY <1>7 DEF OInv, Order, Retried
<1>9. Unwritten'
  <2>1. \A f \in Event : acked'[f] <= 1
    BY DEF OInv, Unwritten
  <2>2. pos .. Len(batch) \subseteq DOMAIN batch /\ snapAt + 1 .. Len(offered) \subseteq DOMAIN offered
    <3>1. /\ DOMAIN batch = 1 .. Len(batch) /\ pos \in Nat /\ pos >= 1 /\ Len(batch) \in Nat
          /\ DOMAIN offered = 1 .. Len(offered) /\ snapAt \in Nat /\ Len(offered) \in Nat
      BY Types DEF OInv
    <3> QED BY <3>1
  <2> QED BY <1>1, <1>4, <1>5, <1>6, <1>7, <1>8, <2>1, <2>2 DEF OInv, Unwritten, Fresh
<1> QED BY <1>1, <1>2, <1>3, <1>9 DEF OInv, IInv

-----------------------------------------------------------------------------
(***************************************************************************)
(* The handler.                                                            *)
(***************************************************************************)
\* The steps before the event is logged.
LEMMA ForwardInv ==
    ASSUME PInv, NEW r \in Event, req[r] # "logged",
           NEW st \in ReqState, st # "logged", Goto(r, st),
           NEW b \in BOOLEAN, failOpen' = [failOpen EXCEPT ![r] = b],
           UNCHANGED <<channel, loggerVars, charged, excused, crashes, dlqVars, tableVars>>
    PROVE  PInv'
<1>t. /\ req \in [Event -> ReqState] /\ failOpen \in [Event -> BOOLEAN]
      /\ charged \subseteq Event /\ channel \in Seq(Event) /\ lbatch \in Seq(Event)
      /\ offered \in Seq(Event)
  BY PipeTypes
<1>1. /\ OInv' /\ TypeOK'
      /\ UNCHANGED <<acked, unacked, offered, channel, lbatch, lphase, lpos, charged, excused, crashes>>
  BY QueueStill DEF PInv, loggerVars
<1>2. /\ req' \in [Event -> ReqState] /\ failOpen' \in [Event -> BOOLEAN]
      /\ \A e \in Event : req'[e] = "logged" <=> req[e] = "logged"
      /\ \A e \in Event : req[e] = "logged" => failOpen'[e] = failOpen[e]
  BY <1>t DEF Goto
<1>3. PipeTypeOK'
  BY <1>1, <1>2 DEF PInv, PipeTypeOK
<1>4. Distinct'
  BY <1>1 DEF PInv, Distinct
<1>5. \A e \in Event : Handed(e) => Handed(e)'
  BY <1>1, <1>2 DEF Handed
<1>6. InHand'
  BY <1>t, <1>1, <1>5 DEF PInv, InHand, Fresh
<1>7. Queued'
  BY <1>t, <1>1, <1>2 DEF PInv, Queued
<1>8. NotBefore'
  BY <1>1, <1>2 DEF PInv, NotBefore, Fresh
<1>9. ChargedAreStored'
  BY <1>t, <1>1, <1>2 DEF PInv, ChargedAreStored, NotBefore
<1>10. Accounted'
  BY <1>1, <1>2 DEF PInv, Accounted, Stored, InChannel, InBatch
<1> QED BY <1>1, <1>3, <1>4, <1>6, <1>7, <1>8, <1>9, <1>10 DEF PInv

LEMMA LogInv ==
    ASSUME PInv, NEW r \in Event, Log(r)
    PROVE  PInv'
<1>t. /\ req \in [Event -> ReqState] /\ failOpen \in [Event -> BOOLEAN]
      /\ channel \in Seq(Event) /\ lbatch \in Seq(Event)
      /\ offered \in Seq(Event) /\ Len(channel) \in Nat /\ ChanCap \in Nat
  BY PipeTypes, PipelineAssumption
<1>0. req[r] # "logged" /\ ~failOpen[r]
  BY DEF Log
<1>1. /\ OInv' /\ TypeOK'
      /\ UNCHANGED <<acked, unacked, offered, failOpen, lbatch, lphase, lpos, charged, crashes>>
  BY QueueStill DEF PInv, Log, loggerVars
<1>2. /\ req' \in [Event -> ReqState] /\ req'[r] = "logged"
      /\ \A e \in Event : e # r => req'[e] = req[e]
  BY <1>t DEF Log, Goto, ReqState
<1>3. /\ Fresh(r) /\ r \notin charged /\ r \notin ToSet(offered)
      /\ \A i \in DOMAIN channel : channel[i] # r
      /\ \A i \in DOMAIN lbatch : i >= lpos => lbatch[i] # r
  BY <1>0 DEF PInv, NotBefore, Queued, InHand, Handed, ToSet
<1>4. Handed(r)' /\ \A e \in Event : Handed(e) => Handed(e)'
  BY <1>0, <1>1, <1>2, <1>3 DEF Handed
<1>5. Queued' /\ NotBefore' /\ ChargedAreStored'
  BY <1>t, <1>1, <1>2, <1>3 DEF PInv, Queued, NotBefore, ChargedAreStored, Fresh, ToSet
<1>6. CASE Len(channel) < ChanCap
  <2>1. channel' = Append(channel, r) /\ UNCHANGED excused
    BY <1>6 DEF Log
  <2>2. PICK n \in Nat : n = Len(channel)
    BY <1>t
  <2>3. /\ channel' \in Seq(Event) /\ Len(channel') = n + 1
        /\ DOMAIN channel' = 1 .. n + 1 /\ DOMAIN channel = 1 .. n
        /\ channel'[n + 1] = r /\ \A i \in DOMAIN channel : channel'[i] = channel[i]
        /\ \A i \in DOMAIN channel' : i \in DOMAIN channel \/ i = n + 1
    BY <1>t, <2>1, <2>2
  <2>4. PipeTypeOK'
    BY <1>t, <1>1, <1>2, <1>6, <2>1, <2>2, <2>3 DEF PInv, PipeTypeOK
  <2>5. Distinct'
    BY <1>1, <1>3, <2>3 DEF PInv, Distinct
  <2>6. InHand'
    <3>1. ASSUME NEW i \in DOMAIN channel' PROVE (Handed(channel[i]) /\ Fresh(channel[i]))'
      <4>1. PICK e \in Event : e = channel'[i]
        BY <2>3
      <4>2. Handed(e)' /\ Fresh(e)
        BY <1>3, <1>4, <2>3, <4>1 DEF PInv, InHand
      <4> QED BY <1>1, <4>1, <4>2 DEF Handed, Fresh
    <3>2. ASSUME NEW i \in DOMAIN lbatch, i >= lpos
          PROVE  /\ Handed(lbatch[i])'
                 /\ i > lpos \/ lphase # "charging" => Fresh(lbatch[i])'
      <4>1. PICK e \in Event : e = lbatch[i]
        BY <1>t
      <4>2. Handed(e)' /\ (i > lpos \/ lphase # "charging" => Fresh(e))
        BY <1>4, <3>2, <4>1 DEF PInv, InHand
      <4> QED BY <1>1, <4>1, <4>2 DEF Handed, Fresh
    <3> QED BY <1>1, <3>1, <3>2 DEF PInv, InHand
  <2>7. Accounted'
    <3> SUFFICES ASSUME NEW e \in Event, req'[e] = "logged"
                 PROVE  \/ Stored(e)' \/ InChannel(e)' \/ InBatch(e)'
                        \/ e \in ToSet(offered') \/ excused'[e] # "none"
      BY DEF Accounted
    <3>1. CASE e = r
      <4>1. n + 1 \in DOMAIN channel'
        BY <2>3
      <4> QED BY <2>3, <3>1, <4>1 DEF InChannel
    <3>2. CASE e # r
      BY <1>1, <1>2, <2>1, <2>3, <3>2 DEF PInv, Accounted, Stored, InChannel, InBatch
    <3> QED BY <3>1, <3>2
  <2> QED BY <1>1, <1>5, <2>4, <2>5, <2>6, <2>7 DEF PInv
<1>7. CASE ~(Len(channel) < ChanCap)
  <2>1. excused' = [excused EXCEPT ![r] = "channel"] /\ UNCHANGED channel
    BY <1>7 DEF Log
  <2>2. /\ PipeTypeOK'
        /\ \A e \in Event : excused'[e] = IF e = r THEN "channel" ELSE excused[e]
    BY <1>1, <1>2, <2>1 DEF PInv, PipeTypeOK
  <2>3. Distinct' /\ InHand'
    BY <1>t, <1>1, <1>4, <2>1 DEF PInv, Distinct, InHand, Fresh
  <2>4. Accounted'
    BY <1>1, <1>2, <2>1, <2>2 DEF PInv, Accounted, Stored, InChannel, InBatch
  <2> QED BY <1>1, <1>5, <2>2, <2>3, <2>4 DEF PInv
<1> QED BY <1>6, <1>7

\* What a commit does to the rows.
LEMMA Committed ==
    ASSUME TableTypeOK, NEW e \in Event, NEW out \in Outcome, CommitRow(e, out)
    PROVE  /\ TableTypeOK'
           /\ \A f \in Event : f # e => acked'[f] = acked[f] /\ unacked'[f] = unacked[f]
           /\ acked'[e] = IF out = "ok" THEN acked[e] + 1 ELSE acked[e]
           /\ \A f \in Event : Stored(f) => Stored(f)'
           /\ out # "error" => Stored(e)'
<1>1. /\ acked \in [Event -> Nat] /\ unacked \in [Event -> Nat] /\ dbUp \in BOOLEAN
      /\ acked' = [acked EXCEPT ![e] = IF out = "ok" THEN acked[e] + 1 ELSE acked[e]]
      /\ unacked' = [unacked EXCEPT ![e] = IF out = "unknown" THEN unacked[e] + 1 ELSE unacked[e]]
      /\ dbUp' = dbUp
  BY DEF TableTypeOK, CommitRow
<1>2. TableTypeOK'
  BY <1>1 DEF TableTypeOK
<1>3. \A f \in Event :
         /\ acked'[f] = IF f = e /\ out = "ok" THEN acked[f] + 1 ELSE acked[f]
         /\ unacked'[f] = IF f = e /\ out = "unknown" THEN unacked[f] + 1 ELSE unacked[f]
         /\ acked[f] \in Nat /\ unacked[f] \in Nat
  BY <1>1
<1>4. \A f \in Event : Stored(f) => Stored(f)'
  <2> SUFFICES ASSUME NEW f \in Event, acked[f] + unacked[f] > 0 PROVE acked'[f] + unacked'[f] > 0
    BY DEF Stored
  <2> QED BY <1>3
<1>5. out # "error" => Stored(e)'
  <2> SUFFICES ASSUME out # "error" PROVE acked'[e] + unacked'[e] > 0
    BY DEF Stored
  <2> QED BY <1>3 DEF Outcome
<1> QED BY <1>2, <1>3, <1>4, <1>5

LEMMA LogDirectInv ==
    ASSUME PInv, NEW r \in Event, NEW out \in Outcome, LogDirect(r, out)
    PROVE  PInv'
<1>t. /\ req \in [Event -> ReqState] /\ failOpen \in [Event -> BOOLEAN]
      /\ channel \in Seq(Event) /\ lbatch \in Seq(Event) /\ offered \in Seq(Event)
      /\ charged \subseteq Event /\ DOMAIN offered = 1 .. Len(offered)
      /\ excused \in [Event -> {"none", "channel", "direct", "overflow", "crash"}]
      /\ acked \in [Event -> Nat] /\ TableTypeOK
  BY PipeTypes
<1>0. req[r] # "logged" /\ failOpen[r] /\ CommitRow(r, out)
  BY DEF LogDirect, WriteUsageEvent, WriteCancelled
<1>1. /\ Fresh(r) /\ r \notin charged /\ r \notin ToSet(offered)
      /\ \A i \in DOMAIN channel : channel[i] # r
      /\ \A i \in DOMAIN lbatch : i >= lpos => lbatch[i] # r
  BY <1>0 DEF PInv, NotBefore, Queued, InHand, Handed, ToSet
<1>2. /\ TableTypeOK'
      /\ \A f \in Event : f # r => acked'[f] = acked[f] /\ unacked'[f] = unacked[f]
      /\ acked'[r] <= 1
      /\ \A f \in Event : Stored(f) => Stored(f)'
      /\ out # "error" => Stored(r)'
  <2>1. /\ TableTypeOK'
        /\ \A f \in Event : f # r => acked'[f] = acked[f] /\ unacked'[f] = unacked[f]
        /\ acked'[r] = IF out = "ok" THEN acked[r] + 1 ELSE acked[r]
        /\ \A f \in Event : Stored(f) => Stored(f)'
        /\ out # "error" => Stored(r)'
    BY <1>t, <1>0, Committed
  <2> QED BY <1>1, <2>1 DEF Fresh
<1>3. UNCHANGED <<failOpen, channel, lbatch, lphase, lpos, charged, crashes, dlqVars>>
  BY DEF LogDirect, loggerVars
<1>4. OInv' /\ TypeOK' /\ UNCHANGED offered
  BY <1>1, <1>2, <1>3, RowOrder DEF PInv
<1>5. /\ req' \in [Event -> ReqState] /\ req'[r] = "logged"
      /\ \A e \in Event : e # r => req'[e] = req[e]
      /\ excused' \in [Event -> {"none", "channel", "direct", "overflow", "crash"}]
      /\ \A e \in Event : e # r => excused'[e] = excused[e]
      /\ out = "error" => excused'[r] = "direct"
  BY <1>t DEF LogDirect, Goto, ReqState
<1>6. PipeTypeOK' /\ Distinct'
  BY <1>3, <1>4, <1>5 DEF PInv, PipeTypeOK, Distinct
<1>7. InHand'
  <2>1. \A e \in Event : e # r => (Handed(e) => Handed(e)') /\ (Fresh(e) => Fresh(e)')
    BY <1>2, <1>3, <1>4, <1>5 DEF Handed, Fresh
  <2>2. ASSUME NEW i \in DOMAIN channel PROVE (Handed(channel[i]) /\ Fresh(channel[i]))'
    <3>1. PICK e \in Event : e = channel[i]
      BY <1>t
    <3>2. Handed(e)' /\ Fresh(e)'
      BY <1>1, <2>1, <3>1 DEF PInv, InHand
    <3> QED BY <1>3, <3>1, <3>2 DEF Handed, Fresh
  <2>3. ASSUME NEW i \in DOMAIN lbatch, i >= lpos
        PROVE  /\ Handed(lbatch[i])'
               /\ i > lpos \/ lphase # "charging" => Fresh(lbatch[i])'
    <3>1. PICK e \in Event : e = lbatch[i]
      BY <1>t
    <3>2. Handed(e)' /\ (i > lpos \/ lphase # "charging" => Fresh(e)')
      BY <1>1, <2>1, <2>3, <3>1 DEF PInv, InHand
    <3> QED BY <1>3, <3>1, <3>2 DEF Handed, Fresh
  <2>4. lphase = "charging" => acked'[lbatch[lpos]] = 1 /\ lpos \in DOMAIN lbatch
    <3> SUFFICES ASSUME lphase = "charging" PROVE acked'[lbatch[lpos]] = 1 /\ lpos \in DOMAIN lbatch
      OBVIOUS
    <3>1. lpos \in DOMAIN lbatch /\ acked[lbatch[lpos]] = 1 /\ lpos >= lpos
      BY PipeTypes DEF PInv, InHand
    <3>2. lbatch[lpos] # r /\ lbatch[lpos] \in Event
      BY <1>1, <1>t, <3>1
    <3> QED BY <1>2, <3>1, <3>2
  <2> QED BY <1>3, <2>2, <2>3, <2>4 DEF PInv, InHand
<1>8. Queued'
  BY <1>t, <1>3, <1>4, <1>5 DEF PInv, Queued
<1>9. NotBefore'
  BY <1>2, <1>3, <1>5 DEF PInv, NotBefore, Fresh
<1>10. ChargedAreStored'
  BY <1>t, <1>1, <1>2, <1>3, <1>4 DEF PInv, ChargedAreStored
<1>11. Accounted'
  <2> SUFFICES ASSUME NEW e \in Event, req'[e] = "logged"
               PROVE  \/ Stored(e)' \/ InChannel(e)' \/ InBatch(e)'
                      \/ e \in ToSet(offered') \/ excused'[e] # "none"
    BY DEF Accounted
  <2>1. CASE e = r
    BY <1>2, <1>5, <2>1
  <2>2. CASE e # r
    BY <1>2, <1>3, <1>4, <1>5, <2>2 DEF PInv, Accounted, InChannel, InBatch
  <2> QED BY <2>1, <2>2
<1> QED BY <1>4, <1>6, <1>7, <1>8, <1>9, <1>10, <1>11 DEF PInv

LEMMA HandlerInv == ASSUME PInv, NEW r \in Event, Handler(r) PROVE PInv'
<1>t. req \in [Event -> ReqState] /\ failOpen \in [Event -> BOOLEAN]
  BY PipeTypes
<1>f. failOpen' = failOpen => failOpen' = [failOpen EXCEPT ![r] = failOpen[r]]
  BY <1>t
<1>1. CASE Refuse(r)
  BY <1>t, <1>f, <1>1, ForwardInv DEF Refuse, ReqState
<1>2. ASSUME NEW down \in BOOLEAN, Admit(r, down) PROVE PInv'
  BY <1>2, ForwardInv DEF Admit, ReqState
<1>3. CASE ForwardError(r)
  BY <1>t, <1>f, <1>3, ForwardInv DEF ForwardError, ReqState
<1>4. ASSUME NEW st \in {"answered", "hungup"}, Answer(r, st) PROVE PInv'
  BY <1>t, <1>f, <1>4, ForwardInv DEF Answer, ReqState
<1>5. CASE Log(r)
  BY <1>5, LogInv
<1>6. ASSUME NEW out \in Outcome, LogDirect(r, out) PROVE PInv'
  BY <1>6, LogDirectInv
<1> QED BY <1>1, <1>2, <1>3, <1>4, <1>5, <1>6 DEF Handler

-----------------------------------------------------------------------------
(***************************************************************************)
(* The logger.                                                             *)
(***************************************************************************)
LEMMA ReceiveInv ==
    ASSUME PInv, Receive
    PROVE  PInv'
<1>t. /\ channel \in Seq(Event) /\ lbatch \in Seq(Event) /\ BatchSize \in Nat
      /\ Len(lbatch) \in Nat /\ Len(channel) \in Nat /\ ChanCap \in Nat
      /\ Len(channel) <= ChanCap
  BY PipeTypes, PipelineAssumption
<1>1. /\ OInv' /\ TypeOK'
      /\ UNCHANGED <<req, failOpen, acked, unacked, offered, charged, excused, crashes>>
  BY QueueStill DEF PInv, Receive, handlerVars
<1>2. /\ lphase = "idle" /\ lpos = 1 /\ Len(lbatch) < BatchSize /\ channel # <<>>
      /\ lpos' = 1 /\ channel' = Tail(channel) /\ lbatch' = Append(lbatch, Head(channel))
      /\ lphase' = IF Len(lbatch) + 1 >= BatchSize THEN "writing" ELSE "idle"
  BY DEF Receive, PInv, InHand
<1>3. PICK n \in Nat, m \in Nat : n = Len(channel) /\ m = Len(lbatch)
  BY <1>t
<1>4. /\ channel' \in Seq(Event) /\ n >= 1 /\ Len(channel') = n - 1
      /\ DOMAIN channel = 1 .. n /\ DOMAIN channel' = 1 .. n - 1
      /\ \A i \in DOMAIN channel' : channel'[i] = channel[i + 1] /\ i + 1 \in DOMAIN channel /\ i + 1 # 1
      /\ Head(channel) = channel[1] /\ 1 \in DOMAIN channel
  BY <1>t, <1>2, <1>3
<1>5. PICK h \in Event : h = Head(channel)
  BY <1>t, <1>2
<1>6. /\ lbatch' \in Seq(Event) /\ Len(lbatch') = m + 1
      /\ DOMAIN lbatch = 1 .. m /\ DOMAIN lbatch' = 1 .. m + 1
      /\ lbatch'[m + 1] = h /\ \A i \in DOMAIN lbatch : lbatch'[i] = lbatch[i] /\ i >= 1
      /\ \A i \in DOMAIN lbatch' : i \in DOMAIN lbatch \/ i = m + 1
  BY <1>t, <1>2, <1>3, <1>5
<1>7. PipeTypeOK'
  BY <1>t, <1>1, <1>2, <1>3, <1>4, <1>6 DEF PInv, PipeTypeOK
<1>8. Distinct'
  <2>1. \A i, j \in DOMAIN channel' : channel'[i] = channel'[j] => i = j
    <3> SUFFICES ASSUME NEW i \in DOMAIN channel', NEW j \in DOMAIN channel', channel'[i] = channel'[j]
                 PROVE  i = j
      OBVIOUS
    <3>1. i + 1 = j + 1
      BY <1>4 DEF PInv, Distinct
    <3> QED BY <1>4, <3>1
  <2>2. \A i \in DOMAIN lbatch : lbatch[i] # h
    BY <1>2, <1>4, <1>5, <1>6 DEF PInv, Distinct
  <2>3. \A i, j \in DOMAIN lbatch' : lbatch'[i] = lbatch'[j] => i = j
    BY <1>2, <1>6, <2>2 DEF PInv, Distinct
  <2>4. \A i \in DOMAIN channel', j \in DOMAIN lbatch' : channel'[i] # lbatch'[j]
    <3> SUFFICES ASSUME NEW i \in DOMAIN channel', NEW j \in DOMAIN lbatch'
                 PROVE  channel'[i] # lbatch'[j]
      OBVIOUS
    <3>1. channel'[i] = channel[i + 1] /\ i + 1 \in DOMAIN channel /\ i + 1 # 1
      BY <1>4
    <3>2. channel[i + 1] # h
      BY <1>4, <1>5, <3>1 DEF PInv, Distinct
    <3> QED BY <1>2, <1>6, <3>1, <3>2 DEF PInv, Distinct
  <2> QED BY <2>1, <2>3, <2>4 DEF Distinct
<1>9. InHand'
  <2>1. ASSUME NEW i \in DOMAIN channel' PROVE (Handed(channel[i]) /\ Fresh(channel[i]))'
    <3>1. PICK e \in Event : e = channel'[i]
      BY <1>4
    <3>2. Handed(e) /\ Fresh(e)
      BY <1>4, <3>1 DEF PInv, InHand
    <3> QED BY <1>1, <3>1, <3>2 DEF Handed, Fresh
  <2>2. ASSUME NEW i \in DOMAIN lbatch' PROVE (Handed(lbatch[i]) /\ Fresh(lbatch[i]))'
    <3>1. PICK e \in Event : e = lbatch'[i]
      BY <1>6
    <3>2. Handed(e) /\ Fresh(e)
      BY <1>2, <1>4, <1>5, <1>6, <3>1 DEF PInv, InHand
    <3> QED BY <1>1, <3>1, <3>2 DEF Handed, Fresh
  <2>3. lphase' = "idle" => Len(lbatch') < BatchSize
    BY <1>t, <1>2, <1>3, <1>6
  <2> QED BY <1>2, <2>1, <2>2, <2>3 DEF InHand
<1>10. Queued' /\ NotBefore' /\ ChargedAreStored'
  BY <1>1 DEF PInv, Queued, NotBefore, ChargedAreStored, Fresh
<1>11. Accounted'
  <2> SUFFICES ASSUME NEW e \in Event, InChannel(e) \/ InBatch(e)
               PROVE  InChannel(e)' \/ InBatch(e)'
    BY <1>1 DEF PInv, Accounted, Stored
  <2>1. CASE InBatch(e)
    BY <1>2, <1>6, <2>1 DEF InBatch
  <2>2. CASE InChannel(e)
    <3>1. PICK i \in DOMAIN channel : channel[i] = e
      BY <2>2 DEF InChannel
    <3>2. CASE i = 1
      <4>1. m + 1 \in DOMAIN lbatch' /\ m + 1 >= 1
        BY <1>6
      <4> QED BY <1>2, <1>4, <1>5, <1>6, <3>1, <3>2, <4>1 DEF InBatch
    <3>3. CASE i # 1
      <4>1. i - 1 \in DOMAIN channel' /\ (i - 1) + 1 = i
        BY <1>4, <3>3
      <4>2. channel'[i - 1] = e
        BY <1>4, <3>1, <4>1
      <4> QED BY <4>1, <4>2 DEF InChannel
    <3> QED BY <3>2, <3>3
  <2> QED BY <2>1, <2>2
<1> QED BY <1>1, <1>7, <1>8, <1>9, <1>10, <1>11 DEF PInv

LEMMA TickInv ==
    ASSUME PInv, Tick
    PROVE  PInv'
<1>t. channel \in Seq(Event) /\ lbatch \in Seq(Event) /\ DOMAIN lbatch = 1 .. Len(lbatch) /\ Len(lbatch) \in Nat
  BY PipeTypes
<1>1. /\ OInv' /\ TypeOK'
      /\ UNCHANGED <<req, failOpen, acked, unacked, offered, channel, lbatch, charged, excused, crashes>>
  BY QueueStill DEF PInv, Tick, handlerVars
<1>2. lphase = "idle" /\ lpos = 1 /\ lphase' = "writing" /\ lpos' = 1
  BY DEF Tick, PInv, InHand
<1>3. PipeTypeOK' /\ Distinct'
  BY <1>1, <1>2 DEF PInv, PipeTypeOK, Distinct
<1>4. InHand'
  BY <1>t, <1>1, <1>2 DEF PInv, InHand, Handed, Fresh
<1>5. Queued' /\ NotBefore' /\ ChargedAreStored'
  BY <1>1 DEF PInv, Queued, NotBefore, ChargedAreStored, Fresh
<1>6. Accounted'
  BY <1>1, <1>2 DEF PInv, Accounted, Stored, InChannel, InBatch
<1> QED BY <1>1, <1>3, <1>4, <1>5, <1>6 DEF PInv

\* The event that is being flushed.
LEMMA Flushed ==
    ASSUME PInv, lpos \in DOMAIN lbatch, NEW e, e = lbatch[lpos]
    PROVE  /\ e \in Event /\ Handed(e)
           /\ lphase # "charging" => Fresh(e)
           /\ lphase = "charging" => acked[e] = 1
           /\ \A i \in DOMAIN channel : channel[i] # e
           /\ \A i \in DOMAIN lbatch : i > lpos => lbatch[i] # e
<1>1. lpos \in Nat /\ lbatch \in Seq(Event) /\ lpos >= lpos
  BY PipeTypes
<1>2. DOMAIN lbatch \subseteq Nat
  BY PipeTypes
<1>3. \A i \in DOMAIN lbatch : i > lpos => lbatch[i] # e
  <2> SUFFICES ASSUME NEW i \in DOMAIN lbatch, i > lpos, lbatch[i] = lbatch[lpos] PROVE FALSE
    OBVIOUS
  <2>1. i >= lpos /\ i # lpos
    BY <1>1, <1>2
  <2> QED BY <1>1, <2>1 DEF PInv, Distinct
<1>4. \A i \in DOMAIN channel : channel[i] # e
  BY <1>1 DEF PInv, Distinct
<1> QED BY <1>1, <1>3, <1>4 DEF PInv, InHand

\* A step past the event that is being flushed: what is left in hand.
LEMMA StepPast ==
    ASSUME PInv, lpos \in DOMAIN lbatch, NEW e, e = lbatch[lpos], e \in Event,
           UNCHANGED <<channel, lbatch, acked, unacked>>,
           \A f \in Event : f # e /\ Handed(f) => Handed(f)',
           lpos' = lpos + 1, lphase' = "writing"
    PROVE  /\ Distinct' /\ InHand'
           /\ lpos' \in 1 .. Len(lbatch') + 1
           /\ \A f \in Event : f # e /\ InBatch(f) => InBatch(f)'
<1>t. /\ channel \in Seq(Event) /\ lbatch \in Seq(Event) /\ lpos \in Nat
      /\ DOMAIN lbatch = 1 .. Len(lbatch) /\ Len(lbatch) \in Nat
  BY PipeTypes
<1>1. /\ \A i \in DOMAIN channel : channel[i] # e
      /\ \A i \in DOMAIN lbatch : i > lpos => lbatch[i] # e
  BY Flushed
<1>2. \A i \in DOMAIN lbatch : i >= lpos' => i > lpos /\ i >= lpos
  BY <1>t
<1>3. Distinct'
  BY <1>2 DEF PInv, Distinct
<1>4. \A f \in Event : Fresh(f) => Fresh(f)'
  BY DEF Fresh
<1>5. ASSUME NEW i \in DOMAIN channel PROVE (Handed(channel[i]) /\ Fresh(channel[i]))'
  <2>1. PICK f \in Event : f = channel[i]
    BY <1>t
  <2>2. Handed(f)' /\ Fresh(f)'
    BY <1>1, <1>4, <2>1 DEF PInv, InHand
  <2> QED BY <2>1, <2>2 DEF Handed, Fresh
<1>6. ASSUME NEW i \in DOMAIN lbatch, i >= lpos' PROVE (Handed(lbatch[i]) /\ Fresh(lbatch[i]))'
  <2>1. PICK f \in Event : f = lbatch[i]
    BY <1>t
  <2>2. Handed(f)' /\ Fresh(f)'
    BY <1>1, <1>2, <1>4, <1>6, <2>1 DEF PInv, InHand
  <2> QED BY <2>1, <2>2 DEF Handed, Fresh
<1>7. InHand'
  BY <1>5, <1>6 DEF InHand
<1>8. ASSUME NEW f \in Event, f # e, InBatch(f) PROVE InBatch(f)'
  <2>1. PICK i \in DOMAIN lbatch : i >= lpos /\ lbatch[i] = f
    BY <1>8 DEF InBatch
  <2>2. i >= lpos + 1
    BY <1>t, <1>8, <2>1
  <2> QED BY <2>1, <2>2 DEF InBatch
<1>9. lpos' \in 1 .. Len(lbatch') + 1
  BY <1>t
<1> QED BY <1>3, <1>7, <1>8, <1>9

LEMMA FlushWriteInv ==
    ASSUME PInv, NEW out \in Outcome, FlushWrite(out)
    PROVE  PInv'
<1>t. /\ channel \in Seq(Event) /\ lbatch \in Seq(Event) /\ lpos \in Nat /\ lpos >= 1
      /\ DOMAIN lbatch = 1 .. Len(lbatch) /\ Len(lbatch) \in Nat
      /\ acked \in [Event -> Nat] /\ TableTypeOK /\ charged \subseteq Event
      /\ offered \in Seq(Event)
  BY PipeTypes
<1>0. /\ lphase = "writing" /\ lpos <= Len(lbatch) /\ lphase' \in {"charging", "enqueueing"}
      /\ lphase' = "charging" => out = "ok"
  BY DEF FlushWrite
<1>1. UNCHANGED <<req, failOpen, channel, lbatch, lpos, charged, excused, crashes, dlqVars>>
  BY DEF FlushWrite, handlerVars
<1>2. lpos \in DOMAIN lbatch
  BY <1>t, <1>0
<1>3. PICK e \in Event : e = lbatch[lpos]
  BY <1>t, <1>2
<1>4. /\ Handed(e) /\ Fresh(e)
      /\ \A i \in DOMAIN channel : channel[i] # e
      /\ \A i \in DOMAIN lbatch : i > lpos => lbatch[i] # e
  BY <1>0, <1>2, <1>3, Flushed
<1>5. CommitRow(e, out)
  BY <1>3 DEF FlushWrite, WriteUsageEvent
<1>6. /\ TableTypeOK'
      /\ \A f \in Event : f # e => acked'[f] = acked[f] /\ unacked'[f] = unacked[f]
      /\ acked'[e] = IF out = "ok" THEN acked[e] + 1 ELSE acked[e]
      /\ \A f \in Event : Stored(f) => Stored(f)'
  BY <1>t, <1>5, Committed
<1>7. acked'[e] = IF out = "ok" THEN 1 ELSE 0
  BY <1>4, <1>6 DEF Fresh
<1>8. OInv' /\ TypeOK' /\ UNCHANGED offered
  <2>1. acked'[e] <= 1
    BY <1>7
  <2>2. e \notin ToSet(offered)
    BY <1>4 DEF Handed
  <2> QED BY <1>1, <1>6, <2>1, <2>2, RowOrder DEF PInv
<1>9. PipeTypeOK' /\ Distinct'
  BY <1>0, <1>1, <1>8 DEF PInv, PipeTypeOK, Distinct
<1>10. InHand'
  <2>1. \A f \in Event : (Handed(f) => Handed(f)') /\ (f # e /\ Fresh(f) => Fresh(f)')
    BY <1>1, <1>6, <1>8 DEF Handed, Fresh
  <2>2. ASSUME NEW i \in DOMAIN channel PROVE (Handed(channel[i]) /\ Fresh(channel[i]))'
    <3>1. PICK f \in Event : f = channel[i]
      BY <1>t
    <3>2. Handed(f)' /\ Fresh(f)'
      BY <1>4, <2>1, <3>1 DEF PInv, InHand
    <3> QED BY <1>1, <3>1, <3>2 DEF Handed, Fresh
  <2>3. ASSUME NEW i \in DOMAIN lbatch, i >= lpos
        PROVE  /\ Handed(lbatch[i])'
               /\ i > lpos \/ lphase' # "charging" => Fresh(lbatch[i])'
    <3>1. PICK f \in Event : f = lbatch[i]
      BY <1>t
    <3>2. Handed(f)' /\ Fresh(f)
      BY <1>0, <2>1, <2>3, <3>1 DEF PInv, InHand
    <3>3. i > lpos => f # e
      BY <1>4, <3>1
    <3>4. lphase' # "charging" => Fresh(e)'
      <4> SUFFICES ASSUME lphase' # "charging" PROVE acked'[e] = 0
        BY DEF Fresh
      <4>1. out # "ok"
        BY DEF FlushWrite
      <4> QED BY <1>7, <4>1
    <3>5. i > lpos \/ lphase' # "charging" => Fresh(f)'
      BY <2>1, <3>2, <3>3, <3>4
    <3> QED BY <1>1, <3>1, <3>2, <3>5 DEF Handed, Fresh
  <2>4. lphase' = "charging" => acked'[lbatch[lpos]] = 1
    BY <1>0, <1>3, <1>7
  <2> QED BY <1>0, <1>1, <1>2, <2>2, <2>3, <2>4 DEF InHand
<1>11. Queued'
  BY <1>1, <1>8 DEF PInv, Queued
<1>12. NotBefore' /\ ChargedAreStored'
  <2>1. req[e] = "logged" /\ e \notin charged
    BY <1>4 DEF Handed
  <2>2. \A f \in charged : f \in Event /\ f # e
    BY <1>t, <2>1
  <2> QED BY <1>1, <1>6, <1>8, <2>1, <2>2 DEF PInv, NotBefore, ChargedAreStored, Fresh
<1>13. Accounted'
  BY <1>1, <1>6, <1>8 DEF PInv, Accounted, InChannel, InBatch
<1> QED BY <1>8, <1>9, <1>10, <1>11, <1>12, <1>13 DEF PInv

LEMMA FlushEnqueueInv ==
    ASSUME PInv, FlushEnqueue
    PROVE  PInv'
<1>t. /\ channel \in Seq(Event) /\ lbatch \in Seq(Event)
      /\ TableTypeOK /\ offered \in Seq(Event) /\ charged \subseteq Event
  BY PipeTypes
<1>0. /\ lphase = "enqueueing" /\ lphase' = "writing" /\ lpos' = lpos + 1
      /\ lpos \in DOMAIN lbatch
  BY DEF FlushEnqueue, PInv, InHand
<1>1. UNCHANGED <<req, failOpen, channel, lbatch, charged, excused, crashes, acked, unacked, dbUp>>
  BY DEF FlushEnqueue, handlerVars, tableVars
<1>2. PICK e \in Event : e = lbatch[lpos]
  BY <1>t, <1>0
<1>3. Enqueue(e) /\ Handed(e) /\ Fresh(e)
  BY <1>0, <1>2, Flushed DEF FlushEnqueue
<1>4. OInv' /\ TypeOK'
  <2>1. IInv'
    BY <1>1, <1>t, <1>3, EnqueueInv DEF PInv, OInv, TableTypeOK
  <2>2. e \notin ToSet(offered)
    BY <1>3 DEF Handed
  <2> QED BY <1>1, <1>3, <2>1, <2>2, EnqueueOrder DEF PInv, OInv, IInv
<1>5. /\ offered' = Append(offered, e)
      /\ \A k \in DOMAIN offered' : offered'[k] = e \/ \E l \in DOMAIN offered : offered'[k] = offered[l]
      /\ \A f : f \in ToSet(offered') <=> f = e \/ f \in ToSet(offered)
  <2>1. offered' = Append(offered, e)
    BY <1>3 DEF Enqueue
  <2>2. /\ DOMAIN offered' = 1 .. Len(offered) + 1 /\ DOMAIN offered = 1 .. Len(offered)
        /\ Len(offered) \in Nat
        /\ offered'[Len(offered) + 1] = e
        /\ \A k \in DOMAIN offered : k \in DOMAIN offered' /\ offered'[k] = offered[k]
    BY <1>t, <2>1, OfferedGrows
  <2>3. \A k \in DOMAIN offered' : k = Len(offered) + 1 \/ k \in DOMAIN offered
    BY <2>2
  <2>4. Len(offered) + 1 \in DOMAIN offered'
    BY <2>2
  <2> QED BY <2>1, <2>2, <2>3, <2>4 DEF ToSet
<1>6. \A f \in Event : f # e /\ Handed(f) => Handed(f)'
  BY <1>1, <1>5 DEF Handed
<1>7. /\ Distinct' /\ InHand' /\ lpos' \in 1 .. Len(lbatch') + 1
      /\ \A f \in Event : f # e /\ InBatch(f) => InBatch(f)'
  BY <1>0, <1>1, <1>2, <1>6, StepPast
<1>8. PipeTypeOK'
  BY <1>0, <1>1, <1>4, <1>7 DEF PInv, PipeTypeOK
<1>9. Queued'
  BY <1>1, <1>3, <1>5 DEF PInv, Queued, Handed
<1>10. NotBefore'
  BY <1>1 DEF PInv, NotBefore, Fresh
<1>11. ChargedAreStored'
  BY <1>1, <1>3, <1>5 DEF PInv, ChargedAreStored, Handed
<1>12. Accounted'
  BY <1>1, <1>5, <1>7 DEF PInv, Accounted, Stored, InChannel
<1> QED BY <1>4, <1>7, <1>8, <1>9, <1>10, <1>11, <1>12 DEF PInv

LEMMA FlushChargeInv ==
    ASSUME PInv, NEW done \in BOOLEAN, FlushCharge(done)
    PROVE  PInv'
<1>t. /\ channel \in Seq(Event) /\ lbatch \in Seq(Event) /\ charged \subseteq Event
      /\ acked \in [Event -> Nat] /\ unacked \in [Event -> Nat] /\ offered \in Seq(Event)
  BY PipeTypes
<1>0. /\ lphase = "charging" /\ lphase' = "writing" /\ lpos' = lpos + 1
      /\ lpos \in DOMAIN lbatch
  BY DEF FlushCharge, PInv, InHand
<1>1. /\ OInv' /\ TypeOK'
      /\ UNCHANGED <<req, failOpen, acked, unacked, offered, channel, lbatch, excused, crashes>>
  BY QueueStill DEF PInv, FlushCharge, handlerVars
<1>2. PICK e \in Event : e = lbatch[lpos]
  BY <1>t, <1>0
<1>3. Handed(e) /\ acked[e] = 1 /\ charged' \in {charged, charged \cup {e}}
  BY <1>0, <1>2, Flushed DEF FlushCharge
<1>4. \A f \in Event : f # e /\ Handed(f) => Handed(f)'
  BY <1>1, <1>3 DEF Handed
<1>5. /\ Distinct' /\ InHand' /\ lpos' \in 1 .. Len(lbatch') + 1
      /\ \A f \in Event : f # e /\ InBatch(f) => InBatch(f)'
  BY <1>0, <1>1, <1>2, <1>4, StepPast
<1>6. PipeTypeOK'
  BY <1>t, <1>0, <1>1, <1>3, <1>5 DEF PInv, PipeTypeOK
<1>7. Queued'
  <2>1. \A k \in DOMAIN offered : offered[k] # e
    BY <1>3 DEF Handed, ToSet
  <2> QED BY <1>1, <1>3, <2>1 DEF PInv, Queued
<1>8. NotBefore' /\ ChargedAreStored'
  BY <1>1, <1>3 DEF PInv, NotBefore, ChargedAreStored, Handed, Fresh
<1>9. Stored(e)
  BY <1>t, <1>3 DEF Stored
<1>10. Accounted'
  BY <1>1, <1>5, <1>9 DEF PInv, Accounted, Stored, InChannel
<1> QED BY <1>1, <1>5, <1>6, <1>7, <1>8, <1>10 DEF PInv

LEMMA FlushEndInv ==
    ASSUME PInv, FlushEnd
    PROVE  PInv'
<1>t. /\ channel \in Seq(Event) /\ lbatch \in Seq(Event) /\ lpos \in Nat
      /\ DOMAIN lbatch = 1 .. Len(lbatch) /\ Len(lbatch) \in Nat /\ BatchSize \in Nat \ {0}
  BY PipeTypes, PipelineAssumption
<1>0. lpos > Len(lbatch) /\ lphase' = "idle" /\ lbatch' = <<>> /\ lpos' = 1
  BY DEF FlushEnd
<1>1. /\ OInv' /\ TypeOK'
      /\ UNCHANGED <<req, failOpen, acked, unacked, offered, channel, charged, excused, crashes>>
  BY QueueStill DEF PInv, FlushEnd, handlerVars
<1>2. lbatch' \in Seq(Event) /\ DOMAIN lbatch' = {} /\ Len(lbatch') = 0
  BY <1>0
<1>3. PipeTypeOK' /\ Distinct'
  BY <1>t, <1>0, <1>1, <1>2 DEF PInv, PipeTypeOK, Distinct
<1>4. InHand'
  BY <1>t, <1>0, <1>1, <1>2 DEF PInv, InHand, Handed, Fresh
<1>5. Queued' /\ NotBefore' /\ ChargedAreStored'
  BY <1>1 DEF PInv, Queued, NotBefore, ChargedAreStored, Fresh
<1>6. \A e : ~InBatch(e)
  BY <1>t, <1>0 DEF InBatch
<1>7. Accounted'
  BY <1>1, <1>6 DEF PInv, Accounted, Stored, InChannel
<1> QED BY <1>1, <1>3, <1>4, <1>5, <1>7 DEF PInv

-----------------------------------------------------------------------------
(***************************************************************************)
(* The retry loop, restarts and outages.                                   *)
(***************************************************************************)
LEMMA RetryInv ==
    ASSUME PInv, Retry
    PROVE  PInv'
<1>t. /\ channel \in Seq(Event) /\ lbatch \in Seq(Event) /\ charged \subseteq Event
      /\ offered \in Seq(Event) /\ TableTypeOK
      /\ batch \in Seq(Event) /\ DOMAIN batch = 1 .. Len(batch) /\ Len(batch) \in Nat
      /\ pos \in Nat /\ pos >= 1
  BY PipeTypes, Types DEF PInv, OInv
<1>1. /\ OInv' /\ UNCHANGED offered
      /\ \A e \in Event : e \notin ToSet(offered) => acked'[e] = acked[e]
  <2>1. UNCHANGED offered
    BY DEF Retry, RetryStep, RetryEmpty, RetrySnapshot, RetryWrite, RetryMerge, historyVars
  <2> QED BY <2>1, RetryOrder, RetryRows DEF PInv, Retry
<1>2. UNCHANGED <<req, failOpen, channel, lbatch, lphase, lpos, charged, excused, crashes>>
  BY DEF Retry, pipeVars, handlerVars, loggerVars
<1>3. \A e \in Event : Stored(e) => Stored(e)'
  <2>1. CASE UNCHANGED tableVars
    BY <2>1 DEF Stored, tableVars
  <2>2. ASSUME NEW out \in Outcome, RetryWrite(out) PROVE \A e \in Event : Stored(e) => Stored(e)'
    <3>1. pos \in DOMAIN batch /\ WriteUsageEvent(batch[pos], out)
      BY <1>t, <2>2 DEF RetryWrite
    <3>2. PICK f \in Event : f = batch[pos]
      BY <1>t, <3>1
    <3> QED BY <1>t, <3>1, <3>2, StoredStays
  <2> QED BY <2>1, <2>2 DEF Retry, RetryStep
<1>4. PipeTypeOK' /\ Distinct'
  BY <1>1, <1>2 DEF PInv, PipeTypeOK, Distinct, OInv, IInv
<1>5. InHand'
  <2>1. \A e \in Event : Handed(e) => Handed(e)' /\ acked'[e] = acked[e]
    BY <1>1, <1>2 DEF Handed
  <2>2. ASSUME NEW i \in DOMAIN channel PROVE (Handed(channel[i]) /\ Fresh(channel[i]))'
    <3>1. PICK e \in Event : e = channel[i]
      BY <1>t
    <3>2. Handed(e)' /\ Fresh(e)'
      BY <2>1, <3>1 DEF PInv, InHand, Fresh
    <3> QED BY <1>2, <3>1, <3>2 DEF Handed, Fresh
  <2>3. ASSUME NEW i \in DOMAIN lbatch, i >= lpos
        PROVE  /\ Handed(lbatch[i])'
               /\ i > lpos \/ lphase # "charging" => Fresh(lbatch[i])'
    <3>1. PICK e \in Event : e = lbatch[i]
      BY <1>t
    <3>2. Handed(e)' /\ (i > lpos \/ lphase # "charging" => Fresh(e)')
      BY <2>1, <2>3, <3>1 DEF PInv, InHand, Fresh
    <3> QED BY <1>2, <3>1, <3>2 DEF Handed, Fresh
  <2>4. lphase = "charging" => lpos \in DOMAIN lbatch /\ acked'[lbatch[lpos]] = 1
    <3> SUFFICES ASSUME lphase = "charging" PROVE lpos \in DOMAIN lbatch /\ acked'[lbatch[lpos]] = 1
      OBVIOUS
    <3>1. lpos \in DOMAIN lbatch /\ acked[lbatch[lpos]] = 1
      BY DEF PInv, InHand
    <3>2. lbatch[lpos] \in Event /\ Handed(lbatch[lpos])
      BY <3>1, Flushed
    <3> QED BY <2>1, <3>1, <3>2
  <2> QED BY <1>2, <2>2, <2>3, <2>4 DEF PInv, InHand
<1>6. Queued'
  BY <1>1, <1>2 DEF PInv, Queued
<1>7. NotBefore'
  <2>1. \A e \in Event : req[e] # "logged" => e \notin ToSet(offered)
    BY DEF PInv, Queued, ToSet
  <2> QED BY <1>1, <1>2, <2>1 DEF PInv, NotBefore, Fresh
<1>8. ChargedAreStored'
  BY <1>t, <1>1, <1>2 DEF PInv, ChargedAreStored
<1>9. Accounted'
  BY <1>1, <1>2, <1>3 DEF PInv, Accounted, InChannel, InBatch
<1> QED BY <1>1, <1>4, <1>5, <1>6, <1>7, <1>8, <1>9 DEF PInv

\* Every event of the logger and the queue that is in hand is in flight, and an
\* offered one is stored, held or lost.
LEMMA WhereItIs ==
    ASSUME PInv, NEW e \in Event, req[e] = "logged"
    PROVE  Stored(e) \/ e \in InFlight \/ excused[e] # "none" \/ e \in Lost
<1>t. acked \in [Event -> Nat] /\ unacked \in [Event -> Nat]
  BY PipeTypes
<1>1. CASE InChannel(e)
  BY <1>1 DEF InChannel, InFlight, InLogger, ToSet
<1>2. CASE InBatch(e)
  <2>1. PICK i \in DOMAIN lbatch : i >= lpos /\ lbatch[i] = e
    BY <1>2 DEF InBatch
  <2>2. CASE i = lpos /\ lphase = "charging"
    <3>1. acked[e] = 1
      BY <2>1, <2>2 DEF PInv, InHand
    <3> QED BY <1>t, <3>1 DEF Stored
  <2>3. CASE ~(i = lpos /\ lphase = "charging")
    BY <2>1, <2>3 DEF InFlight, InLogger
  <2> QED BY <2>2, <2>3
<1>3. CASE e \in ToSet(offered)
  BY <1>3 DEF Lost, InFlight
<1> QED BY <1>1, <1>2, <1>3 DEF PInv, Accounted

LEMMA CrashInv ==
    ASSUME PInv, Crash
    PROVE  PInv'
<1>t. /\ req \in [Event -> ReqState] /\ failOpen \in [Event -> BOOLEAN] /\ charged \subseteq Event
      /\ acked \in [Event -> Nat] /\ unacked \in [Event -> Nat] /\ TableTypeOK
      /\ excused \in [Event -> {"none", "channel", "direct", "overflow", "crash"}]
      /\ crashes \in 0 .. MaxCrashes /\ MaxCrashes \in Nat
      /\ ChanCap \in Nat /\ BatchSize \in Nat \ {0}
  BY PipeTypes, PipelineAssumption
<1>1. UNCHANGED <<failOpen, charged, acked, unacked, dbUp>>
  BY DEF Crash, tableVars
<1>2. /\ channel' = <<>> /\ lbatch' = <<>> /\ lphase' = "idle" /\ lpos' = 1
      /\ queue' = <<>> /\ phase' = "asleep" /\ batch' = <<>> /\ pos' = 1 /\ failed' = <<>>
      /\ attempt' = 0 /\ offered' = <<>> /\ snapAt' = 0 /\ drops' = 0 /\ snapDrops' = 0
  BY DEF Crash, NewDLQ
<1>3. /\ req' \in [Event -> ReqState]
      /\ \A e \in Event : req'[e] = "logged" <=> req[e] = "logged"
  BY <1>t DEF Crash, ReqState
<1>4. /\ excused' \in [Event -> {"none", "channel", "direct", "overflow", "crash"}]
      /\ \A e \in Event : e \in InFlight \/ e \in Lost \/ excused[e] # "none" => excused'[e] # "none"
  BY <1>t DEF Crash
<1>5. crashes' \in 0 .. MaxCrashes
  BY <1>t DEF Crash
<1>6. TypeOK'
  BY <1>t, <1>1, <1>2 DEF TypeOK, DLQTypeOK, TableTypeOK, MaxAttempt
<1>7. IInv'
  BY <1>2, <1>6, DLQCapAssumption DEF IInv, CapHolds, Shape
<1>8. OInv'
  <2>1. \A e \in Event : acked'[e] <= 1
    BY <1>1 DEF PInv, OInv, Unwritten
  <2> QED BY <1>2, <1>7, <2>1 DEF OInv, Order, Once, Asleep, QueueOffered, Retried, Ordered,
             Unwritten, BackoffOnlyWithWork
<1>9. PipeTypeOK'
  BY <1>t, <1>1, <1>2, <1>3, <1>4, <1>5, <1>6 DEF PipeTypeOK
<1>10. Distinct' /\ InHand' /\ Queued'
  BY <1>t, <1>2 DEF Distinct, InHand, Queued
<1>11. NotBefore'
  BY <1>1, <1>3 DEF PInv, NotBefore, Fresh
<1>12. ChargedAreStored'
  BY <1>1, <1>2 DEF PInv, ChargedAreStored, ToSet
<1>13. Accounted'
  BY <1>1, <1>3, <1>4, WhereItIs DEF Accounted, Stored
<1> QED BY <1>8, <1>9, <1>10, <1>11, <1>12, <1>13 DEF PInv

\* Nothing but Postgres changes.
LEMMA OutageOrStutter ==
    ASSUME PInv, Outage \/ UNCHANGED allVars
    PROVE  PInv'
<1>1. UNCHANGED <<req, failOpen, channel, lbatch, lphase, lpos, charged, excused, crashes,
                  acked, unacked, dlqVars>>
  BY DEF Outage, DBFails, DBRecovers, allVars, pipeVars, handlerVars, loggerVars, tableVars
<1>2. UNCHANGED offered
  BY <1>1 DEF dlqVars, historyVars
<1>3. IInv'
  BY NextInv DEF PInv, OInv, Next, Environment, Outage, vars, allVars
<1>4. OInv'
  BY <1>1, <1>3, StillOrder DEF PInv, OInv
<1>5. PipeTypeOK' /\ Distinct'
  BY <1>1, <1>3 DEF PInv, PipeTypeOK, Distinct, IInv
<1>6. InHand'
  BY <1>1, <1>2 DEF PInv, InHand, Handed, Fresh
<1>7. Queued' /\ NotBefore' /\ ChargedAreStored'
  BY <1>1, <1>2 DEF PInv, Queued, NotBefore, ChargedAreStored, Fresh
<1>8. Accounted'
  BY <1>1, <1>2 DEF PInv, Accounted, Stored, InChannel, InBatch
<1> QED BY <1>4, <1>5, <1>6, <1>7, <1>8 DEF PInv

-----------------------------------------------------------------------------
LEMMA PipeInitInv == PipeInit => PInv
<1> SUFFICES ASSUME PipeInit PROVE PInv
  OBVIOUS
<1>1. OInv
  BY OInitInv DEF PipeInit
<1>2. /\ channel = <<>> /\ lbatch = <<>> /\ lphase = "idle" /\ lpos = 1 /\ charged = {}
      /\ crashes = 0 /\ offered = <<>> /\ acked = [e \in Event |-> 0]
      /\ req = [e \in Event |-> "new"] /\ failOpen = [e \in Event |-> FALSE]
      /\ excused = [e \in Event |-> "none"]
  BY DEF PipeInit, Init, DLQInit, TableInit
<1>3. PipeTypeOK
  BY <1>1, <1>2, PipelineAssumption DEF PipeTypeOK, OInv, IInv, ReqState
<1>4. Distinct /\ InHand /\ Queued
  BY <1>2, PipelineAssumption DEF Distinct, InHand, Queued
<1>5. NotBefore /\ ChargedAreStored /\ Accounted
  BY <1>2 DEF NotBefore, ChargedAreStored, Accounted, Fresh
<1> QED BY <1>1, <1>3, <1>4, <1>5 DEF PInv

LEMMA PipeNextInv == PInv /\ [PipeNext]_allVars => PInv'
<1> SUFFICES ASSUME PInv, [PipeNext]_allVars PROVE PInv'
  OBVIOUS
<1>1. ASSUME NEW r \in Event, Handler(r) PROVE PInv'
  BY <1>1, HandlerInv
<1>2. CASE Logger
  <2>1. CASE Receive
    BY <2>1, ReceiveInv
  <2>2. CASE Tick
    BY <2>2, TickInv
  <2>3. ASSUME NEW out \in Outcome, FlushWrite(out) PROVE PInv'
    BY <2>3, FlushWriteInv
  <2>4. CASE FlushEnqueue
    BY <2>4, FlushEnqueueInv
  <2>5. ASSUME NEW done \in BOOLEAN, FlushCharge(done) PROVE PInv'
    BY <2>5, FlushChargeInv
  <2>6. CASE FlushEnd
    BY <2>6, FlushEndInv
  <2> QED BY <1>2, <2>1, <2>2, <2>3, <2>4, <2>5, <2>6 DEF Logger
<1>3. CASE Retry
  BY <1>3, RetryInv
<1>4. CASE Crash
  BY <1>4, CrashInv
<1>5. CASE Outage \/ UNCHANGED allVars
  BY <1>5, OutageOrStutter
<1> QED BY <1>1, <1>2, <1>3, <1>4, <1>5 DEF PipeNext

LEMMA PipeInvariance == PipeSpec => []PInv
BY PipeInitInv, PipeNextInv, PTL DEF PipeSpec

\* The buffers keep their types and bounds, the channel and the batch included
\* (proxy/logger.go:13-14, 22-62).
THEOREM PipelineTypes == PipeSpec => []PipeTypeOK
<1>1. PInv => PipeTypeOK
  BY DEF PInv
<1> QED BY <1>1, PipeInvariance, PTL

\* An acknowledged INSERT is never repeated, neither by the logger nor by the
\* retry loop nor by a handler, across restarts (proxy/logger.go:64-92,
\* proxy/dlq.go:50-86): an event is in one place at a time, and leaves it with
\* its row.
THEOREM PipelineAckedOnce == PipeSpec => []AckedOnce
<1>1. PInv => AckedOnce
  BY DEF PInv, OInv, Unwritten, AckedOnce
<1> QED BY <1>1, PipeInvariance, PTL

\* No increment is made for an event without an acknowledged INSERT of the logger,
\* and none for an event of the retry loop or of a fail-open handler
\* (proxy/logger.go:71-83).
THEOREM ChargedOnlyStored == PipeSpec => []ChargedAreStored
<1>1. PInv => ChargedAreStored
  BY DEF PInv
<1> QED BY <1>1, PipeInvariance, PTL

\* No logged event slips through: it is in a row, in a buffer, dropped by the
\* queue or lost in an announced way (proxy/handler.go:119-126,
\* proxy/logger.go:47-92, proxy/dlq.go:28-74).
THEOREM NothingSlips == PipeSpec => []EventsAccounted
<1>1. PInv => EventsAccounted
  BY WhereItIs DEF EventsAccounted
<1> QED BY <1>1, PipeInvariance, PTL
=============================================================================
