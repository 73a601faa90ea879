--------------------------- MODULE UsagePipeline ----------------------------
(***************************************************************************)
(* A usage event on its way from the request handler to Postgres:          *)
(* Handler.ServeHTTP (proxy/handler.go), the batching Logger               *)
(* (proxy/logger.go) and the dead letter queue (module DLQ), with Redis    *)
(* and Postgres outages, clients that hang up, and restarts of the proxy,  *)
(* which has no shutdown hook and keeps all its buffers in memory.         *)
(*                                                                         *)
(* Every handler runs in a goroutine of its own; the logger and the retry  *)
(* loop are one goroutine each.  A request answered by the provider gives  *)
(* exactly one event, so both are members of Event.                        *)
(***************************************************************************)
EXTENDS DLQ

CONSTANTS
    ChanCap,     \* capacity of the logger's channel
    BatchSize,   \* batch length that triggers a flush
    MaxCrashes   \* bound: restarts of the proxy

ASSUME PipelineAssumption ==
    /\ ChanCap \in Nat \ {0}
    /\ BatchSize \in Nat \ {0}
    /\ MaxCrashes \in Nat

VARIABLES
    req,       \* [Event -> ReqState]: where the request's handler is
    failOpen,  \* [Event -> BOOLEAN]: redisDown as the handler saw it
    channel,   \* l.ch
    lbatch,    \* batch of Logger.run
    lphase,    \* what Logger.run is doing
    lpos,      \* index in lbatch of the event being flushed
    charged,   \* events for which the Redis spend counters were incremented
    excused,   \* history: [Event -> the announced way an event was lost]
    crashes    \* history: restarts so far

handlerVars == <<req, failOpen>>
loggerVars == <<lbatch, lphase, lpos>>
pipeVars == <<handlerVars, channel, loggerVars, charged, excused, crashes>>
allVars == <<pipeVars, dlqVars, tableVars>>

ReqState == {"new", "refused", "forwarding", "unlogged", "answered", "hungup",
             "logged", "cut"}

PipeTypeOK ==
    /\ TypeOK
    /\ req \in [Event -> ReqState]
    /\ failOpen \in [Event -> BOOLEAN]
    /\ channel \in Seq(Event) /\ Len(channel) <= ChanCap
    /\ lbatch \in Seq(Event) /\ Len(lbatch) <= BatchSize
    /\ lphase \in {"idle", "writing", "charging", "enqueueing"}
    /\ lpos \in 1 .. Len(lbatch) + 1
    /\ charged \subseteq Event
    /\ excused \in [Event -> {"none", "channel", "direct", "overflow", "crash"}]
    /\ crashes \in 0 .. MaxCrashes

PipeInit ==
    /\ Init
    /\ req = [e \in Event |-> "new"]
    /\ failOpen = [e \in Event |-> FALSE]
    /\ channel = <<>>
    /\ lbatch = <<>>
    /\ lphase = "idle"
    /\ lpos = 1
    /\ charged = {}
    /\ excused = [e \in Event |-> "none"]
    /\ crashes = 0

-----------------------------------------------------------------------------
(***************************************************************************)
(* The handler.  Authentication, the budget check's verdict and the body   *)
(* are not told apart here: each early return before Forward is Refuse.    *)
(***************************************************************************)
Goto(r, st) == req' = [req EXCEPT ![r] = st]

Refuse(r) ==
    /\ req[r] = "new"
    /\ Goto(r, "refused")
    /\ UNCHANGED <<failOpen, channel, loggerVars, charged, excused, crashes, dlqVars, tableVars>>

\* CheckBudgets did not block; down is whether its Ping failed.
Admit(r, down) ==
    /\ req[r] = "new"
    /\ Goto(r, "forwarding")
    /\ failOpen' = [failOpen EXCEPT ![r] = down]
    /\ UNCHANGED <<channel, loggerVars, charged, excused, crashes, dlqVars, tableVars>>

\* Forward returned an error: the handler returns without an event.
ForwardError(r) ==
    /\ req[r] = "forwarding"
    /\ Goto(r, "unlogged")
    /\ UNCHANGED <<failOpen, channel, loggerVars, charged, excused, crashes, dlqVars, tableVars>>

\* Forward returned a result; a client that hung up has cancelled r.Context().
Answer(r, st) ==
    /\ req[r] = "forwarding"
    /\ st \in {"answered", "hungup"}
    /\ Goto(r, st)
    /\ UNCHANGED <<failOpen, channel, loggerVars, charged, excused, crashes, dlqVars, tableVars>>

\* Logger.Log: a full channel loses the event, with a warning.
Log(r) ==
    /\ req[r] \in {"answered", "hungup"}
    /\ ~failOpen[r]
    /\ Goto(r, "logged")
    /\ IF Len(channel) < ChanCap
       THEN channel' = Append(channel, r) /\ UNCHANGED excused
       ELSE excused' = [excused EXCEPT ![r] = "channel"] /\ UNCHANGED channel
    /\ UNCHANGED <<failOpen, loggerVars, charged, crashes, dlqVars, tableVars>>

\* Logger.LogDirect under the request's context: a failure is only logged.
LogDirect(r, out) ==
    /\ failOpen[r]
    /\ \/ req[r] = "answered" /\ WriteUsageEvent(r, out)
       \/ req[r] = "hungup" /\ WriteCancelled(r, out)
    /\ Goto(r, "logged")
    /\ excused' = [excused EXCEPT ![r] = IF out = "error" THEN "direct" ELSE @]
    /\ UNCHANGED <<failOpen, channel, loggerVars, charged, crashes, dlqVars>>

Handler(r) ==
    \/ Refuse(r)
    \/ \E down \in BOOLEAN : Admit(r, down)
    \/ ForwardError(r)
    \/ \E st \in {"answered", "hungup"} : Answer(r, st)
    \/ Log(r)
    \/ \E out \in Outcome : LogDirect(r, out)

-----------------------------------------------------------------------------
(***************************************************************************)
(* Deviations of the logger's definitions, used by PROJECT.json only.      *)
(***************************************************************************)
\* A full batch waits for the ticker.
ReceiveNoFlush ==
    /\ lphase = "idle" /\ channel # <<>>
    /\ channel' = Tail(channel)
    /\ lbatch' = Append(lbatch, Head(channel))
    /\ UNCHANGED <<handlerVars, lphase, lpos, charged, excused, crashes, dlqVars, tableVars>>

\* The ticker flushes full batches only.
TickFull ==
    /\ lphase = "idle" /\ Len(lbatch) >= BatchSize
    /\ lphase' = "writing" /\ lpos' = 1
    /\ UNCHANGED <<handlerVars, channel, lbatch, charged, excused, crashes, dlqVars, tableVars>>

\* The cost is recorded whether or not the INSERT succeeded.
FlushWriteThenCharge(out) ==
    /\ lphase = "writing" /\ lpos <= Len(lbatch)
    /\ WriteUsageEvent(lbatch[lpos], out)
    /\ lphase' = "charging"
    /\ UNCHANGED <<handlerVars, channel, lbatch, lpos, charged, excused, crashes, dlqVars>>

\* An event whose INSERT failed is not queued.
FlushEnqueueNothing ==
    /\ lphase = "enqueueing"
    /\ lphase' = "writing" /\ lpos' = lpos + 1
    /\ UNCHANGED <<handlerVars, channel, lbatch, charged, excused, crashes, dlqVars, tableVars>>

\* batch is not reset after a flush.
FlushEndKeepBatch ==
    /\ lphase = "writing" /\ lpos > Len(lbatch)
    /\ lphase' = "idle" /\ lpos' = 1
    /\ UNCHANGED <<handlerVars, channel, lbatch, charged, excused, crashes, dlqVars, tableVars>>

-----------------------------------------------------------------------------
(***************************************************************************)
(* Logger.run.  While it flushes it does not receive, so the channel fills *)
(* up behind a slow Postgres.                                              *)
(***************************************************************************)
Receive ==
    /\ lphase = "idle"
    /\ channel # <<>>
    /\ channel' = Tail(channel)
    /\ lbatch' = Append(lbatch, Head(channel))
    /\ lphase' = IF Len(lbatch) + 1 >= BatchSize THEN "writing" ELSE "idle"
    /\ lpos' = 1
    /\ UNCHANGED <<handlerVars, charged, excused, crashes, dlqVars, tableVars>>

\* The one-second ticker; flush returns at once when the batch is empty.
Tick ==
    /\ lphase = "idle"
    /\ lbatch # <<>>
    /\ lphase' = "writing"
    /\ lpos' = 1
    /\ UNCHANGED <<handlerVars, channel, lbatch, charged, excused, crashes, dlqVars, tableVars>>

FlushWrite(out) ==
    /\ lphase = "writing"
    /\ lpos <= Len(lbatch)
    /\ WriteUsageEvent(lbatch[lpos], out)
    /\ lphase' = IF out = "ok" THEN "charging" ELSE "enqueueing"
    /\ UNCHANGED <<handlerVars, channel, lbatch, lpos, charged, excused, crashes, dlqVars>>

FlushEnqueue ==
    /\ lphase = "enqueueing"
    /\ Enqueue(lbatch[lpos])
    /\ lphase' = "writing"
    /\ lpos' = lpos + 1
    /\ UNCHANGED <<handlerVars, channel, lbatch, charged, excused, crashes, tableVars>>

\* recordSpend: nothing is added for an event without a cost, when the budgets
\* cannot be loaded, or when Redis does not answer.
FlushCharge(done) ==
    /\ lphase = "charging"
    /\ charged' = IF done THEN charged \cup {lbatch[lpos]} ELSE charged
    /\ lphase' = "writing"
    /\ lpos' = lpos + 1
    /\ UNCHANGED <<handlerVars, channel, lbatch, excused, crashes, dlqVars, tableVars>>

FlushEnd ==
    /\ lphase = "writing"
    /\ lpos > Len(lbatch)
    /\ lphase' = "idle"
    /\ lbatch' = <<>>
    /\ lpos' = 1
    /\ UNCHANGED <<handlerVars, channel, charged, excused, crashes, dlqVars, tableVars>>

Logger ==
    \/ Receive
    \/ Tick
    \/ \E out \in Outcome : FlushWrite(out)
    \/ FlushEnqueue
    \/ \E done \in BOOLEAN : FlushCharge(done)
    \/ FlushEnd

-----------------------------------------------------------------------------
Retry == RetryStep /\ UNCHANGED pipeVars

\* The events the logger still has in hand.
InLogger ==
    ToSet(channel) \cup
    {lbatch[i] : i \in {j \in DOMAIN lbatch : j >= lpos /\ ~(j = lpos /\ lphase = "charging")}}

InFlight == InLogger \cup Held

\* The process ends and starts again: every buffer is gone, and so are the
\* requests whose handlers were running.
Crash ==
    /\ crashes < MaxCrashes
    /\ crashes' = crashes + 1
    /\ excused' = [e \in Event |->
            CASE e \in InFlight \/ req[e] \in {"answered", "hungup"} -> "crash"
              [] e \in Lost -> "overflow"
              [] OTHER -> excused[e]]
    /\ req' = [e \in Event |-> IF req[e] \in {"forwarding", "answered", "hungup"}
                               THEN "cut" ELSE req[e]]
    /\ channel' = <<>>
    /\ lbatch' = <<>> /\ lphase' = "idle" /\ lpos' = 1
    /\ NewDLQ
    /\ UNCHANGED <<failOpen, charged, tableVars>>

Outage == (DBFails \/ DBRecovers) /\ UNCHANGED <<pipeVars, dlqVars>>

PipeNext ==
    \/ \E r \in Event : Handler(r)
    \/ Logger
    \/ Retry
    \/ Crash
    \/ Outage

PipeSpec == PipeInit /\ [][PipeNext]_allVars

(***************************************************************************)
(* Both goroutines keep running.  Weak fairness of the logger as a whole is *)
(* enough: whichever branch of its select Go picks, a flush comes nearer.  *)
(* Nothing is assumed of the clients, the provider or Postgres.            *)
(***************************************************************************)
FairSpec == PipeSpec /\ WF_allVars(Logger) /\ WF_allVars(Retry)

-----------------------------------------------------------------------------
(***************************************************************************)
(* Properties.                                                             *)
(***************************************************************************)
Status(e) ==
    IF Stored(e) THEN "stored"
    ELSE IF e \in InFlight THEN "pending"
    ELSE IF req[e] \in {"logged", "cut"} THEN "lost" ELSE "none"

SmallerOf(m, n) == IF m <= n THEN m ELSE n

\* The warnings of a retry whose event is still in its copy.
Owed == IF phase = "writing" THEN SmallerOf(DropsSince, Len(batch)) ELSE 0

Ledger == INSTANCE UsageLedger WITH
    ledger <- [e \in Event |-> Status(e)], warnings <- drops, owed <- Owed

\* The buffers and goroutines together keep the promise of UsageLedger: what
\* is stored stays stored, what is lost stays lost, and a pending event is
\* lost only to a restart or to a drop of its own, however the logger's
\* flushes and the retries of the dead letter queue interleave.
KeepsLedger == Ledger!LedgerSpec

\* An event whose handler has returned is in a row, in a buffer, lost in one of
\* the announced ways, or lost by the queue to a drop: no step of the handler,
\* the logger or the retry loop lets one slip through (proxy/handler.go:119-126,
\* proxy/logger.go:47-92, proxy/dlq.go:28-74).
EventsAccounted ==
    \A e \in Event : req[e] = "logged" =>
        \/ Stored(e)
        \/ e \in InFlight
        \/ excused[e] # "none"
        \/ e \in Lost

\* Increments: the counters are only ever incremented for an event whose one
\* acknowledged INSERT is the logger's, and never for one of the retry loop or of a
\* fail-open handler.  What the counters hold is another matter: a rebuild or a
\* correction SETs the sum of all rows, these included (proxy/logger.go:71-77).
ChargedAreStored ==
    \A e \in charged : acked[e] = 1 /\ e \notin ToSet(offered) /\ ~failOpen[e]

\* Once Postgres stays up, every logged event is stored or lost for good.
EventuallySettled ==
    <>[]dbUp => \A e \in Event \ Unstorable :
                    req[e] = "logged" ~> Status(e) \in {"stored", "lost"}

\* design.md:87 "The Tier 1 path (Redis only down) produces zero data loss", and
\* design.md:82 of Tier 2, both stores down: "Usage event queued to in-memory
\* dead letter queue".  So the event of a fail-open request is in a row or in a
\* buffer when its handler returns.  Fails: LogDirect runs under the request's
\* context, cancelled when the client hung up, and the handler only logs its
\* error, whatever the cause.
FailOpenLosesNothing ==
    [][\A r \in Event \ Unstorable :
        failOpen[r] /\ req[r] # "logged" /\ req'[r] = "logged"
            => Stored(r)' \/ r \in InFlight']_allVars
=============================================================================
