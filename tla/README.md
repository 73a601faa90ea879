# AIRelay: specifications, checks and proofs

AIRelay is an HTTP proxy in front of OpenAI, Anthropic and Google. It resolves
its own keys to provider credentials, enforces budgets, forwards requests, and
records what they cost; a management API administers projects, keys,
credentials and budgets. This directory holds TLA+ models of the parts whose
correctness depends on the order in which things happen, the TLC runs that check
them and the TLAPS proofs about them. Paths below are relative to `src/`.

## 1. The system

| Component | State it keeps | Operations | What must hold |
|---|---|---|---|
| Handler (`proxy/handler.go`) | one goroutine per request | `ServeHTTP`: resolve, check budgets, forward, price, log | every answered request leaves an event that is stored, buffered, or lost in an announced way |
| Logger (`proxy/logger.go`) | channel, batch | `Log`, `LogDirect`, `run`/`flush`, `recordSpend` | one row per event; increments only for acknowledged rows |
| Dead letter queue (`proxy/dlq.go`) | queue under a mutex, local copy and backoff of the retry loop | `Enqueue`, `retryLoop`, `flushBatch` | bounded, in order, no acknowledged INSERT repeated, losses announced |
| Budget checker (`proxy/budget.go`, `internal/budget/keys.go`) | counters in Redis, limits cached per process | `CheckBudgets`, `getSpend`/`rebuildFromDB`, `RecordSpend`, `loadBudgets` | counters follow the spending on record; nobody is refused far below a limit |
| Counter jobs (`internal/jobs/reconcile.go`, `ttlsweep.go`) | counters in Redis | reconciliation (60 s), TTL sweep (24 h) | drift is repaired |
| Forwarding (`proxy/forward.go`, `internal/tokens`) | buffer of the event being read, usage so far | `Forward`, `streamSSE`, four parsers | the usage is what the stream said |
| Prices (`internal/jobs/pricingsync.go`, `lookupPricing`) | table `model_pricing`, a cache per proxy (24 h) | sync (24 h), lookup | prices set by hand win; old prices go out of use |
| Partition job (`internal/jobs/partition.go`) | partitions of `usage_events` | `RunPartition` (24 h), one CREATE per month | a month has its partition before its first row |
| Key resolver (`proxy/auth.go`) | lookups in Redis, 5 minutes | `Resolve` | the right credential, and not for long after a revocation |
| Management API (`api/`) | tables in Postgres | projects, keys, credentials, budgets, reports, login | plan limits hold under concurrent requests |
| Rate limiter (`api/middleware.go`) | a token bucket per address | `IPRateLimit`, eviction | an address gets its rate; eviction gives it nothing, a restart one burst |
| Login, reports, dashboard, configuration, crypto | none | see PROJECT.json | see section 7 |

Proxies and the API are separate processes. They share Postgres and Redis, and
never call each other: a change made in the API reaches a proxy only when a
cache entry has timed out. Inside a proxy the request handlers, the logger and
the retry loop are goroutines that share a channel and a queue under a mutex.
Nothing is flushed when a proxy ends. The jobs run in the API process, next to its
servers, and live and die with it.

What makes the system hard to test: calls to two stores with other processes in
between (INSERT and INCRBYFLOAT, SELECT SUM and SET, SELECT and SET of the key
cache and of prices); a critical section that is left for the time of a retry;
calls that fail or whose answer is lost; buffers at their limits; midnights and
short months; evictions; restarts; and transactions that queue up for one lock. `PROJECT.json` lists each of these
hazards with its line.

## 2. Modules

| Module | Models | Role |
|---|---|---|
| `UsageTable` | `writeUsageEvent` and its possible outcomes | shared by `DLQ` and `UsagePipeline` |
| `DLQ` | `proxy/dlq.go`; a failing logger is its environment | component |
| `UsagePipeline` | handlers, `Logger.run`, retry loop, restarts | composition, extends `DLQ` |
| `UsageLedger` | the promise about events: pending, stored, lost | abstract specification of `UsagePipeline` |
| `SpendStore` | `usage_events.cost_usd`, the counters, the calendar, Redis commands | shared state |
| `SpendJobs` | `RunReconcile`, `RunTTLSweep` | component, extends `SpendStore` |
| `BudgetEnforcement` | `BudgetChecker` in handlers and loggers, the budgets API, the jobs | composition, extends `SpendJobs` |
| `KeyCache` | `KeyResolver` against the API's revocations | component |
| `PlanQuota` | creates that count and insert in one step | abstract specification of `PlanLimits` |
| `PlanLimits` | `Create`, `Delete`, `Revoke` of projects and keys as transactions | component |
| `TokenStream` | `streamSSE` and the parsers of `internal/tokens` | component |
| `PricingCache` | `RunPricingSync`, `lookupPricing`, the table between them | component |
| `Metering` | the end of a stream starts a lookup | composition of the two |
| `TokenBuckets` | one bucket per address that lives as long as the process | abstract specification of `RateLimit` in `ApiProcess` |
| `RateLimit` | `IPRateLimit` with its eviction loop | component |
| `Partitions` | `RunPartition`, the default partition, the calendar | component |
| `ApiProcess` | starts and kills of the process that holds both | composition of the two |
| `DLQProofs`, `UsagePipelineProofs`, `UsageLedgerProofs`, `BudgetProofs`, `KeyCacheProofs`, `PlanLimitsProofs`, `MeteringProofs`, `ApiProcessProofs` | theorems | extend the component |
| `MC*` | constants and symmetry sets of the TLC runs | instances |

Each component module has a section headed *Deviations*: mutated forms of its
definitions, each a bug that the code could plausibly have. No specification uses
them; `PROJECT.json` pairs each with the property that finds it.

### From code to actions

*Dead letter queue.* A critical section is one action (`Enqueue`,
`RetrySnapshot`, `RetryMerge`), and so is each INSERT of `flushBatch`
(`RetryWrite`). `Enqueue` may run between any two of them. The delays are not
modelled, their index (`attempt`) is. `offered`, `snapAt`, `drops` and
`snapDrops` are history that no action reads.

*INSERT.* It ends with an acknowledgement, an error, or an error after it
committed (`Outcome`). An expired deadline is an outage (`dbUp`) of one call: the
10 seconds of a flush and the 30 seconds of a retry are not told apart from a
Postgres that goes away and comes back. `Unstorable` events are those that
Postgres always rejects.

*Usage pipeline.* A handler goes `new`, `forwarding`, `answered` or `hungup`,
`logged`. Everything between the entry and `Forward` that ends a request is
`Refuse`. `Log` is the non-blocking send. `Receive`, `Tick`, `FlushWrite`,
`FlushCharge`, `FlushEnqueue`, `FlushEnd` are the loop of `Logger.run`: while it
flushes it does not receive. `Crash` empties every buffer and cuts every request.

*Budgets.* Each Redis command and each query is an action of its own; what the
code does between two of them with local data goes with the second. So a check that
found no cached limits is `LoadBudgets` (the query) and `BeginCheck` (the `Store` in
the cache and the later `time.Now()`), and `RecordSpend` (its `time.Now()`),
`RecordIncr`, `RecordTTL` and `RecordExpire` follow each other. Only the sum of a
rebuild takes the time in the same action as its query. A call `Works` or `Fails`:
it has no effect; or it has, and its answer is lost; or it has, its answer is lost and
the client sends it again, which for INCRBYFLOAT counts twice (`resent` counts these,
go-redis repeats commands by default). `EndProxy` ends a proxy at any point, between
INCRBYFLOAT and EXPIRE for one, and with it its requests, cache, channel and retry
queue. `MaxFaults` bounds all of these and the cold starts of Redis together. A lost
answer of an INSERT, which makes a second row, is in `UsagePipeline` only: here a row is
what Postgres has. `chk` holds the local variables of a `CheckBudgets`, `lg` those of a
flush, `rec` those of the reconciliation, `sweep` the day that the sweep took for
today. A day is whatever a period can change at: the code formats the time and
compares the text, the model numbers the days and `Start` gives the first day of
a period. Costs are small integers. One project is modelled, for projects share
no row and no key.

*Key cache.* `Start`, `Hit`, `Miss`, `Query`, `QueryFails`, `Set` are the calls
of `Resolve`, each an action; the API's statements are atomic. Time is in ticks.
A cache entry is kept with the tick at which it ends. `lastValid` is history: the
last tick at which a lookup was what the JOIN returns. `RevokeKey`, `AddCredential`
and `RevokeCredential` check the owner (`projectFromPath`) and write in one action: the
check reads `archived` only, which the JOIN does not, so no property can tell. An
entry that cannot be parsed (`auth.go:65`, a 401 without a query) is left out: nothing
writes such an entry.

*Plan limits.* A request goes `new`, `begun`, `locked`, `counted`, `inserted`,
`done`; the row is visible to others after `Commit`, and only then is the lock
free. Postgres runs these statements in READ COMMITTED, so the count sees what was
committed before the lock was granted. An ignored error of the COUNT is covered
by `Rollback`: the INSERT after it fails in the aborted transaction. `Delete` and
`Revoke` check the owner first and take no lock.

*Streams.* A line is what the parsers tell apart: blank, with counts, or anything
else. `ReadLine` is one round of the loop of `streamSSE`, which parses after every
line: the line alone for OpenAI and Google, the event so far for Anthropic. The
stream may stop after any line (`StopScan`): its end, a broken connection, a client
that left and a line of more than 64 KiB all end the scan. `Sendable` is what the
proxy relies on: an event has one line of data, and a message starts once. `told`
is history: what the lines say when read one by one, without buffers. `Metering`
calls `Lookup` when a stream with usage has stopped, as the handler does.

*Prices.* Each query of the sync or of a lookup and each fetched list is an action.
The sync runs once at the start, and then at the ticks of a ticker that exists from
the end of the first sync (`fresh`, `due`). `cache` holds the price and the ticks it
has left; `Query` may fail, and a failure is stored as "not found". `pin`, `calm`
and `settled` are history: the last price set by hand, and the time since the price
in force, or the quote, was last disturbed, counted up to the bounds in question.

*Rate limiter.* `LimiterFor` is the critical section, `Allow` the call on the limiter
after it; other requests, sweeps and ticks come in between. The bucket of
`golang.org/x/time/rate` is external: it gathers one tick's worth per tick, and a
token costs `Refill` of them. `debt` is history: how far the tokens given to an
address in any period that ends now exceed the refill of that period and a burst
for each restart in it, at most. A restart takes one burst off it and no more, so
periods that go on over restarts are measured too.

*Partitions.* Months are numbered on and `Length` gives their days, so any calendar
can be put in. `AddMonth` is `AddDate(0, 1, 0)`. `EnsurePartition` is one CREATE;
it fails for good if the default partition has rows of its month. A day without a
process is a `KillJob` and a later `StartJob`. `ran` is history: the first day of each
month on which the job came to its end with no failed statement before midnight.

*API process.* The limiter and the partition job keep separate clocks, for seconds and
days do not meet; a restart (`Kill`, `Start`) concerns both, and `TokenBuckets` sees it
as `End` and `Begin`: `End` is its one step that fills buckets at once. The restarts of the sync
are in `PricingCache`, whose proxy part knows nothing of them.

## 3. Runs

| Run | Instance | What it shows |
|---|---|---|
| `dlq` | 5 events, one unstorable, capacity 2 | bounded (`CapHolds`), in order (`OldestFirst`), exact merges (`QueueIsSuffix`, `MergeKeepsArrivals`), no repeated acknowledged INSERT (`AckedOnce`), at most one loss per warning (`LossBoundedByDrops`), backoff only with work (`BackoffOnlyWithWork`) |
| `dlq_merge` | 4 events, capacity 2 | *violation*: a comment says that events enqueued during a retry are preserved; after an overflow they are not |
| `pipeline` | 3 events, queue and batch of two, channel of one, one restart | no event slips through (`EventsAccounted`), increments only for rows acknowledged to the logger, none for the retry loop and for fail-open requests (`ChargedAreStored`), `AckedOnce` of all writers together, and the whole refines `UsageLedger` (`KeepsLedger`) |
| `pipeline_live` | 3 events, one unstorable, no restart | `EventuallySettled`: once Postgres stays up, every logged event is stored or lost for good |
| `pipeline_failopen` | 2 events | *violation*: the event of a fail-open request whose client hung up is neither stored nor queued |
| `budget` | 2 events, 2 days, 1 fault (failed call, lost answer, end of the proxy or cold start), 1 change of the budget | `OvercountBounded`: a counter exceeds the spending on record by at most one event per proxy and one per increment sent again; `RefusedNearLimitOnly`; `CountersExpire`: no more counters stay without an expiry than there were faults; `CurrentKept`: only a lost Redis or a sweep that a midnight has overtaken removes a current counter |
| `budget_proxies` | 2 events of very different cost through 2 proxies, 1 fault, 1 change of the budget | `OvercountBounded` with the slack of two loggers; `CountersConverge`: the reconciliation brings every counter to within 5 % |
| `budget_overshoot` | 3 events, no fault | *violation*: the design says that a budget is exceeded by requests in flight only; a rebuild that stores an old sum lets later requests through |
| `keycache` | 1 key, 2 providers, 2 concurrent requests, lifetime 2, delay 1, 4 ticks | `ServedOwnCredential`; `StaleUseBounded`: nothing revoked is used after a lifetime and a delay |
| `metering` | 3 providers, events of 2 lines, counts 0 and 1; 2 prices, lifetime 1, cycle 2, delay 1, 1 change, 1 failure | `UsageAsTold`; `PriceInForce`: a price out of force is used for a lifetime and a lookup at most; `TwoCycles`: so is one that was quoted two cycles ago |
| `api_process` | 2 addresses, 2 requests, 2 limiters, burst 2, refill 1, cleanup 2, stall 2; months of 2 days and of 1; 2 failures or kills | `RateHolds`, `RefusedAtLimitOnly`: evictions neither give nor take, and a restart gives one more burst; `KeepsBuckets`: the map of limiters refines `TokenBuckets`, so an address cannot tell that it exists; `MadeInTime`: one clean run of the job on a day that the next month has too is enough for the next month, whatever fails or is killed before and after it |
| `planlimits` | 4 concurrent requests of a free user | `LimitsHold`; `KeepsQuota`: the transactions refine `PlanQuota`; `CreatesEnd`: no create waits for a lock for ever |

The type invariant of each module is checked in one run. Deadlock is checked
except in `planlimits`, whose requests come to an end.

### Findings

1. `dlq_merge` (`proxy/dlq.go:62`). The merge drops the first `len(batch)` places
   of the queue. If k events were dropped from the front meanwhile, the first k
   arrivals are among those places and are lost, though every retried event may
   have been written. `MergeKeepsArrivals` states exactly what is kept, and
   `LossBoundedByDrops` that the total is within the number of warnings.
   `QueueIsSuffix` also shows that the case the guard in lines 59-62 mentions, a
   queue shorter than the copy, does not arise: a drop is followed by an append
   in the same critical section.
2. `pipeline_failopen` (`proxy/handler.go:121`). The direct write uses the
   request's context and its error is only logged. The design document promises
   no loss with Redis down, and a queued event with both stores down.
3. `budget_overshoot` (`proxy/budget.go:149`). `getSpend` stores the sum it read
   before other events were inserted and counted. The counter is then too low
   until the next reconciliation, with nothing in flight.

More disagreements are in the models or near them and have no run:

* The design (`2026-03-16-airelay-design.md:66`) has "every proxied request" do an
  INCRBYFLOAT and the counter "always current". The increment follows the flush, up
  to a second after the request and once per budget; it never comes for an event that
  the retry loop or a fail-open handler wrote (`ChargedAreStored`). Such events enter a
  counter only with a rebuild or a correction.
* `api/server.go:28` gives "10 req/min burst=10 per IP". The limiters are in memory, so
  a restart gives every address another burst; `RateHolds` states it with that.
* Budgets are used for up to two minutes after a change although `budget.go:46`
  says immediately, since nothing calls `InvalidateBudgetCache`.
* A TTL sweep that runs past midnight deletes a current counter although
  `ttlsweep.go:33` says it is preserved. `CurrentKept` states what is left of that.
* `dashboard/templates/project.html:95` says that a revoked key fails immediately,
  while `StaleUseBounded` is the bound the code keeps.
* `ParseGoogleChunk` (`internal/tokens/google.go:17-20`) is given lines with their
  field name `data: `, which it does not cut off as `openai.go:18` does. So a stream
  of Gemini has no usage, and none of its events a cost, although the design
  (`2026-03-16-airelay-design.md:40`) lists its `usageMetadata`; the tests of the
  parser use lines without the field name. `UsageAsTold` excludes Google for this
  reason. A response that is no stream has no usage from any provider.
* `lookupPricing` stores "not found" for 24 hours after any error, also when the
  client hung up during the query, although `handler.go:146` says that nil means
  "not found". `PriceInForce` counts from the last failed query.
* `RunPartition` makes this month and the next (`partition.go:12`) except on the
  last days of a month that is longer than the next one: on 30 January it makes
  January and March. `MadeInTime` asks for a day that the next month has too.

### Bounds, and why they are enough

* Queue, channel and batch hold one or two elements, against 50,000, 50,000 and
  100. The code looks at their lengths only to compare them with a capacity, so
  what matters is that they are empty, partly full and full, and that several
  drops happen during one retry: five events through a queue of two give up to
  three. The theorems of `DLQProofs` hold for every capacity.
* `MaxUnknown` bounds the lost answers per event to one: a second adds a row and
  changes nothing else.
* `MaxCrashes` is one where the run is about restarts, zero in the liveness run,
  whose premise is an undisturbed end.
* `MaxFaults` and `MaxEdits`: one fault of any kind anywhere in the behaviour, one
  change of the budget. A second fault would let two increments be sent again or two
  counters lose their expiry: the theorems cover any number. `budget` has one proxy and
  a midnight; `budget_proxies` has two proxies and no midnight.
* `MaxDay` is 2 in `budget`: one midnight. A second would find everything as the first did, as
  the only thing kept over a midnight is the local state of one check, one
  flush, one correction and one sweep.
* `budget_proxies` has two events of very different cost, so that losing one is out
  of tolerance and losing the other is within it.
* `MaxTime` is long enough for a lookup to be read, revoked, stored late, hit and
  to end; the bound of `StaleUseBounded` is tight on this instance. `MaxDelay` is
  an assumption on the stores and the clients: `Resolve` sets no deadline.
* `metering` has every line of every provider, events of two lines (a name and its
  data, so that the buffer is parsed twice with the same match), and one lookup at a
  time beside the sync; two concurrent lookups and a sync of one tick were checked
  on `PricingCache` by itself, and the theorems cover any number and any length. One
  change and one failure are enough to make a price stale or withheld; the bounds
  `Calm` and `Settled` are tight. `MaxDelay` and `MaxSync` are assumptions: the
  queries of a lookup and of a sync have no deadline of their own.
* `keycache` has one key and one secret per provider; that an entry of one key never
  serves another, and replaced secrets, are left to the theorems.
* `api_process`: a bucket of two tokens is empty, half full and full; with two
  addresses the request of one can find the other evicted, and both share the limiter
  objects. The constants meet `RateAssumption` with equality (burst 2 and a stall of 2
  in two intervals of 2), and a sweep after one interval would evict limiters that are
  not full, so an eviction that forgets taken tokens is seen. `MaxStall` is an
  assumption on the time between the two calls of a request. Two months, the second
  shorter than the first and than the third, which the job makes partitions for: so
  `AddDate` skips a month on the second day and not on the first. Two failures or kills
  lie before the run, after it, or on either side of it, at the turn of the month too.
* `planlimits` has ids enough for four requests, so that no create lacks one, and
  starts both from no project and from one. Plans without limits skip lock and
  count; the theorems cover them.
* Events, proxies and connections that behave alike are permuted by symmetry sets
  in safety runs only.

### Fairness

* `UsagePipeline!FairSpec`: the logger and the retry loop keep running (weak
  fairness of each goroutine as a whole, so any choice of Go's `select` is
  allowed). Clients, provider and Postgres owe nothing; the property's premise
  is that Postgres stays up from some point on.
* `BudgetEnforcement!FairSpec`: the reconciliation goes on once it has begun a
  period, and begins each period again and again: `runner.go:14-20` is an
  endless loop over both periods. No other process needs to make progress, and
  faults, midnights and requests are bounded.
* `PlanLimits!FairSpec`: strong fairness of each request's next statement.
  Postgres queues the waiters of a lock, so a request that could have it again
  and again gets it. No request has to arrive, to fail or to be cancelled.

## 4. Proofs

Checked by `tlapm`, for every value of the constants that meets the named
assumptions in the modules.

| Theorem | States |
|---|---|
| `DLQProofs!TypeCorrect`, `CapRespected`, `QueueShape` | `TypeOK`, `CapHolds`, `QueueIsSuffix` are invariants |
| `DLQProofs!MergeExact` | the action property `MergeKeepsArrivals` |
| `DLQProofs!StaysInOrder`, `NeverRepeated`, `BackoffHasWork`, `LossesAreDrops` | `OldestFirst`, `AckedOnce`, `BackoffOnlyWithWork`, `LossBoundedByDrops` are invariants |
| `UsagePipelineProofs!PipelineTypes`, `PipelineAckedOnce`, `ChargedOnlyStored`, `NothingSlips` | `PipeTypeOK`, `AckedOnce`, `ChargedAreStored`, `EventsAccounted` are invariants |
| `UsageLedgerProofs!Implements` | `PipeSpec` implements `LedgerSpec` |
| `BudgetProofs!TypeCorrect`, `ExpiriesSet`, `Overcount` | `TypeOK`, `CountersExpire`, `OvercountBounded` are invariants |
| `BudgetProofs!Refusals`, `CurrentSpared` | the action properties `RefusedNearLimitOnly`, `CurrentKept` |
| `MeteringProofs!TypeCorrect`, `AsTold`, `PriceBound`, `StalenessBound` | `TypeOK`, `UsageAsTold`, `PriceInForce`, `TwoCycles` are invariants |
| `ApiProcessProofs!TypeCorrect`, `RateBound`, `RefusalJustified`, `PartitionsInTime` | `TypeOK`, `RateHolds`, `RefusedAtLimitOnly`, `MadeInTime` are invariants |
| `ApiProcessProofs!Implements` | `Spec` implements `BucketSpec` |
| `KeyCacheProofs!TypeCorrect`, `OwnCredential` | `TypeOK`, `ServedOwnCredential` are invariants |
| `KeyCacheProofs!StaleUse` | the action property `StaleUseBounded` |
| `PlanLimitsProofs!TypeCorrect`, `LimitsRespected` | `TypeOK`, `LimitsHold` are invariants |
| `PlanLimitsProofs!Refinement` | `Spec` implements `QuotaSpec` |

*DLQ.* The invariant is `TypeOK /\ CapHolds /\ Shape`. `CapHolds` is not
inductive: the merge appends without looking at the capacity. `Shape` says what the
queue is during a retry: the copied batch followed by the arrivals since, less
one from the front per drop. From it the merge leaves at most as many events as
the queue held, and it leaves exactly the arrivals beyond the drops.

*DLQ, event by event.* Everything in the queue was offered, the copy before `snapAt`
and the failures out of the copy (`Order`), so the merge keeps the order. What can
still be written has no acknowledged row (`Unwritten`): the rest of the copy, the
failures, and what was offered since the copy; a written event of the copy is in
none of these, and leaves the queue with the merge. For the losses, events are
counted by their places in `offered`: between retries the places whose event is
`Gone` are as many as the drops at most; during a retry those before the copy
(`GoneBefore`) are as many as the drops before it, for each INSERT leaves a row or
a failure; and the merge cuts off one arrival for each drop since.

*Pipeline.* The invariant of the queue (`OInv`) is kept, and the rest says who holds
what: an event is in one place of the logger at most (`Distinct`); what the logger
holds was handed over by its handler and never queued, and has no row yet unless its
cost is being recorded (`InHand`); what was queued was not charged (`Queued`); and
nothing is written before it is logged (`NotBefore`). So an event leaves the logger
with its row or into the queue, but for the announced losses (`Accounted`), and no
two writers hold it at once.

*Ledger.* Adds that what the retry has tried is stored or has failed (`Tried`). The
status of an event follows from its row, its place (`Somewhere`) and its request
(`StatusIs`). A drop either takes an event of which the retry still has a copy, or
the oldest pending one; the merge cuts off no more events than the drops since the copy
(`Owed` in the refinement mapping), each of which the ledger has warned of.
Every other step moves an event between places, which the ledger does not see, or
is an `Accept`, `Store` or loss of it.

*Budgets.* The counters are compared with sums of costs over sets of events, so the
proofs begin with what those sums are: zero for the empty set, one cost more for one
event more, larger for a larger set (`CostUnfolds`, `CostAdd`, `CostMonotonic`). The
sum is a fold, and the induction that this takes goes over the subsets of a finite set:
of those without a property, one has no smaller one (`SetInduction`, from the library's
fact that the strict subset order is well founded). `OvercountBounded` is not inductive,
since an increment raises a counter and not the rows. The invariant (`SpendInv`) adds:
the event a logger holds is its own proxy's and no other's (`Owners`); a row comes once,
so it keeps its day (`Fresh`); a sum that a check or the reconciliation is about to SET
is no larger than the present one, for rows only grow and the periods' first days never
go back (`ChecksOld`, `RecOld`); and a counter, plus the cost of what the loggers have
inserted and not counted in it (`Uncounted`), is at most the rows, one event per
proxy and one per increment sent again (`Counted`). So an insert pays in advance for its increment, and a SET may forget
what was paid, for the slack covers one event for each proxy. A refusal follows: the
value it looked at was a counter or such a sum, for any number of proxies. For
`CurrentKept`: nothing but a cold start, an expiry and a sweep removes a counter
(`OnlyThreeRemove`), and a sweep began today or before (`SweepOld`). An increment that
waits to be sent is for a period that has begun and that its event is not to be counted
in again (`LogOld`), so sending it twice costs one event of slack, which `resent` pays
for. `CountersExpire` is inductive with the types: a counter without an expiry is
either one whose logger is about to set it, or an orphan; a step makes at most one orphan, and
only with a fault (`OneNewOrphan`), every other step makes none (`NoNewOrphan`). The
assumptions: events and proxies are finite in number, there is a period, and `Start` gives
first days.

*Metering.* The event that is being read has one line of counts at most, and that
line is what was told last (`EventTold`); so parsing the buffer again after every
line finds the same. A line behind a completion-only delta keeps the input tokens of
its message. For the prices, an answer that was read after the last disturbance is
right (`LookFresh`, `LookQuoted`), an entry ends a lifetime after such an answer at
the latest (`CacheFresh`, `CacheQuoted`), and the table catches up with the quote
within a cycle and two syncs (`CatchesUp`: what is left of the cycle while the sync
sleeps, its age while it runs).

*ApiProcess.* What an address owes is exactly what its limiter lacks (`Owes`), two
addresses never share one (`OwnLimiter`), and a request in progress keeps its entry
(`Seen`). An entry that is old enough to be evicted is full again, by
`RateAssumption`, and so owes nothing. After a restart it owes nothing either: what it
owed was a burst at most, and the restart allows one. For the refinement, the bucket
of an address is its limiter, or a full one if it has none: an eviction is then a stutter, a
new limiter makes no difference, and `Allow` grants or refuses as the bucket does,
since the entry of a request in progress is still the one it was given. For the
partitions: a run that is clean so far ends with the month that `AddDate` gives for
today (`Ends`), so each month that `ran` tells of has made the next one, unless the next one
lacks that day (`Kept`), and no month still to come has rows.

*KeyCache.* A bound on the use of a stale lookup has to be carried along: a
lookup is true when it is queried (`Clocked`), the `Resolve` that is about to
store it began no later than that (`StoresFresh`) and at most `MaxDelay` ago
(`Timely`), so the entry it stores ends within `TTL + MaxDelay` (`EntriesFresh`),
and a hit is before that end. The same invariant keeps each entry under its own
key and provider.

*PlanLimits.* Whoever has counted holds the lock of the scope (`Holds`), so no one
else commits a row in it, and the room that was counted is still there at the
commit (`RoomLeft`), since deletes and revocations only make room. Uncommitted
rows have ids of their own (`RowsNew`), and the project of a request exists
(`Scoped`). `LimitsHold` follows at the commit, and so does the guard of the
abstract create, which gives the refinement: a commit maps to `AddProject` or
`AddKey`, a delete or revocation to its counterpart (or to a stutter when the
project was archived already), every other step to a stutter.

*Only model-checked.* Liveness under fairness (`EventuallySettled`,
`CountersConverge`, `CreatesEnd`) is out of the prover's reach. Every other property
of a passing run has a theorem.

## 5. How to run

    tlc -workers 2 -config MCDLQ.cfg MCDLQ.tla
    tlapm DLQProofs.tla

`PROJECT.json` gives module and configuration of each run. Each run takes from a
few seconds to about two minutes.

## 6. Plan

Done: the usage pipeline with its queue, the budgets with their jobs, the key
cache, the plan limits, streams and prices, the rate limiter and the partition job,
in this order; theorems about all of them. What could follow: a clock in
`BudgetEnforcement`, to bound how stale the cached limits are, as `KeyCache` does for
lookups.

## 7. Not modelled

* The rewriting of URL and headers, and the product of tokens and prices
  (`internal/cost`): no state. In `UsagePipeline` and `BudgetEnforcement` a
  forwarded request ends with an error, an answer or a hang-up, and its cost is
  given.
* The text of the price lists and of JSON lines: what the parsers find in them is.
* Sign-up, login and tokens: single statements and a signature. The plan in the
  token is a constant of `PlanLimits`.
* Reports, model list, dashboard: they only read.
* Hashing, encryption, the encoding of keys and cache entries: a lookup carries
  the key and the credential it stands for.
* Configuration, connection pools and server timeouts: no state of their own. The
  migrations lack some columns that the queries use (`projects.archived_at`,
  `api_keys.last_used_at`, `model_pricing.synced_from`); the models assume the
  schema that the queries need.
