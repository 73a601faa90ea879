-------------------------- MODULE BudgetEnforcement --------------------------
(***************************************************************************)
(* Budget enforcement: BudgetChecker (proxy/budget.go) as the handlers and *)
(* the loggers of the proxies use it, the budgets the management API       *)
(* writes (api/budget.go), and the jobs of module SpendJobs.               *)
(*                                                                         *)
(* A handler checks the budgets, forwards the request and leaves an event; *)
(* later the logger of its proxy inserts the event and adds its cost to a  *)
(* counter per budget.  Every call to Redis or Postgres is one action, so  *)
(* checks, increments, rebuilds and corrections interleave freely.  Only   *)
(* the sum of a rebuild reads the clock in the action of its query.        *)
(***************************************************************************)
EXTENDS SpendJobs

CONSTANTS
    Proxy,       \* proxy processes
    Via,         \* [Event -> Proxy]: the proxy that serves a request
    Amount,      \* amounts a budget can be set to
    InitBudget,  \* [Period -> Limit]: the budgets at the start
    MaxEdits     \* bound: changes of the budgets

NoLimit == [amount |-> 0, hard |-> FALSE]   \* no row in table budgets
Limit == {NoLimit} \cup [amount : Amount, hard : BOOLEAN]

ASSUME BudgetAssumption ==
    /\ IsFiniteSet(Proxy)
    /\ Via \in [Event -> Proxy]
    /\ Amount \subseteq Nat \ {0}
    /\ InitBudget \in [Period -> Limit]
    /\ MaxEdits \in Nat

VARIABLES
    budget,  \* [Period -> Limit]: table budgets
    edits,   \* changes of it so far
    cache,   \* [Proxy -> [Period -> Limit] or NoCache]: b.budgetCache
    hst,     \* [Event -> HandlerState]
    chk,     \* [Event -> local variables of CheckBudgets, or NoCheck]
    lg,      \* [Proxy -> place and local variables of the logger's flush]
    resent   \* history: increments done whose answer was lost and that were sent again

proxyVars == <<budget, edits, cache, hst, chk, lg, resent>>
vars == <<storeVars, jobVars, proxyVars>>

NoCache == [p \in {} |-> NoLimit]
NoCheck == [limits |-> NoCache]
LogIdle == [at |-> "idle"]

Limits == [Period -> Limit]
Budgeted(limits) == {p \in Period : limits[p] # NoLimit}

HandlerState == {"new", "loaded", "checking", "summing", "setting", "blocked", "admitted",
                 "failopen", "pending", "late", "done"}

\* Between the query for the budgets and the store into the cache.
LoadVars == [limits : Limits \cup {NoCache}]

CheckVars == [limits : Limits, todo : SUBSET Period, now : Day, key : Key,
              sum : Nat, seen : SUBSET Event]

LogState == {LogIdle}
    \cup [at : {"load"}, event : Event]
    \cup [at : {"store"}, event : Event, limits : Limits]
    \cup [at : {"incr"}, event : Event, todo : SUBSET Period]
    \cup [at : {"send", "ttl", "expire"}, event : Event, todo : SUBSET Period, key : Key]

BudgetTypeOK ==
    /\ budget \in Limits /\ edits \in 0 .. MaxEdits
    /\ cache \in [Proxy -> Limits \cup {NoCache}]
    /\ hst \in [Event -> HandlerState]
    /\ chk \in [Event -> CheckVars \cup LoadVars]
    /\ \A e \in Event :
         /\ hst[e] = "loaded" => chk[e].limits \in Limits
         /\ hst[e] \in {"checking", "summing", "setting"} =>
               chk[e] \in CheckVars /\ chk[e].todo \subseteq Budgeted(chk[e].limits)
    /\ lg \in [Proxy -> LogState]
    /\ resent \in Nat

Init ==
    /\ StoreInit
    /\ JobsInit
    /\ budget = InitBudget
    /\ edits = 0
    /\ cache = [x \in Proxy |-> NoCache]
    /\ hst = [e \in Event |-> "new"]
    /\ chk = [e \in Event |-> NoCheck]
    /\ lg = [x \in Proxy |-> LogIdle]
    /\ resent = 0

-----------------------------------------------------------------------------
(***************************************************************************)
(* The handler and CheckBudgets.                                           *)
(***************************************************************************)
Goto(r, st) == hst' = [hst EXCEPT ![r] = st]

\* CheckBudgets returns.
Return(r, st) == Goto(r, st) /\ chk' = [chk EXCEPT ![r] = NoCheck]

\* Ping failed: no check, and the event will be written directly.
PingFails(r) ==
    /\ hst[r] = "new"
    /\ Fails
    /\ Goto(r, "failopen")
    /\ UNCHANGED <<day, stored, spend, ttl, jobVars, budget, edits, cache, chk, lg, resent>>

Remember(x, limits) == cache' = [cache EXCEPT ![x] = limits]

\* loadBudgets asks the table when nothing is cached.  If that fails, nothing is
\* checked, and it does not count as a Redis outage.
LoadBudgets(r) ==
    /\ hst[r] = "new"
    /\ cache[Via[r]] = NoCache
    /\ \/ /\ Works
          /\ Goto(r, "loaded")
          /\ chk' = [chk EXCEPT ![r] = [limits |-> budget]]
       \/ Fails /\ Goto(r, "admitted") /\ UNCHANGED chk
    /\ UNCHANGED <<day, stored, spend, ttl, jobVars, budget, edits, cache, lg, resent>>

\* "seen" is history: the events already dealt with when the check began.
Check(r, limits) ==
    /\ Goto(r, "checking")
    /\ chk' = [chk EXCEPT ![r] =
         [limits |-> limits, todo |-> Budgeted(limits), now |-> day,
          key |-> CHOOSE k \in Key : TRUE, sum |-> 0,
          seen |-> {e \in Event : hst[e] = "done" /\ stored[e] > 0}]]

\* The limits are the cached ones, or those of the table, which are cached now.
BeginCheck(r) ==
    /\ \/ /\ hst[r] = "new" /\ cache[Via[r]] # NoCache
          /\ Check(r, cache[Via[r]])
          /\ UNCHANGED cache
       \/ /\ hst[r] = "loaded"
          /\ Check(r, chk[r].limits)
          /\ Remember(Via[r], chk[r].limits)
    /\ UNCHANGED <<storeVars, jobVars, budget, edits, lg, resent>>

\* The verdict on the budget of key k, whose spend was found to be v.
Judge(r, k, v) ==
    LET limit == chk[r].limits[k[1]] IN
    IF limit.hard /\ v >= limit.amount
    THEN Return(r, "blocked")
    ELSE /\ Goto(r, "checking")
         /\ chk' = [chk EXCEPT ![r].todo = @ \ {k[1]}]

\* An error on the way skips the budget.
Skip(r, p) ==
    /\ Goto(r, "checking")
    /\ chk' = [chk EXCEPT ![r].todo = @ \ {p}]

CheckGet(r, p) ==
    LET k == SpendKey(p, chk[r].now) IN
    /\ hst[r] = "checking"
    /\ p \in chk[r].todo
    /\ \/ Works /\ spend[k] # Missing /\ Judge(r, k, spend[k])
       \/ /\ Works /\ spend[k] = Missing
          /\ Goto(r, "summing")
          /\ chk' = [chk EXCEPT ![r].key = k]
       \/ Fails /\ Skip(r, p)
    /\ UNCHANGED <<day, stored, spend, ttl, jobVars, budget, edits, cache, lg, resent>>

\* rebuildFromDB takes the time anew.
CheckSum(r) ==
    LET p == chk[r].key[1] IN
    /\ hst[r] = "summing"
    /\ \/ /\ Works
          /\ Goto(r, "setting")
          /\ chk' = [chk EXCEPT ![r].sum = SumSince(Start[p][day])]
       \/ Fails /\ Skip(r, p)
    /\ UNCHANGED <<day, stored, spend, ttl, jobVars, budget, edits, cache, lg, resent>>

\* The outcome of the SET is not looked at; the client may send it again.
CheckSet(r) ==
    LET k == chk[r].key  v == chk[r].sum IN
    /\ hst[r] = "setting"
    /\ \/ Works /\ Put(k, v) /\ Judge(r, k, v)
       \/ Fails /\ UNCHANGED <<spend, ttl>> /\ Judge(r, k, v)
       \/ Fails /\ Put(k, v) /\ UNCHANGED <<hst, chk>>
    /\ UNCHANGED <<day, stored, jobVars, budget, edits, cache, lg, resent>>

Admit(r) ==
    /\ hst[r] = "checking"
    /\ chk[r].todo = {}
    /\ Return(r, "admitted")
    /\ UNCHANGED <<storeVars, jobVars, budget, edits, cache, lg, resent>>

\* The provider answered and the event is in the logger's channel, or there
\* is no event with a cost: Forward failed, no usage, no price, full channel.
Answer(r, st) ==
    /\ hst[r] = "admitted"
    /\ Goto(r, st)
    /\ UNCHANGED <<storeVars, jobVars, budget, edits, cache, chk, lg, resent>>

\* LogDirect, which adds nothing to any counter.
AnswerFailOpen(r) ==
    /\ hst[r] = "failopen"
    /\ Goto(r, "done")
    /\ \/ Works /\ stored' = [stored EXCEPT ![r] = day]
       \/ Fails /\ UNCHANGED stored
    /\ UNCHANGED <<day, spend, ttl, jobVars, budget, edits, cache, chk, lg, resent>>

Handler(r) ==
    \/ PingFails(r)
    \/ LoadBudgets(r)
    \/ BeginCheck(r)
    \/ \E p \in Period : CheckGet(r, p)
    \/ CheckSum(r)
    \/ CheckSet(r)
    \/ Admit(r)
    \/ \E st \in {"pending", "done"} : Answer(r, st)
    \/ AnswerFailOpen(r)

-----------------------------------------------------------------------------
(***************************************************************************)
(* Logger.flush and recordSpend: one event at a time in each proxy.        *)
(***************************************************************************)
AtLog(x, rcd) == lg' = [lg EXCEPT ![x] = rcd]

Insert(x, r) ==
    /\ lg[x] = LogIdle
    /\ hst[r] = "pending" /\ Via[r] = x
    /\ \/ /\ Works
          /\ stored' = [stored EXCEPT ![r] = day]
          /\ AtLog(x, [at |-> "load", event |-> r])
          /\ UNCHANGED hst
       \/ Fails /\ Goto(r, "late") /\ UNCHANGED <<stored, lg>>
    /\ UNCHANGED <<day, spend, ttl, jobVars, budget, edits, cache, chk, resent>>

\* The dead letter queue inserts it later, and adds nothing to any counter.
InsertLate(r) ==
    /\ hst[r] = "late"
    /\ stored' = [stored EXCEPT ![r] = day]
    /\ Goto(r, "done")
    /\ UNCHANGED <<day, spend, ttl, faults, jobVars, budget, edits, cache, chk, lg, resent>>

\* loadBudgets again, for the logger.
RecordLoad(x) ==
    LET e == lg[x].event IN
    /\ lg[x].at = "load"
    /\ \/ /\ cache[x] # NoCache
          /\ AtLog(x, [at |-> "incr", event |-> e, todo |-> Budgeted(cache[x])])
          /\ UNCHANGED faults
       \/ /\ cache[x] = NoCache
          /\ \/ Works /\ AtLog(x, [at |-> "store", event |-> e, limits |-> budget])
             \/ Fails /\ AtLog(x, [at |-> "incr", event |-> e, todo |-> {}])
    /\ UNCHANGED <<day, stored, spend, ttl, jobVars, budget, edits, cache, hst, chk, resent>>

RecordStore(x) ==
    /\ lg[x].at = "store"
    /\ Remember(x, lg[x].limits)
    /\ AtLog(x, [at |-> "incr", event |-> lg[x].event, todo |-> Budgeted(lg[x].limits)])
    /\ UNCHANGED <<storeVars, jobVars, budget, edits, hst, chk, resent>>

\* A deviation used by PROJECT.json only: a period can be counted twice.
RecordSpendAgain(x, p) ==
    /\ lg[x].at = "incr"
    /\ p \in lg[x].todo
    /\ AtLog(x, [at |-> "send", event |-> lg[x].event, todo |-> lg[x].todo,
                 key |-> SpendKey(p, day)])
    /\ UNCHANGED <<storeVars, jobVars, budget, edits, cache, hst, chk, resent>>

\* RecordSpend: the counter of the period that is current now.
RecordSpend(x, p) ==
    /\ lg[x].at = "incr"
    /\ p \in lg[x].todo
    /\ AtLog(x, [at |-> "send", event |-> lg[x].event, todo |-> lg[x].todo \ {p},
                 key |-> SpendKey(p, day)])
    /\ UNCHANGED <<storeVars, jobVars, budget, edits, cache, hst, chk, resent>>

\* The period is dealt with.
NextPeriod(x) == AtLog(x, [at |-> "incr", event |-> lg[x].event, todo |-> lg[x].todo])

\* INCRBYFLOAT.  If its answer is lost, the client sends it again or gives up.
RecordIncr(x) ==
    LET k == lg[x].key  c == Cost[lg[x].event] IN
    /\ lg[x].at = "send"
    /\ \/ Works /\ IncrBy(k, c) /\ lg' = [lg EXCEPT ![x].at = "ttl"] /\ UNCHANGED resent
       \/ Fails /\ UNCHANGED <<spend, ttl>> /\ NextPeriod(x) /\ UNCHANGED resent
       \/ Fails /\ IncrBy(k, c) /\ NextPeriod(x) /\ UNCHANGED resent
       \/ Fails /\ IncrBy(k, c) /\ UNCHANGED lg /\ resent' = resent + 1
    /\ UNCHANGED <<day, stored, jobVars, budget, edits, cache, hst, chk>>

\* An error counts as an expiry.
RecordTTL(x) ==
    /\ lg[x].at = "ttl"
    /\ \/ /\ Works
          /\ IF lg[x].key \in ttl THEN NextPeriod(x)
             ELSE lg' = [lg EXCEPT ![x].at = "expire"]
       \/ Fails /\ NextPeriod(x)
    /\ UNCHANGED <<day, stored, spend, ttl, jobVars, budget, edits, cache, hst, chk, resent>>

RecordExpire(x) ==
    /\ lg[x].at = "expire"
    /\ \/ Works /\ Expire(lg[x].key)
       \/ Fails /\ UNCHANGED <<spend, ttl>>
    /\ NextPeriod(x)
    /\ UNCHANGED <<day, stored, jobVars, budget, edits, cache, hst, chk, resent>>

RecordEnd(x) ==
    /\ lg[x].at = "incr"
    /\ lg[x].todo = {}
    /\ Goto(lg[x].event, "done")
    /\ AtLog(x, LogIdle)
    /\ UNCHANGED <<storeVars, jobVars, budget, edits, cache, chk, resent>>

Logger(x) ==
    \/ \E r \in Event : Insert(x, r)
    \/ RecordLoad(x)
    \/ RecordStore(x)
    \/ \E p \in Period : RecordSpend(x, p)
    \/ RecordIncr(x)
    \/ RecordTTL(x)
    \/ RecordExpire(x)
    \/ RecordEnd(x)

-----------------------------------------------------------------------------
\* Two minutes pass.
CacheExpires(x) ==
    /\ cache[x] # NoCache
    /\ cache' = [cache EXCEPT ![x] = NoCache]
    /\ UNCHANGED <<storeVars, jobVars, budget, edits, hst, chk, lg, resent>>

\* A proxy ends and is started again: requests, cache, channel and retry queue
\* are gone, and what the logger had still to do is not done.
EndProxy(x) ==
    LET lost == {e \in Event : Via[e] = x /\ hst[e] \notin {"new", "blocked"}} IN
    /\ Fails
    /\ hst' = [e \in Event |-> IF e \in lost THEN "done" ELSE hst[e]]
    /\ chk' = [e \in Event |-> IF e \in lost THEN NoCheck ELSE chk[e]]
    /\ lg' = [lg EXCEPT ![x] = LogIdle]
    /\ cache' = [cache EXCEPT ![x] = NoCache]
    /\ UNCHANGED <<day, stored, spend, ttl, jobVars, budget, edits, resent>>

\* BudgetHandler.Upsert and Delete, in the API process: no proxy is told.
SetBudget(p, limit) ==
    /\ edits < MaxEdits
    /\ edits' = edits + 1
    /\ budget' = [budget EXCEPT ![p] = limit]
    /\ UNCHANGED <<storeVars, jobVars, cache, hst, chk, lg, resent>>

Upsert(p, amount, hard) == SetBudget(p, [amount |-> amount, hard |-> hard])
Delete(p) == SetBudget(p, NoLimit)

Api ==
    \E p \in Period :
        \/ \E a \in Amount, h \in BOOLEAN : Upsert(p, a, h)
        \/ Delete(p)

Next ==
    \/ \E r \in Event : Handler(r) \/ InsertLate(r)
    \/ \E x \in Proxy : Logger(x) \/ CacheExpires(x) \/ EndProxy(x)
    \/ Api
    \/ Jobs /\ UNCHANGED proxyVars
    \/ Environment /\ UNCHANGED <<jobVars, proxyVars>>

Spec == Init /\ [][Next]_vars

(***************************************************************************)
(* The reconciliation loop runs for ever and visits every period in each   *)
(* round, which the strong fairness of each period's start stands for; no  *)
(* other process has to make progress.                                     *)
(***************************************************************************)
FairSpec ==
    /\ Spec
    /\ WF_vars((ReconcileGet \/ ReconcileSum \/ ReconcileSet) /\ UNCHANGED proxyVars)
    /\ \A p \in Period : SF_vars(ReconcileStart(p) /\ UNCHANGED proxyVars)

-----------------------------------------------------------------------------
(***************************************************************************)
(* Properties.                                                             *)
(***************************************************************************)
TypeOK == StoreTypeOK /\ JobsTypeOK /\ BudgetTypeOK

MaxCost == Max({Cost[e] : e \in Event})
Slack == (Cardinality(Proxy) + resent) * MaxCost

\* A counter exceeds the spending on record by at most one event per proxy and
\* one for each increment that the Redis client sent again after a lost answer,
\* whatever interleaving of rebuilds, corrections, increments, midnights, lost
\* data and ends of proxies: only the event a logger has inserted and not yet
\* counted can be counted twice (proxy/logger.go:71-76, proxy/budget.go:80-94,
\* 137-151).
OvercountBounded ==
    \A k \in Key : spend[k] # Missing => spend[k] <= SumSince(k[2]) + Slack

\* So no request is refused while the spending on record is further than that
\* below a hard limit the check had loaded, and none is refused for the spending
\* of a past period (proxy/budget.go:63-76).
RefusedNearLimitOnly ==
    [][\A r \in Event : hst[r] # "blocked" /\ hst'[r] = "blocked" =>
        \E p \in Period :
            /\ chk[r].limits[p].hard
            /\ SumSince(Start[p][chk[r].now]) + Slack >= chk[r].limits[p].amount]_vars

\* A counter without an expiry that no logger is about to give one.
Orphans == {k \in Key : spend[k] # Missing /\ k \notin ttl
              /\ ~\E x \in Proxy : lg[x].at \in {"send", "ttl", "expire"} /\ lg[x].key = k}

\* A counter has an expiry from its first SET or from the EXPIRE that follows its
\* first increment.  A failed call, a lost answer and a proxy that ends between
\* the two commands leave one counter each without, and nothing else does
\* (proxy/budget.go:85-93, 149, internal/jobs/reconcile.go:69-70).
CountersExpire == Cardinality(Orphans) <= faults

\* A current counter is never removed but by a Redis that lost its data or by a
\* sweep that was overtaken by a midnight, which compares keys with the day on
\* which it began: "current day and current month keys are preserved" of every
\* other one (internal/jobs/ttlsweep.go:33-63).
CurrentKept ==
    [][\A k \in Key : Current(k) /\ spend[k] # Missing /\ spend'[k] = Missing =>
        faults' > faults \/ (sweep # 0 /\ sweep < day)]_vars

\* When requests, faults and midnights come to an end, the reconciliation
\* brings every current counter to within 5 % of the spending on record,
\* whatever was lost or counted twice before; a counter without any spending on
\* record is left alone (internal/jobs/reconcile.go:39-75).
CountersConverge ==
    <>[](\A k \in Key : Current(k) /\ spend[k] # Missing /\ SumSince(k[2]) > 0
            => ~Drifted(spend[k], SumSince(k[2])))

\* design.md:44: a project may exceed its budget "by the cost of concurrent
\* in-flight requests".  A check without any failed call, at a limit reached by
\* events that were dealt with before it began, must not admit.  Fails.
OvershootInFlightOnly ==
    [][\A r \in Event :
        hst[r] = "checking" /\ hst'[r] = "admitted" =>
            \A p \in Period : chk[r].limits[p].hard =>
                CostOf({e \in chk[r].seen : stored[e] >= Start[p][chk[r].now]})
                    < chk[r].limits[p].amount]_vars
=============================================================================
