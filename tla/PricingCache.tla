---------------------------- MODULE PricingCache -----------------------------
(***************************************************************************)
(* The price of a model on its way from LiteLLM to an event: the daily     *)
(* RunPricingSync of the API process (internal/jobs/pricingsync.go), the   *)
(* table model_pricing, and the cache of lookupPricing in a proxy          *)
(* (proxy/handler.go).  One model is modelled: models share no row and no  *)
(* cache key.  Calls to Postgres and to the price lists are one action     *)
(* each.  Time passes in ticks, and is kept as what is left or has gone    *)
(* by.  MaxSync and MaxDelay are assumptions on how long a sync and a      *)
(* lookup take: no deadline of the code covers their queries.              *)
(***************************************************************************)
EXTENDS Integers

CONSTANTS
    Price,       \* prices
    NoPrice,     \* no row; not listed; "not found"
    Req,         \* lookups that can run concurrently in the proxy
    TTL,         \* pricingCacheTTL
    Cycle,       \* the period of the ticker of the sync
    MaxDelay,    \* longest duration of a lookup
    MaxSync,     \* longest duration of a sync
    MaxChanges,  \* bound: changes of LiteLLM's quote and overrides
    MaxFaults    \* bound: failed calls and restarts of the API process

Quote == Price \cup {NoPrice}

ASSUME PricingAssumption ==
    /\ NoPrice \notin Price
    /\ TTL \in Nat \ {0} /\ MaxDelay \in Nat /\ MaxSync \in Nat
    /\ Cycle \in Nat /\ Cycle > MaxSync
    /\ MaxChanges \in Nat /\ MaxFaults \in Nat

VARIABLES
    quote,   \* what LiteLLM lists
    row,     \* [price, manual]: the row of model_pricing
    sync,    \* the sync: its place and local variables
    due,     \* ticks until the sync has to start
    fresh,   \* no sync has ended since the process started: no ticker yet
    cache,   \* [price, left]: h.pricingCache, and the ticks until it ends
    look,    \* [Req -> place and local variables of lookupPricing]
    changes, faults,
    pin,     \* history: the last manual price, or NoPrice
    calm,    \* history: ticks since the price in force changed or a lookup's
             \* query failed, up to Calm
    settled  \* history: ticks since the quote changed, or a sync or a lookup
             \* failed, up to Settled

tableVars == <<quote, row, changes, pin>>
syncVars == <<sync, due, fresh>>
lookVars == <<cache, look>>
history == <<calm, settled>>
priceVars == <<tableVars, syncVars, lookVars, faults, history>>

NoRow == [price |-> NoPrice, manual |-> FALSE]
Asleep == [at |-> "asleep"]
Idle == [at |-> "idle"]
NoEntry == [price |-> NoPrice, left |-> 0]

\* How long an old price can live on: in the cache and a lookup; and, if it is
\* the quote that changed, in the table and a sync before.
Calm == TTL + MaxDelay
Settled == Cycle + 2 * MaxSync + Calm

PriceTypeOK ==
    /\ quote \in Quote
    /\ row \in [price : Price, manual : BOOLEAN] \cup {NoRow}
    /\ sync \in {Asleep} \cup [at : {"fetch", "second"}, age : 0 .. MaxSync]
                  \cup [at : {"upsert"}, age : 0 .. MaxSync, price : Price]
    /\ due \in 0 .. Cycle /\ fresh \in BOOLEAN
    /\ cache \in [price : Quote, left : 0 .. TTL]
    /\ look \in [Req -> {Idle} \cup [at : {"query"}, age : 0 .. MaxDelay]
                        \cup [at : {"store"}, age : 0 .. MaxDelay, price : Quote]]
    /\ changes \in 0 .. MaxChanges /\ faults \in 0 .. MaxFaults
    /\ pin \in Quote
    /\ calm \in 0 .. Calm /\ settled \in 0 .. Settled

PriceInit ==
    /\ quote \in Price
    /\ \E p \in Quote : row = [price |-> p, manual |-> FALSE]
    /\ sync = Asleep /\ due = 0 /\ fresh = TRUE
    /\ cache = NoEntry
    /\ look = [r \in Req |-> Idle]
    /\ changes = 0 /\ faults = 0
    /\ pin = NoPrice /\ calm = 0 /\ settled = 0

Works == UNCHANGED faults
Fails == faults < MaxFaults /\ faults' = faults + 1

-----------------------------------------------------------------------------
(***************************************************************************)
(* The table, the price list, and an operator who sets a price by hand.    *)
(***************************************************************************)
WriteRow(p, manual) ==
    /\ row' = [price |-> p, manual |-> manual]
    /\ calm' = IF p = row.price THEN calm ELSE 0

Change == changes < MaxChanges /\ changes' = changes + 1

Requote(q) ==
    /\ Change
    /\ q # quote
    /\ quote' = q
    /\ settled' = 0
    /\ UNCHANGED <<row, pin, syncVars, lookVars, faults, calm>>

Override(p) ==
    /\ Change
    /\ row' = [price |-> p, manual |-> TRUE]
    /\ pin' = p
    /\ calm' = 0
    /\ UNCHANGED <<quote, syncVars, lookVars, faults, settled>>

-----------------------------------------------------------------------------
(***************************************************************************)
(* RunPricingSync, and its loop in jobs.Start: once at the start, then at  *)
(* the ticks of a ticker that is made when the first sync has ended.       *)
(***************************************************************************)
SyncGoto(st) == sync' = st /\ UNCHANGED <<due, fresh>>
SyncEnds ==
    /\ sync' = Asleep
    /\ fresh' = FALSE
    /\ due' = IF fresh THEN Cycle ELSE due

SyncStarts ==
    /\ sync = Asleep
    /\ due = 0
    /\ sync' = [at |-> "fetch", age |-> 0]
    /\ due' = IF fresh THEN 0 ELSE Cycle
    /\ UNCHANGED <<tableVars, fresh, lookVars, faults, history>>

\* The list of LiteLLM, as of now.  Without it OpenRouter is not asked either.
SyncFetch ==
    /\ sync.at = "fetch"
    /\ \/ /\ Works
          /\ SyncGoto(IF quote = NoPrice THEN [at |-> "second", age |-> sync.age]
                      ELSE [at |-> "upsert", age |-> sync.age, price |-> quote])
          /\ UNCHANGED settled
       \/ Fails /\ SyncEnds /\ settled' = 0
    /\ UNCHANGED <<tableVars, lookVars, calm>>

\* Deviations used by PROJECT.json only: manual prices are overwritten; prices
\* that exist are not updated.
SyncUpsertAlways ==
    /\ sync.at = "upsert"
    /\ SyncGoto([at |-> "second", age |-> sync.age])
    /\ Works /\ WriteRow(sync.price, row.manual)
    /\ UNCHANGED <<quote, changes, pin, lookVars, settled>>

SyncUpsertNew ==
    /\ sync.at = "upsert"
    /\ SyncGoto([at |-> "second", age |-> sync.age])
    /\ Works
    /\ IF row = NoRow THEN WriteRow(sync.price, FALSE) ELSE UNCHANGED <<row, calm>>
    /\ UNCHANGED <<quote, changes, pin, lookVars, settled>>

\* INSERT ... ON CONFLICT DO UPDATE ... WHERE manual_override = false.  An
\* error is ignored.
SyncUpsert ==
    /\ sync.at = "upsert"
    /\ SyncGoto([at |-> "second", age |-> sync.age])
    /\ \/ /\ Works
          /\ IF row.manual THEN UNCHANGED <<row, calm>> ELSE WriteRow(sync.price, FALSE)
          /\ UNCHANGED settled
       \/ Fails /\ settled' = 0 /\ UNCHANGED <<row, calm>>
    /\ UNCHANGED <<quote, changes, pin, lookVars>>

\* OpenRouter lists the model at any price or not at all, cannot be reached, or
\* its INSERT ... ON CONFLICT DO NOTHING fails.
SyncSecond(p) ==
    /\ sync.at = "second"
    /\ IF row = NoRow /\ p # NoPrice THEN WriteRow(p, FALSE) ELSE UNCHANGED <<row, calm>>
    /\ SyncEnds
    /\ UNCHANGED <<quote, changes, pin, lookVars, faults, settled>>

\* The API process is killed and started again.
RestartApi ==
    /\ Fails
    /\ sync' = Asleep
    /\ due' = 0
    /\ fresh' = TRUE
    /\ settled' = 0
    /\ UNCHANGED <<tableVars, lookVars, calm>>

Sync == SyncStarts \/ SyncFetch \/ SyncUpsert \/ \E p \in Quote : SyncSecond(p)

-----------------------------------------------------------------------------
(***************************************************************************)
(* lookupPricing.                                                          *)
(***************************************************************************)
Goto(r, st) == look' = [look EXCEPT ![r] = st]

\* Ends at once if the cache has an entry.
Lookup(r) ==
    /\ look[r] = Idle
    /\ IF cache.left > 0 THEN UNCHANGED look ELSE Goto(r, [at |-> "query", age |-> 0])
    /\ UNCHANGED <<tableVars, syncVars, cache, faults, history>>

\* The query runs under the context of the request.  Any error, a client that
\* left included, is taken for "not found".
Query(r) ==
    /\ look[r].at = "query"
    /\ \/ /\ Works
          /\ Goto(r, [at |-> "store", age |-> look[r].age, price |-> row.price])
          /\ UNCHANGED history
       \/ /\ Fails
          /\ Goto(r, [at |-> "store", age |-> look[r].age, price |-> NoPrice])
          /\ calm' = 0 /\ settled' = 0
    /\ UNCHANGED <<tableVars, syncVars, cache>>

Store(r) ==
    /\ look[r].at = "store"
    /\ cache' = [price |-> look[r].price, left |-> TTL]
    /\ Goto(r, Idle)
    /\ UNCHANGED <<tableVars, syncVars, faults, history>>

-----------------------------------------------------------------------------
UpTo(n, most) == IF n < most THEN n + 1 ELSE most
Down(n) == IF n > 0 THEN n - 1 ELSE 0

\* A sync that is due starts, and what runs ends in time.
Tick ==
    /\ IF sync = Asleep THEN due > 0 ELSE sync.age < MaxSync
    /\ \A r \in Req : look[r] # Idle => look[r].age < MaxDelay
    /\ sync' = IF sync = Asleep THEN Asleep ELSE [sync EXCEPT !.age = @ + 1]
    /\ due' = Down(due)
    /\ look' = [r \in Req |-> IF look[r] = Idle THEN Idle
                              ELSE [look[r] EXCEPT !.age = @ + 1]]
    /\ cache' = [cache EXCEPT !.left = Down(@)]
    /\ calm' = UpTo(calm, Calm) /\ settled' = UpTo(settled, Settled)
    /\ UNCHANGED <<tableVars, fresh, faults>>

PriceNext ==
    \/ \E q \in Quote : Requote(q)
    \/ \E p \in Price : Override(p)
    \/ Sync
    \/ RestartApi
    \/ \E r \in Req : Query(r) \/ Store(r)
    \/ Tick

-----------------------------------------------------------------------------
(***************************************************************************)
(* Properties.                                                             *)
(***************************************************************************)
\* The prices a lookup can return at this moment.
Answers ==
    {look[r].price : r \in {s \in Req : look[s].at = "store"}}
        \cup (IF cache.left > 0 THEN {cache.price} ELSE {})

\* A price set by hand, or else the one of the table.
InForce == IF pin # NoPrice THEN pin ELSE row.price

\* Events are charged at the price in force as soon as that price is older than
\* a lifetime of the cache and a lookup, however syncs, overrides, lookups and
\* stores interleave; a query that failed, or was cut off by a client that left,
\* withholds the price from all events for as long, and no longer
\* (proxy/handler.go:149-176, internal/jobs/pricingsync.go:99-106).
PriceInForce == calm = Calm => Answers \subseteq {InForce}

\* "Staleness is bounded to at most two cycles" (proxy/handler.go:153-155): a
\* sync and the cache each add a cycle and their own durations, and a failure
\* starts the count anew.
TwoCycles ==
    settled = Settled /\ pin = NoPrice /\ quote # NoPrice => Answers \subseteq {quote}
=============================================================================
