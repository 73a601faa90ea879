----------------------------- MODULE SpendStore -----------------------------
(***************************************************************************)
(* The two stores that know what a project spent: the cost_usd column of   *)
(* usage_events in Postgres, the source of truth, and the spend counters   *)
(* in Redis, one key per budget period (internal/budget/keys.go).  One     *)
(* project is modelled; projects share no key and no row.                  *)
(*                                                                         *)
(* A day stands for whatever a period can change at; a period starts on    *)
(* the day Start gives.  MaxFaults times in a behaviour a fault happens: a *)
(* call to a store fails or its answer is lost, Redis loses its data, or a *)
(* proxy ends.  A write to Redis whose answer is lost has its effect, and  *)
(* the client may send it once more by itself (redis.ParseURL leaves       *)
(* MaxRetries at 3).                                                       *)
(***************************************************************************)
EXTENDS Integers, FiniteSets, FiniteSetsExt

CONSTANTS
    Event,     \* usage events with a cost
    Cost,      \* [Event -> cost_usd]
    Period,    \* budget periods, "daily" and "monthly"
    MaxDay,    \* bound: days modelled
    Start,     \* [Period -> [Day -> Day]]: first day of the period of a day
    MaxFaults  \* bound: failed calls, losses of Redis' data, ends of a proxy

Day == 1 .. MaxDay

ASSUME SpendAssumption ==
    /\ IsFiniteSet(Event) /\ Event # {} /\ IsFiniteSet(Period) /\ Period # {}
    /\ MaxDay \in Nat \ {0}
    /\ MaxFaults \in Nat
    /\ Cost \in [Event -> Nat \ {0}]
    /\ Start \in [Period -> [Day -> Day]]
    /\ \A p \in Period, d \in Day :
         /\ Start[p][d] <= d
         /\ Start[p][Start[p][d]] = Start[p][d]
         /\ \A c \in Day : Start[p][d] <= c /\ c <= d => Start[p][c] = Start[p][d]

VARIABLES
    day,     \* now
    stored,  \* [Event -> 0 or the day of created_at]
    spend,   \* [Key -> Nat, or Missing]
    ttl,     \* keys that have an expiry
    faults   \* faults so far

storeVars == <<day, stored, spend, ttl, faults>>

Missing == -1

\* A deviation used by PROJECT.json only: a key that no midnight changes.
SpendKeyFixed(p, d) == <<p, 1>>

\* SpendKey: the counter of a period is named by the period's first day.
Key == {k \in Period \X Day : Start[k[1]][k[2]] = k[2]}
SpendKey(p, d) == <<p, Start[p][d]>>
Current(k) == k = SpendKey(k[1], day)

\* SELECT COALESCE(SUM(cost_usd), 0) ... WHERE created_at >= the day.
CostOf(S) == MapThenSumSet(LAMBDA e : Cost[e], S)
SumSince(d) == CostOf({e \in Event : stored[e] >= d})

StoreTypeOK ==
    /\ day \in Day
    /\ stored \in [Event -> 0 .. MaxDay]
    /\ spend \in [Key -> Nat \cup {Missing}]
    /\ ttl \subseteq {k \in Key : spend[k] # Missing}
    /\ faults \in 0 .. MaxFaults

StoreInit ==
    /\ day = 1
    /\ stored = [e \in Event |-> 0]
    /\ spend = [k \in Key |-> Missing]
    /\ ttl = {}
    /\ faults = 0

\* A call answers, or it fails or its answer is lost.
Works == UNCHANGED faults
Fails == faults < MaxFaults /\ faults' = faults + 1

(***************************************************************************)
(* Redis commands.  SET with SpendKeyTTL gives an expiry (it is positive   *)
(* at every instant, internal/budget/keys.go:28-40); INCRBYFLOAT keeps the *)
(* expiry and makes a key without one.                                     *)
(***************************************************************************)
Put(k, v) ==
    /\ spend' = [spend EXCEPT ![k] = v]
    /\ ttl' = ttl \cup {k}

IncrBy(k, c) ==
    /\ spend' = [spend EXCEPT ![k] = IF @ = Missing THEN c ELSE @ + c]
    /\ UNCHANGED ttl

Del(k) ==
    /\ spend' = [spend EXCEPT ![k] = Missing]
    /\ ttl' = ttl \ {k}

Expire(k) ==
    /\ ttl' = IF spend[k] = Missing THEN ttl ELSE ttl \cup {k}
    /\ UNCHANGED spend

\* A Redis that lost its data answers again, empty (a cold start).
RedisColdStart ==
    /\ Fails
    /\ spend' = [k \in Key |-> Missing]
    /\ ttl' = {}
    /\ UNCHANGED <<day, stored>>

\* An expiry only runs out after the key's period is over.
KeyExpires(k) ==
    /\ k \in ttl
    /\ ~Current(k)
    /\ Del(k)
    /\ UNCHANGED <<day, stored, faults>>

Midnight ==
    /\ day < MaxDay
    /\ day' = day + 1
    /\ UNCHANGED <<stored, spend, ttl, faults>>

Environment ==
    \/ RedisColdStart
    \/ \E k \in Key : KeyExpires(k)
    \/ Midnight
=============================================================================
