------------------------------ MODULE RateLimit ------------------------------
(***************************************************************************)
(* IPRateLimit (api/middleware.go): a limiter per address, from a map that *)
(* a goroutine clears of the addresses it has not seen for a while.  Time  *)
(* passes in ticks.  A token takes Refill ticks to come back, and a        *)
(* limiter is kept as the ticks it has gathered, of which a token costs    *)
(* Refill.                                                                 *)
(***************************************************************************)
EXTENDS Integers

CONSTANTS
    Ip,       \* addresses
    NoIp,     \* no request
    Req,      \* concurrent requests
    Lim,      \* limiter objects
    NoLim,    \* no entry in the map
    Burst,    \* tokens of a full limiter
    Refill,   \* ticks per token
    Cleanup,  \* cleanupInterval
    MaxStall  \* longest time between limiterFor and Allow

\* What a limiter holds at most.
Full == Burst * Refill

\* NewServer passes one minute as the interval, and a limiter is full again
\* after one minute: an entry is evicted after two.
ASSUME RateAssumption ==
    /\ NoIp \notin Ip /\ NoLim \notin Lim
    /\ Burst \in Nat \ {0} /\ Refill \in Nat \ {0}
    /\ Cleanup \in Nat \ {0} /\ MaxStall \in Nat
    /\ Full + MaxStall <= 2 * Cleanup

VARIABLES
    visitors,  \* [Ip -> [lim, age]]: the map; age is the time since lastSeen
    level,     \* [Lim -> ticks gathered]
    call,      \* [Req -> [ip, lim, age]]: between limiterFor and Allow
    sweepIn,   \* ticks until the next sweep
    debt       \* history: [Ip -> how far the cost of the requests let through in
               \* any period that ends now exceeds its length and a burst for
               \* each restart in it, at most]

rateVars == <<visitors, level, call, sweepIn, debt>>

NoEntry == [lim |-> NoLim, age |-> 0]
Idle == [ip |-> NoIp, lim |-> NoLim, age |-> 0]

RateTypeOK ==
    /\ visitors \in [Ip -> [lim : Lim, age : 0 .. 2 * Cleanup + 1] \cup {NoEntry}]
    /\ level \in [Lim -> 0 .. Full]
    /\ call \in [Req -> [ip : Ip, lim : Lim, age : 0 .. MaxStall] \cup {Idle}]
    /\ sweepIn \in 0 .. Cleanup
    /\ debt \in [Ip -> Nat]

RateInit ==
    /\ visitors = [ip \in Ip |-> NoEntry]
    /\ level = [l \in Lim |-> Full]
    /\ call = [r \in Req |-> Idle]
    /\ sweepIn = Cleanup
    /\ debt = [ip \in Ip |-> 0]

-----------------------------------------------------------------------------
UpTo(n, most) == IF n < most THEN n + 1 ELSE most
Less(n, k) == IF n > k THEN n - k ELSE 0

InUse == {visitors[ip].lim : ip \in Ip} \cup {call[r].lim : r \in Req}

\* A deviation used by PROJECT.json only: a new limiter has one token.
LimiterForEmpty(r, ip) ==
    /\ call[r] = Idle
    /\ \E l \in Lim :
          /\ IF visitors[ip] = NoEntry
             THEN l \notin InUse /\ level' = [level EXCEPT ![l] = Refill]
             ELSE l = visitors[ip].lim /\ UNCHANGED level
          /\ visitors' = [visitors EXCEPT ![ip] = [lim |-> l, age |-> 0]]
          /\ call' = [call EXCEPT ![r] = [ip |-> ip, lim |-> l, age |-> 0]]
    /\ UNCHANGED <<sweepIn, debt>>

\* A deviation used by PROJECT.json only: an entry is only seen when it is made.
LimiterForUnseen(r, ip) ==
    /\ call[r] = Idle
    /\ \E l \in Lim :
          /\ IF visitors[ip] = NoEntry
             THEN /\ l \notin InUse /\ level' = [level EXCEPT ![l] = Full]
                  /\ visitors' = [visitors EXCEPT ![ip] = [lim |-> l, age |-> 0]]
             ELSE l = visitors[ip].lim /\ UNCHANGED <<level, visitors>>
          /\ call' = [call EXCEPT ![r] = [ip |-> ip, lim |-> l, age |-> 0]]
    /\ UNCHANGED <<sweepIn, debt>>

\* The entry of the address, or a new one with a full limiter, is seen now.
LimiterFor(r, ip) ==
    /\ call[r] = Idle
    /\ \E l \in Lim :
          /\ IF visitors[ip] = NoEntry
             THEN l \notin InUse /\ level' = [level EXCEPT ![l] = Full]
             ELSE l = visitors[ip].lim /\ UNCHANGED level
          /\ visitors' = [visitors EXCEPT ![ip] = [lim |-> l, age |-> 0]]
          /\ call' = [call EXCEPT ![r] = [ip |-> ip, lim |-> l, age |-> 0]]
    /\ UNCHANGED <<sweepIn, debt>>

\* A deviation used by PROJECT.json only: the level is not looked at.
AllowUnchecked(r) ==
    /\ call[r] # Idle
    /\ level' = [level EXCEPT ![call[r].lim] = @ - Refill]
    /\ debt' = [debt EXCEPT ![call[r].ip] = @ + Refill]
    /\ call' = [call EXCEPT ![r] = Idle]
    /\ UNCHANGED <<visitors, sweepIn>>

\* A request that finds a token takes it, and the others are refused.
Allow(r) ==
    /\ call[r] # Idle
    /\ LET l == call[r].lim  ip == call[r].ip IN
       IF level[l] >= Refill
       THEN /\ level' = [level EXCEPT ![l] = @ - Refill]
            /\ debt' = [debt EXCEPT ![ip] = @ + Refill]
       ELSE UNCHANGED <<level, debt>>
    /\ call' = [call EXCEPT ![r] = Idle]
    /\ UNCHANGED <<visitors, sweepIn>>

\* A deviation used by PROJECT.json only: entries go after one interval.
SweepEarly ==
    /\ sweepIn = 0
    /\ sweepIn' = Cleanup
    /\ visitors' = [ip \in Ip |-> IF visitors[ip].age > Cleanup THEN NoEntry
                                  ELSE visitors[ip]]
    /\ UNCHANGED <<level, call, debt>>

SweepDue ==
    /\ sweepIn = 0
    /\ sweepIn' = Cleanup
    /\ visitors' = [ip \in Ip |-> IF visitors[ip].age > 2 * Cleanup THEN NoEntry
                                  ELSE visitors[ip]]
    /\ UNCHANGED <<level, call, debt>>

Tick ==
    /\ sweepIn > 0
    /\ \A r \in Req : call[r] # Idle => call[r].age < MaxStall
    /\ sweepIn' = sweepIn - 1
    /\ visitors' = [ip \in Ip |->
          IF visitors[ip] = NoEntry THEN NoEntry
          ELSE [visitors[ip] EXCEPT !.age = UpTo(@, 2 * Cleanup + 1)]]
    /\ level' = [l \in Lim |-> UpTo(level[l], Full)]
    /\ call' = [r \in Req |-> IF call[r] = Idle THEN Idle
                              ELSE [call[r] EXCEPT !.age = @ + 1]]
    /\ debt' = [ip \in Ip |-> Less(debt[ip], 1)]

\* Another process begins with an empty map.  A period that goes on over the
\* restart is still counted but may hold one more burst, so the largest excess of
\* any period falls by a burst, or to nought, that of a period that begins now.
ForgetLimiters ==
    /\ visitors' = [ip \in Ip |-> NoEntry]
    /\ level' = [l \in Lim |-> Full]
    /\ call' = [r \in Req |-> Idle]
    /\ sweepIn' = Cleanup
    /\ debt' = [ip \in Ip |-> Less(debt[ip], Full)]

RateNext ==
    \/ \E r \in Req : Allow(r) \/ \E ip \in Ip : LimiterFor(r, ip)
    \/ SweepDue
    \/ Tick

-----------------------------------------------------------------------------
(***************************************************************************)
(* Properties.                                                             *)
(***************************************************************************)
\* "10 req/min burst=10 per IP" (api/server.go:28): in no period does an address
\* get more than a burst, the refill of the period and one more burst for each
\* restart of the process in it; that its limiter is thrown away and made anew
\* with all tokens gives it nothing (api/middleware.go:119-143).
RateHolds == \A ip \in Ip : debt[ip] <= Full

\* And it is refused only if one more request would be more than that in some
\* period that ends now.
RefusedAtLimitOnly ==
    \A r \in Req : call[r] # Idle /\ level[call[r].lim] < Refill
                     => debt[call[r].ip] + Refill > Full
=============================================================================
