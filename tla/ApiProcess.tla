----------------------------- MODULE ApiProcess ------------------------------
(***************************************************************************)
(* The API process (cmd/api/main.go): its servers, here the rate limiter,  *)
(* and its jobs, here the partitions, live and die together.  A restart    *)
(* empties the limiters and runs the job again.  The two have clocks of    *)
(* their own: ticks are seconds and days are days.                         *)
(***************************************************************************)
EXTENDS RateLimit, Partitions

vars == <<rateVars, partVars>>

TypeOK == RateTypeOK /\ PartTypeOK

Init == RateInit /\ PartInit

Kill == KillJob /\ ForgetLimiters

Start == StartJob /\ UNCHANGED rateVars

Next ==
    \/ job # Stopped /\ RateNext /\ UNCHANGED partVars
    \/ PartNext /\ UNCHANGED rateVars
    \/ Kill
    \/ Start

Spec == Init /\ [][Next]_vars

-----------------------------------------------------------------------------
(***************************************************************************)
(* Properties.                                                             *)
(***************************************************************************)
\* An address without an entry has a full bucket.
Bucket(ip) == IF visitors[ip] = NoEntry THEN Full ELSE level[visitors[ip].lim]

Buckets == INSTANCE TokenBuckets WITH
    bucket <- [ip \in Ip |-> Bucket(ip)], asking <- [r \in Req |-> call[r].ip],
    up <- job # Stopped

\* Nobody can tell that limiters are shared by concurrent requests, evicted and
\* made anew: each address is granted and refused as by one bucket of its own
\* that lives as long as the process, and only the end of the process fills it
\* at once (api/middleware.go:117-161).
KeepsBuckets == Buckets!BucketSpec
=============================================================================
