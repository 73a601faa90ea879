---------------------------- MODULE TokenBuckets -----------------------------
(***************************************************************************)
(* What the rate limit promises to an address, without map, limiters and   *)
(* eviction: one bucket for each address, there from the start and never   *)
(* thrown away, decides every request by itself.  A bucket fills token by  *)
(* token, and at once only when the process ends.                          *)
(***************************************************************************)
EXTENDS Naturals

CONSTANTS
    Ip,      \* addresses
    NoIp,    \* no request
    Req,     \* concurrent requests
    Burst,   \* tokens of a full bucket
    Refill   \* ticks per token

VARIABLES
    bucket,  \* [Ip -> ticks gathered, Refill of them a token]
    asking,  \* [Req -> Ip, or NoIp]
    up       \* the process runs

bucketVars == <<bucket, asking, up>>

Most == Burst * Refill

AllFull ==
    /\ bucket = [ip \in Ip |-> Most]
    /\ asking = [r \in Req |-> NoIp]

Ask(r, ip) ==
    /\ up
    /\ asking[r] = NoIp
    /\ asking' = [asking EXCEPT ![r] = ip]
    /\ UNCHANGED <<bucket, up>>

Grant(r, ip) ==
    /\ up
    /\ asking[r] = ip
    /\ bucket[ip] >= Refill
    /\ bucket' = [bucket EXCEPT ![ip] = @ - Refill]
    /\ asking' = [asking EXCEPT ![r] = NoIp]
    /\ UNCHANGED up

Deny(r, ip) ==
    /\ up
    /\ asking[r] = ip
    /\ bucket[ip] < Refill
    /\ asking' = [asking EXCEPT ![r] = NoIp]
    /\ UNCHANGED <<bucket, up>>

Gather ==
    /\ up
    /\ bucket' = [ip \in Ip |-> IF bucket[ip] < Most THEN bucket[ip] + 1 ELSE Most]
    /\ UNCHANGED <<asking, up>>

\* The process ends, and with it what the addresses have used and ask for.
End == up /\ up' = FALSE /\ AllFull'

Begin == ~up /\ up' = TRUE /\ UNCHANGED <<bucket, asking>>

BucketNext ==
    \/ \E r \in Req, ip \in Ip : Ask(r, ip) \/ Grant(r, ip) \/ Deny(r, ip)
    \/ Gather
    \/ End
    \/ Begin

BucketSpec == AllFull /\ up = TRUE /\ [][BucketNext]_bucketVars
=============================================================================
