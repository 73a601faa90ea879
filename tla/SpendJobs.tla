----------------------------- MODULE SpendJobs ------------------------------
(***************************************************************************)
(* The background jobs that touch the spend counters: RunReconcile, every  *)
(* 60 seconds, and RunTTLSweep, at start and every 24 hours.  They run in  *)
(* the API process, concurrently with the proxies.  Each Redis command and *)
(* each query is one action.  A round of the reconciliation is modelled    *)
(* period by period, with the time its loop captured.                      *)
(***************************************************************************)
EXTENDS SpendStore

VARIABLES
    rec,   \* the reconciliation: its place and its local variables
    sweep  \* the day a running sweep took for today; 0 when none runs

jobVars == <<rec, sweep>>

RecIdle == [at |-> "idle"]

\* driftFraction > 5 %.
Drifted(redis, db) == 20 * (IF redis >= db THEN redis - db ELSE db - redis) > db

JobsTypeOK ==
    /\ rec \in {RecIdle}
          \cup [at : {"get"}, key : Key]
          \cup [at : {"sum"}, key : Key, val : Nat]
          \cup [at : {"set"}, key : Key, sum : Nat]
    /\ sweep \in 0 .. MaxDay

JobsInit ==
    /\ rec = RecIdle
    /\ sweep = 0

-----------------------------------------------------------------------------
(***************************************************************************)
(* Deviations of the reconciliation, used by PROJECT.json only.            *)
(***************************************************************************)
\* redis.Nil is not told from a value.
ReconcileGetNil ==
    /\ rec.at = "get"
    /\ Works
    /\ rec' = [at |-> "sum", key |-> rec.key, val |-> spend[rec.key]]
    /\ UNCHANGED <<day, stored, spend, ttl, sweep>>

\* Corrects downwards only.
ReconcileSumDownOnly ==
    /\ rec.at = "sum"
    /\ Works
    /\ LET db == SumSince(rec.key[2]) IN
       rec' = IF db # 0 /\ 20 * (rec.val - db) > db
              THEN [at |-> "set", key |-> rec.key, sum |-> db] ELSE RecIdle
    /\ UNCHANGED <<day, stored, spend, ttl, sweep>>

\* Adds to the counter instead of setting it.
ReconcileSetAdding ==
    /\ rec.at = "set"
    /\ Works /\ IncrBy(rec.key, rec.sum)
    /\ rec' = RecIdle
    /\ UNCHANGED <<day, stored, sweep>>

\* SET with TTL=0, which clears the expiry.
ReconcileSetNoTTL ==
    /\ rec.at = "set"
    /\ Works
    /\ spend' = [spend EXCEPT ![rec.key] = rec.sum]
    /\ ttl' = ttl \ {rec.key}
    /\ rec' = RecIdle
    /\ UNCHANGED <<day, stored, sweep>>

-----------------------------------------------------------------------------
\* now is captured once; key and period start both come from it.
ReconcileStart(p) ==
    /\ rec = RecIdle
    /\ rec' = [at |-> "get", key |-> SpendKey(p, day)]
    /\ UNCHANGED <<storeVars, sweep>>

\* A missing key and an error both skip the period.
ReconcileGet ==
    /\ rec.at = "get"
    /\ \/ /\ Works
          /\ rec' = IF spend[rec.key] = Missing THEN RecIdle
                    ELSE [at |-> "sum", key |-> rec.key, val |-> spend[rec.key]]
       \/ Fails /\ rec' = RecIdle
    /\ UNCHANGED <<day, stored, spend, ttl, sweep>>

\* A failed query leaves dbSum at 0, which skips the period.
ReconcileSum ==
    /\ rec.at = "sum"
    /\ \/ /\ Works
          /\ LET db == SumSince(rec.key[2]) IN
             rec' = IF db # 0 /\ Drifted(rec.val, db)
                    THEN [at |-> "set", key |-> rec.key, sum |-> db]
                    ELSE RecIdle
       \/ Fails /\ rec' = RecIdle
    /\ UNCHANGED <<day, stored, spend, ttl, sweep>>

\* The outcome of the SET is not looked at; the client may send it again.
ReconcileSet ==
    /\ rec.at = "set"
    /\ \/ Works /\ Put(rec.key, rec.sum) /\ rec' = RecIdle
       \/ Fails /\ UNCHANGED <<spend, ttl>> /\ rec' = RecIdle
       \/ Fails /\ Put(rec.key, rec.sum) /\ UNCHANGED rec
    /\ UNCHANGED <<day, stored, sweep>>

Reconcile ==
    \/ \E p \in Period : ReconcileStart(p)
    \/ ReconcileGet
    \/ ReconcileSum
    \/ ReconcileSet

-----------------------------------------------------------------------------
\* A deviation used by PROJECT.json only: the time is not converted to UTC, and
\* the clock is ahead of it.
SweepStartLocal ==
    /\ sweep = 0
    /\ sweep' = IF day < MaxDay THEN day + 1 ELSE day
    /\ UNCHANGED <<storeVars, rec>>

SweepStart ==
    /\ sweep = 0
    /\ sweep' = day
    /\ UNCHANGED <<storeVars, rec>>

\* The scan hands out a key of another period than the one sweep started in.
SweepDelete(k) ==
    /\ sweep # 0
    /\ spend[k] # Missing
    /\ k # SpendKey(k[1], sweep)
    /\ Works /\ Del(k)
    /\ UNCHANGED <<day, stored, jobVars>>

\* The cursor is back at 0, or the scan failed.
SweepEnd ==
    /\ sweep # 0
    /\ sweep' = 0
    /\ UNCHANGED <<storeVars, rec>>

Sweep ==
    \/ SweepStart
    \/ \E k \in Key : SweepDelete(k)
    \/ SweepEnd

Jobs == Reconcile \/ Sweep
=============================================================================
