----------------------------- MODULE UsageTable -----------------------------
(***************************************************************************)
(* The usage_events table of Postgres as the proxy uses it: the single     *)
(* INSERT of writeUsageEvent (proxy/logger.go).  The statement carries no  *)
(* idempotency key (the row id is generated by the server), so every       *)
(* INSERT that commits is one more row, also when its answer is lost.      *)
(***************************************************************************)
EXTENDS Naturals

CONSTANTS
    Event,       \* usage events; each stands for one answered request
    Unstorable,  \* events whose INSERT Postgres rejects whenever it is tried
    MaxUnknown   \* bound: INSERTs of one event that commit with a lost answer

ASSUME UnstorableAssumption == Unstorable \subseteq Event
ASSUME MaxUnknownAssumption == MaxUnknown \in Nat

VARIABLES
    acked,    \* [Event -> Nat]: rows whose INSERT was acknowledged
    unacked,  \* [Event -> Nat]: rows whose INSERT returned an error
    dbUp      \* whether Postgres answers

tableVars == <<acked, unacked, dbUp>>

Outcome == {"ok", "error", "unknown"}

TableTypeOK ==
    /\ acked \in [Event -> Nat]
    /\ unacked \in [Event -> Nat]
    /\ dbUp \in BOOLEAN

TableInit ==
    /\ acked = [e \in Event |-> 0]
    /\ unacked = [e \in Event |-> 0]
    /\ dbUp = TRUE

Stored(e) == acked[e] + unacked[e] > 0

(***************************************************************************)
(* How an INSERT of e can end.  "unknown" is an INSERT that commits and    *)
(* whose caller gets an error: the connection or the context's deadline    *)
(* went away between the commit and the answer.                            *)
(***************************************************************************)
CanEnd(e, out) ==
    \/ out = "ok" /\ dbUp /\ e \notin Unstorable
    \/ out = "error" /\ (~dbUp \/ e \in Unstorable)
    \/ out = "unknown" /\ ~dbUp /\ e \notin Unstorable /\ unacked[e] < MaxUnknown

\* How it can end when the caller's context is already, or is being,
\* cancelled: never in an acknowledgement.
CanBreakOff(e, out) ==
    \/ out = "error"
    \/ out = "unknown" /\ e \notin Unstorable /\ unacked[e] < MaxUnknown

CommitRow(e, out) ==
    /\ acked' = [acked EXCEPT ![e] = IF out = "ok" THEN @ + 1 ELSE @]
    /\ unacked' = [unacked EXCEPT ![e] = IF out = "unknown" THEN @ + 1 ELSE @]
    /\ UNCHANGED dbUp

WriteUsageEvent(e, out) == CanEnd(e, out) /\ CommitRow(e, out)

WriteCancelled(e, out) == CanBreakOff(e, out) /\ CommitRow(e, out)

\* Postgres, or the way to it, goes away and comes back.
DBFails ==
    /\ dbUp
    /\ dbUp' = FALSE
    /\ UNCHANGED <<acked, unacked>>

DBRecovers ==
    /\ ~dbUp
    /\ dbUp' = TRUE
    /\ UNCHANGED <<acked, unacked>>
=============================================================================
