----------------------------- MODULE PlanLimits ------------------------------
(***************************************************************************)
(* Plan limits under concurrent requests: ProjectsHandler.Create, Delete   *)
(* (api/projects.go), KeysHandler.Create, Revoke (api/keys.go).  A Create  *)
(* runs one transaction: it takes an advisory lock on the user or on the   *)
(* project, counts, inserts and commits; its row is visible to others and  *)
(* its lock free when it has committed, not before.  A plan without a      *)
(* limit skips the lock and the count.                                     *)
(*                                                                         *)
(* A scope is what a limit applies to: User for projects, a project for    *)
(* its keys.  The requests carry the plan in their token, so the limits    *)
(* are constants here.  A hash collision of two advisory locks would only  *)
(* make requests wait longer and is left out.                              *)
(***************************************************************************)
EXTENDS PlanQuota

CONSTANTS
    Request,  \* requests, which run concurrently
    User      \* the scope of the limit on projects

ASSUME LimitsAssumption ==
    /\ User \notin Project \cup Key \cup {None}
    /\ None \notin Request

VARIABLES
    at,     \* [Request -> Place]
    scope,  \* [Request -> Scope]: projectID, or User
    row,    \* [Request -> uncommitted row, or None]
    lock    \* [Scope -> holder of the advisory lock, or None]

requestVars == <<at, scope, row, lock>>
vars == <<quotaVars, requestVars>>

Scope == Project \cup {User}
Place == {"new", "done", "checked", "begun", "locked", "counted", "inserted"}

Rows(w) == IF w = User THEN Project ELSE Key
LimitOf(w) == IF w = User THEN MaxProjects ELSE MaxKeys
Active(w) == IF w = User THEN ActiveProjects ELSE ActiveKeys(w)

TypeOK ==
    /\ QuotaTypeOK
    /\ at \in [Request -> Place]
    /\ scope \in [Request -> Scope]
    /\ row \in [Request -> Project \cup Key \cup {None}]
    /\ lock \in [Scope -> Request \cup {None}]
    /\ \A r \in Request :
         IF at[r] = "inserted" THEN row[r] \in Rows(scope[r]) ELSE row[r] = None

Init ==
    /\ QuotaInit
    /\ at = [r \in Request |-> "new"]
    /\ scope = [r \in Request |-> User]
    /\ row = [r \in Request |-> None]
    /\ lock = [w \in Scope |-> None]

\* The end of a transaction frees its lock.
Unlocked(r) == [w \in Scope |-> IF lock[w] = r THEN None ELSE lock[w]]

Finish(r) ==
    /\ at' = [at EXCEPT ![r] = "done"]
    /\ scope' = [scope EXCEPT ![r] = User]
    /\ row' = [row EXCEPT ![r] = None]
    /\ lock' = Unlocked(r)

Goto(r, place) ==
    /\ at' = [at EXCEPT ![r] = place]
    /\ UNCHANGED <<quotaVars, scope, row>>

-----------------------------------------------------------------------------
(***************************************************************************)
(* Deviations, used by PROJECT.json only.                                  *)
(***************************************************************************)
\* A shared lock.
LockShared(r) ==
    /\ at[r] = "begun" /\ LimitOf(scope[r]) > 0
    /\ lock' = [lock EXCEPT ![scope[r]] = r]
    /\ Goto(r, "locked")

\* A lock that ends with its statement.
InsertUnlocked(r, x) ==
    /\ at[r] = "counted" \/ (at[r] = "begun" /\ LimitOf(scope[r]) = 0)
    /\ x \in Rows(scope[r])
    /\ x \notin {row[s] : s \in Request}
    /\ IF scope[r] = User THEN project[x] = "none" ELSE key[x] = "none"
    /\ at' = [at EXCEPT ![r] = "inserted"]
    /\ row' = [row EXCEPT ![r] = x]
    /\ lock' = Unlocked(r)
    /\ UNCHANGED <<quotaVars, scope>>

\* A lock of the session instead of the transaction.
RollbackLocked(r) ==
    /\ at[r] \notin {"new", "done"}
    /\ at' = [at EXCEPT ![r] = "done"]
    /\ scope' = [scope EXCEPT ![r] = User]
    /\ row' = [row EXCEPT ![r] = None]
    /\ UNCHANGED <<quotaVars, lock>>

\* An error return that forgets the open transaction.
RollbackForgotten(r) ==
    /\ at[r] \notin {"new", "done"}
    /\ at' = [at EXCEPT ![r] = "done"]
    /\ UNCHANGED <<quotaVars, scope, row, lock>>

-----------------------------------------------------------------------------
(***************************************************************************)
(* A Create: BEGIN, pg_advisory_xact_lock, SELECT COUNT, INSERT, COMMIT.   *)
(***************************************************************************)
\* A key is created in a project that is active when the request is checked.
Begin(r, w) ==
    /\ at[r] = "new"
    /\ w # User => project[w] = "active"
    /\ at' = [at EXCEPT ![r] = "begun"]
    /\ scope' = [scope EXCEPT ![r] = w]
    /\ UNCHANGED <<quotaVars, row, lock>>

Lock(r) ==
    /\ at[r] = "begun"
    /\ LimitOf(scope[r]) > 0
    /\ lock[scope[r]] = None
    /\ lock' = [lock EXCEPT ![scope[r]] = r]
    /\ Goto(r, "locked")

\* The count is a statement of its own, so it sees what committed before it.
Count(r) ==
    /\ at[r] = "locked"
    /\ Cardinality(Active(scope[r])) < LimitOf(scope[r])
    /\ Goto(r, "counted")
    /\ UNCHANGED lock

\* 403, and the deferred Rollback.
Refuse(r) ==
    /\ at[r] = "locked"
    /\ Cardinality(Active(scope[r])) >= LimitOf(scope[r])
    /\ Finish(r)
    /\ UNCHANGED quotaVars

\* The server generates the id.
Insert(r, x) ==
    /\ at[r] = "counted" \/ (at[r] = "begun" /\ LimitOf(scope[r]) = 0)
    /\ x \in Rows(scope[r])
    /\ x \notin {row[s] : s \in Request}
    /\ IF scope[r] = User THEN project[x] = "none" ELSE key[x] = "none"
    /\ at' = [at EXCEPT ![r] = "inserted"]
    /\ row' = [row EXCEPT ![r] = x]
    /\ UNCHANGED <<quotaVars, scope, lock>>

\* Whether or not the client learns of it.
Commit(r) ==
    /\ at[r] = "inserted"
    /\ IF scope[r] = User
       THEN /\ project' = [project EXCEPT ![row[r]] = "active"]
            /\ UNCHANGED <<key, owner>>
       ELSE /\ key' = [key EXCEPT ![row[r]] = "active"]
            /\ owner' = [owner EXCEPT ![row[r]] = scope[r]]
            /\ UNCHANGED project
    /\ Finish(r)

\* A failed statement, or a client that went away.  The error of the COUNT is
\* not looked at, but the INSERT after it fails in the aborted transaction.
Rollback(r) ==
    /\ at[r] \notin {"new", "done"}
    /\ Finish(r)
    /\ UNCHANGED quotaVars

-----------------------------------------------------------------------------
(***************************************************************************)
(* Delete and Revoke: projectFromPath, and then one UPDATE.                *)
(***************************************************************************)
Check(r, p) ==
    /\ at[r] = "new"
    /\ project[p] = "active"
    /\ at' = [at EXCEPT ![r] = "checked"]
    /\ scope' = [scope EXCEPT ![r] = p]
    /\ UNCHANGED <<quotaVars, row, lock>>

Delete(r) ==
    /\ at[r] = "checked"
    /\ project' = [project EXCEPT ![scope[r]] = "archived"]
    /\ Finish(r)
    /\ UNCHANGED <<key, owner>>

\* UPDATE ... WHERE id=$1 AND project_id=$2 AND revoked_at IS NULL.
Revoke(r, k) ==
    /\ at[r] = "checked"
    /\ key[k] = "active"
    /\ owner[k] = scope[r]
    /\ key' = [key EXCEPT ![k] = "revoked"]
    /\ Finish(r)
    /\ UNCHANGED <<project, owner>>

Arrival(r) ==
    \/ \E w \in Scope : Begin(r, w)
    \/ \E p \in Project : Check(r, p)

Progress(r) ==
    \/ Lock(r)
    \/ Count(r)
    \/ Refuse(r)
    \/ \E x \in Project \cup Key : Insert(r, x)
    \/ Commit(r)
    \/ Delete(r)
    \/ \E k \in Key : Revoke(r, k)

Next == \E r \in Request : Arrival(r) \/ Progress(r) \/ Rollback(r)

Spec == Init /\ [][Next]_vars

\* Every handler goes on as long as Postgres answers, and Postgres hands a
\* lock to those who wait for it in their order, so a request that could have
\* the lock again and again gets it.  No request has to arrive or to fail.
FairSpec == Spec /\ \A r \in Request : SF_vars(Progress(r))

-----------------------------------------------------------------------------
(***************************************************************************)
(* Properties.                                                             *)
(***************************************************************************)
\* However creates, deletes, revocations, refusals and failures interleave, a
\* user never has more active projects than the plan allows, and no project
\* has more active keys (api/projects.go:120-148, api/keys.go:84-110).
LimitsHold ==
    /\ Within(ActiveProjects, MaxProjects)
    /\ \A p \in Project : Within(ActiveKeys(p), MaxKeys)

\* With their transactions the handlers behave as if each create counted and
\* inserted at once, at its commit.
KeepsQuota == QuotaSpec

\* No request waits for a lock for ever, whoever else fails or gives up
\* (api/projects.go:129-133): a create that has begun comes to an end.
CreatesEnd ==
    \A r \in Request : at[r] = "begun" ~> at[r] = "done"
=============================================================================
