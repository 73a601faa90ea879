----------------------------- MODULE PlanQuota -------------------------------
(***************************************************************************)
(* What the management API promises about plan limits, without its         *)
(* transactions: projects and keys appear one at a time and only while     *)
(* there is room for them, archived projects stay archived and revoked     *)
(* keys stay revoked.  One user is modelled; users share no rows.          *)
(***************************************************************************)
EXTENDS Naturals, FiniteSets

CONSTANTS
    Project,      \* ids of projects, used or not
    Key,          \* ids of keys, used or not
    None,         \* stands for no project
    MaxProjects,  \* PlanLimits.MaxProjects of the plan; 0 is unlimited
    MaxKeys       \* PlanLimits.MaxKeys, per project

ASSUME QuotaAssumption ==
    /\ IsFiniteSet(Project)
    /\ IsFiniteSet(Key)
    /\ None \notin Project \cup Key
    /\ MaxProjects \in Nat
    /\ MaxKeys \in Nat

VARIABLES
    project,  \* [Project -> ProjectState]
    key,      \* [Key -> KeyState]
    owner     \* [Key -> Project, or None]

quotaVars == <<project, key, owner>>

ProjectState == {"none", "active", "archived"}
KeyState == {"none", "active", "revoked"}

QuotaTypeOK ==
    /\ project \in [Project -> ProjectState]
    /\ key \in [Key -> KeyState]
    /\ owner \in [Key -> Project \cup {None}]

ActiveProjects == {p \in Project : project[p] = "active"}
ActiveKeys(p) == {k \in Key : key[k] = "active" /\ owner[k] = p}

HasRoom(S, max) == max = 0 \/ Cardinality(S) < max
Within(S, max) == max = 0 \/ Cardinality(S) <= max

\* A user who may have projects already.
QuotaInit ==
    /\ project \in [Project -> {"none", "active"}]
    /\ Within(ActiveProjects, MaxProjects)
    /\ key = [k \in Key |-> "none"]
    /\ owner = [k \in Key |-> None]

AddProject(p) ==
    /\ project[p] = "none"
    /\ HasRoom(ActiveProjects, MaxProjects)
    /\ project' = [project EXCEPT ![p] = "active"]
    /\ UNCHANGED <<key, owner>>

AddKey(k, p) ==
    /\ key[k] = "none"
    /\ project[p] # "none"
    /\ HasRoom(ActiveKeys(p), MaxKeys)
    /\ key' = [key EXCEPT ![k] = "active"]
    /\ owner' = [owner EXCEPT ![k] = p]
    /\ UNCHANGED project

ArchiveProject(p) ==
    /\ project[p] = "active"
    /\ project' = [project EXCEPT ![p] = "archived"]
    /\ UNCHANGED <<key, owner>>

RevokeKey(k) ==
    /\ key[k] = "active"
    /\ key' = [key EXCEPT ![k] = "revoked"]
    /\ UNCHANGED <<project, owner>>

QuotaNext ==
    \/ \E p \in Project : AddProject(p) \/ ArchiveProject(p)
    \/ \E k \in Key : RevokeKey(k) \/ \E p \in Project : AddKey(k, p)

QuotaSpec == QuotaInit /\ [][QuotaNext]_quotaVars
=============================================================================
