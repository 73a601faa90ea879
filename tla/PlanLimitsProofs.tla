-------------------------- MODULE PlanLimitsProofs ---------------------------
(***************************************************************************)
(* Proofs about PlanLimits, for any plan, projects, keys and requests.     *)
(* The argument is the one for a lock: who has counted holds the lock of   *)
(* the scope, so nobody else commits a row in it, and the room that was    *)
(* counted is still there at the commit.  Deletes and revocations need no  *)
(* lock, for they only make room.                                          *)
(***************************************************************************)
EXTENDS PlanLimits, FiniteSetTheorems, TLAPS

\* Between its lock and its end, r runs under a limit.
Limited(r) ==
    \/ at[r] \in {"locked", "counted"}
    \/ at[r] = "inserted" /\ LimitOf(scope[r]) > 0

Holds == \A r \in Request : Limited(r) =>
            /\ LimitOf(scope[r]) > 0
            /\ lock[scope[r]] = r

\* The room that r has counted is still there.
RoomLeft == \A r \in Request : Limited(r) /\ at[r] # "locked" =>
            Cardinality(Active(scope[r])) < LimitOf(scope[r])

\* An uncommitted row has an id of its own.
RowsNew == \A r \in Request : at[r] = "inserted" =>
            /\ IF scope[r] = User THEN project[row[r]] = "none" ELSE key[row[r]] = "none"
            /\ \A s \in Request : at[s] = "inserted" /\ row[s] = row[r] => s = r

\* The project of a request was there when the request was checked.
Scoped == \A r \in Request :
            at[r] \notin {"new", "done"} /\ scope[r] # User => project[scope[r]] # "none"

IInv ==
    /\ TypeOK
    /\ Holds
    /\ RoomLeft
    /\ RowsNew
    /\ Scoped
    /\ LimitsHold

-----------------------------------------------------------------------------
(***************************************************************************)
(* Counting.                                                               *)
(***************************************************************************)
LEMMA LimitType == \A w \in Scope : LimitOf(w) \in Nat
  BY QuotaAssumption DEF LimitOf

\* What is counted is finite, before and after a step.
LEMMA ActiveFinite ==
    ASSUME NEW w \in Scope
    PROVE  /\ IsFiniteSet(Active(w)) /\ Cardinality(Active(w)) \in Nat
           /\ IsFiniteSet(Active(w)') /\ Cardinality(Active(w)') \in Nat
<1> DEFINE All == IF w = User THEN Project ELSE Key
<1>1. IsFiniteSet(All)
  BY QuotaAssumption
<1>2. Active(w) \in SUBSET All /\ Active(w)' \in SUBSET All
  BY DEF Active, ActiveProjects, ActiveKeys
<1> HIDE DEF All
<1>3. IsFiniteSet(Active(w)) /\ IsFiniteSet(Active(w)')
  BY <1>1, <1>2, FS_Subset
<1> QED
  BY <1>3, FS_CardinalityType

\* The limits, scope by scope.
LEMMA LimitsByScope ==
    /\ LimitsHold <=> \A w \in Scope : Within(Active(w), LimitOf(w))
    /\ LimitsHold' <=> \A w \in Scope : Within(Active(w)', LimitOf(w))
<1>1. User \in Scope /\ \A p \in Project : p \in Scope /\ p # User
  BY LimitsAssumption DEF Scope
<1>2. \A w \in Scope : w = User \/ w \in Project
  BY DEF Scope
<1> QED
  BY <1>1, <1>2 DEF LimitsHold, Within, Active, LimitOf

\* Fewer rows stay within a limit, and one more fits where there is room.
LEMMA Fewer ==
    ASSUME NEW w \in Scope, Active(w)' \subseteq Active(w)
    PROVE  Cardinality(Active(w)') <= Cardinality(Active(w))
<1>1. Active(w)' \in SUBSET Active(w)
  OBVIOUS
<1> QED
  BY <1>1, ActiveFinite, FS_Subset

LEMMA OneMore ==
    ASSUME NEW w \in Scope, NEW x, Active(w)' = Active(w) \cup {x}
    PROVE  Cardinality(Active(w)') <= Cardinality(Active(w)) + 1
<1>1. Cardinality(Active(w) \cup {x}) =
        IF x \in Active(w) THEN Cardinality(Active(w)) ELSE Cardinality(Active(w)) + 1
  BY ActiveFinite, FS_AddElement
<1> QED
  BY <1>1, ActiveFinite

-----------------------------------------------------------------------------
(***************************************************************************)
(* What a step does to the rows that are counted.                          *)
(***************************************************************************)
\* Only a commit adds a row: its own, in its own scope.
LEMMA CommitAdds ==
    ASSUME IInv, NEW r \in Request, Commit(r), NEW w \in Scope
    PROVE  Active(w)' = IF w = scope[r] THEN Active(w) \cup {row[r]} ELSE Active(w)
<1>1. /\ at[r] = "inserted" /\ scope[r] \in Scope
      /\ row[r] \in Rows(scope[r])
  BY DEF IInv, TypeOK, Commit
<1>2. CASE scope[r] = User
  <2>1. /\ project' = [project EXCEPT ![row[r]] = "active"]
        /\ key' = key /\ owner' = owner
        /\ row[r] \in Project
    BY <1>1, <1>2 DEF Commit, Rows
  <2>2. ActiveProjects' = ActiveProjects \cup {row[r]}
    BY <2>1 DEF ActiveProjects, IInv, TypeOK, QuotaTypeOK
  <2>3. ActiveKeys(w)' = ActiveKeys(w)
    BY <2>1 DEF ActiveKeys
  <2> QED
    BY <1>2, <2>2, <2>3 DEF Active
<1>3. CASE scope[r] # User
  <2>1. /\ key' = [key EXCEPT ![row[r]] = "active"]
        /\ owner' = [owner EXCEPT ![row[r]] = scope[r]]
        /\ project' = project
        /\ row[r] \in Key
        /\ key[row[r]] = "none"
    BY <1>1, <1>3 DEF Commit, Rows, IInv, RowsNew
  <2>2. \A k \in Key :
          /\ key'[k] = IF k = row[r] THEN "active" ELSE key[k]
          /\ owner'[k] = IF k = row[r] THEN scope[r] ELSE owner[k]
    BY <2>1 DEF IInv, TypeOK, QuotaTypeOK
  <2>3. ActiveKeys(w)' = IF w = scope[r] THEN ActiveKeys(w) \cup {row[r]} ELSE ActiveKeys(w)
    BY <2>1, <2>2 DEF ActiveKeys
  <2>4. ActiveProjects' = ActiveProjects
    BY <2>1 DEF ActiveProjects
  <2> QED
    BY <1>3, <2>3, <2>4 DEF Active
<1> QED
  BY <1>2, <1>3

\* Archiving and revoking only make room.
LEMMA DeleteShrinks ==
    ASSUME IInv, NEW r \in Request, Delete(r), NEW w \in Scope
    PROVE  Active(w)' \subseteq Active(w)
  BY DEF Delete, Active, ActiveProjects, ActiveKeys, IInv, TypeOK, QuotaTypeOK

LEMMA RevokeShrinks ==
    ASSUME IInv, NEW r \in Request, NEW k \in Key, Revoke(r, k), NEW w \in Scope
    PROVE  Active(w)' \subseteq Active(w)
  BY DEF Revoke, Active, ActiveProjects, ActiveKeys, IInv, TypeOK, QuotaTypeOK

\* Every other step leaves the rows alone.
LEMMA QuietKeeps ==
    ASSUME UNCHANGED quotaVars, NEW w \in Scope
    PROVE  Active(w)' = Active(w)
  BY DEF quotaVars, Active, ActiveProjects, ActiveKeys

-----------------------------------------------------------------------------
(***************************************************************************)
(* The two ways in which a step moves a request.                           *)
(***************************************************************************)
\* The end of r touches neither another request nor its lock.
LEMMA FinishOthers ==
    ASSUME TypeOK, NEW r \in Request, Finish(r)
    PROVE  /\ at'[r] = "done" /\ row'[r] = None
           /\ \A s \in Request \ {r} :
                /\ at'[s] = at[s] /\ scope'[s] = scope[s] /\ row'[s] = row[s]
                /\ lock[scope[s]] = s => lock'[scope[s]] = s
  BY DEF TypeOK, Finish, Unlocked

LEMMA FinishType ==
    ASSUME TypeOK, NEW r \in Request, Finish(r), QuotaTypeOK'
    PROVE  TypeOK'
<1>1. /\ at' \in [Request -> Place]
      /\ scope' \in [Request -> Scope]
      /\ row' \in [Request -> Project \cup Key \cup {None}]
      /\ lock' \in [Scope -> Request \cup {None}]
  BY DEF TypeOK, Finish, Unlocked, Place, Scope
<1>2. \A s \in Request :
        IF at'[s] = "inserted" THEN row'[s] \in Rows(scope'[s]) ELSE row'[s] = None
  <2> TAKE s \in Request
  <2>1. CASE s = r
    BY <2>1, FinishOthers
  <2>2. CASE s # r
    BY <2>2, FinishOthers DEF TypeOK
  <2> QED
    BY <2>1, <2>2
<1>3. \A s \in Request : Rows(scope'[s]) = Rows(scope[s])'
  BY DEF Rows
<1> QED
  BY <1>1, <1>2, <1>3 DEF TypeOK, Rows

\* A request that ends keeps the invariant, if the rows it leaves behind do:
\* it may have added one row, in its own scope.
LEMMA FinishKeeps ==
    ASSUME IInv, NEW r \in Request, Finish(r), QuotaTypeOK',
           \A s \in Request \ {r} : at[s] = "inserted" =>
                IF scope[s] = User THEN project'[row[s]] = project[row[s]]
                                   ELSE key'[row[s]] = key[row[s]],
           \A p \in Project : project[p] # "none" => project'[p] # "none",
           \A w \in Scope :
                \/ Cardinality(Active(w)') <= Cardinality(Active(w))
                \/ /\ at[r] = "inserted" /\ w = scope[r]
                   /\ Cardinality(Active(w)') <= Cardinality(Active(w)) + 1
    PROVE  IInv'
<1> USE DEF IInv
<1>1. TypeOK'
  BY FinishType
<1>2. /\ at'[r] = "done"
      /\ \A s \in Request \ {r} :
           /\ at'[s] = at[s] /\ scope'[s] = scope[s] /\ row'[s] = row[s]
           /\ lock[scope[s]] = s => lock'[scope[s]] = s
  BY FinishOthers
<1>3. \A s \in Request : s # r => (Limited(s)' <=> Limited(s))
  BY <1>2 DEF Limited, LimitOf
<1>4. ~ Limited(r)'
  BY <1>2 DEF Limited
<1>5. Holds'
  <2>1. \A s \in Request : Limited(s)' =>
          LimitOf(scope'[s]) > 0 /\ lock'[scope'[s]] = s
    BY <1>2, <1>3, <1>4 DEF Holds
  <2> QED
    BY <2>1 DEF Holds, LimitOf
<1>6. RoomLeft'
  <2> SUFFICES ASSUME NEW s \in Request, Limited(s)', at'[s] # "locked"
               PROVE  (Cardinality(Active(scope[s])) < LimitOf(scope[s]))'
    BY DEF RoomLeft
  <2>1. s # r /\ Limited(s) /\ at[s] # "locked" /\ scope'[s] = scope[s]
    BY <1>2, <1>3, <1>4
  <2> DEFINE w == scope[s]
  <2>2. w \in Scope
    BY DEF TypeOK
  <2>3. Cardinality(Active(w)) < LimitOf(w) /\ lock[w] = s /\ LimitOf(w) > 0
    BY <2>1 DEF RoomLeft, Holds
  <2>4. ~ (at[r] = "inserted" /\ w = scope[r])
    BY <2>1, <2>3 DEF Holds, Limited
  <2>5. PICK v \in Scope : v = w
    BY <2>2
  <2>6. Cardinality(Active(v)') <= Cardinality(Active(v))
    BY <2>4, <2>5
  <2>7. Cardinality(Active(v)') < LimitOf(v)
    BY <2>3, <2>5, <2>6, ActiveFinite, LimitType
  <2>8. (scope[s])' = v
    BY <2>1, <2>5
  <2> QED
    BY <2>7, <2>8 DEF Active, ActiveProjects, ActiveKeys, LimitOf
<1>7. RowsNew'
  <2>1. SUFFICES ASSUME NEW s \in Request, at'[s] = "inserted"
                 PROVE  /\ IF scope'[s] = User THEN project'[row'[s]] = "none"
                                               ELSE key'[row'[s]] = "none"
                        /\ \A q \in Request :
                             at'[q] = "inserted" /\ row'[q] = row'[s] => q = s
    BY DEF RowsNew
  <2>2. s # r /\ at[s] = "inserted" /\ scope'[s] = scope[s] /\ row'[s] = row[s]
    BY <1>2, <2>1
  <2>3. IF scope[s] = User THEN project[row[s]] = "none" ELSE key[row[s]] = "none"
    BY <2>2 DEF RowsNew
  <2>4. ASSUME NEW q \in Request, at'[q] = "inserted", row'[q] = row'[s]
        PROVE  q = s
    BY <1>2, <2>2, <2>4 DEF RowsNew
  <2> QED
    BY <2>2, <2>3, <2>4
<1>8. Scoped'
  BY <1>1, <1>2 DEF Scoped, TypeOK, Scope
<1>9. LimitsHold'
  <2>1. SUFFICES ASSUME NEW w \in Scope, LimitOf(w) > 0
                 PROVE  Cardinality(Active(w)') <= LimitOf(w)
    BY LimitsByScope, LimitType DEF Within
  <2>2. Cardinality(Active(w)) <= LimitOf(w)
    BY <2>1, LimitsByScope DEF Within
  <2>3. at[r] = "inserted" /\ w = scope[r] => Cardinality(Active(w)) < LimitOf(w)
    BY <2>1 DEF RoomLeft, Limited
  <2> QED
    BY <2>2, <2>3, ActiveFinite, LimitType
<1> QED
  BY <1>1, <1>5, <1>6, <1>7, <1>8, <1>9

\* A request that goes on keeps the invariant, if what is new for itself holds.
LEMMA MoveKeeps ==
    ASSUME IInv, NEW r \in Request, UNCHANGED quotaVars, TypeOK',
           \A s \in Request \ {r} :
                /\ at'[s] = at[s] /\ scope'[s] = scope[s] /\ row'[s] = row[s]
                /\ lock[scope[s]] = s => lock'[scope[s]] = s,
           Limited(r)' => LimitOf(scope'[r]) > 0 /\ lock'[scope'[r]] = r,
           Limited(r)' /\ at'[r] # "locked" =>
                Cardinality(Active(scope[r])') < LimitOf(scope'[r]),
           at'[r] = "inserted" =>
                /\ IF scope'[r] = User THEN project[row'[r]] = "none"
                                       ELSE key[row'[r]] = "none"
                /\ \A s \in Request \ {r} : row'[r] # row[s],
           scope'[r] # User => project[scope'[r]] # "none"
    PROVE  IInv'
<1> USE DEF IInv
<1>1. project' = project /\ key' = key /\ owner' = owner
  BY DEF quotaVars
<1>2. \A s \in Request : s # r => (Limited(s)' <=> Limited(s))
  BY DEF Limited, LimitOf
<1>3. Holds'
  <2>1. \A s \in Request : Limited(s)' =>
          LimitOf(scope'[s]) > 0 /\ lock'[scope'[s]] = s
    BY <1>2 DEF Holds
  <2> QED
    BY <2>1 DEF Holds, LimitOf
<1>4. RoomLeft'
  <2> SUFFICES ASSUME NEW s \in Request, Limited(s)', at'[s] # "locked"
               PROVE  (Cardinality(Active(scope[s])) < LimitOf(scope[s]))'
    BY DEF RoomLeft
  <2>1. CASE s = r
    BY <2>1 DEF LimitOf
  <2>2. CASE s # r
    <3>1. Limited(s) /\ at[s] # "locked" /\ scope'[s] = scope[s]
      BY <1>2, <2>2
    <3>2. Cardinality(Active(scope[s])) < LimitOf(scope[s])
      BY <3>1 DEF RoomLeft
    <3> QED
      BY <1>1, <3>1, <3>2 DEF Active, ActiveProjects, ActiveKeys, LimitOf
  <2> QED
    BY <2>1, <2>2
<1>5. RowsNew'
  <2>1. ASSUME NEW s \in Request, at'[s] = "inserted"
        PROVE  IF scope'[s] = User THEN project'[row'[s]] = "none"
                                   ELSE key'[row'[s]] = "none"
    BY <1>1, <2>1 DEF RowsNew
  <2>2. ASSUME NEW s \in Request, NEW q \in Request,
               at'[s] = "inserted", at'[q] = "inserted", row'[q] = row'[s]
        PROVE  q = s
    BY <2>2 DEF RowsNew
  <2> QED
    BY <2>1, <2>2 DEF RowsNew
<1>6. Scoped'
  BY <1>1 DEF Scoped
<1>7. LimitsHold'
  BY <1>1 DEF LimitsHold, ActiveProjects, ActiveKeys
<1> QED
  BY <1>3, <1>4, <1>5, <1>6, <1>7

-----------------------------------------------------------------------------
(***************************************************************************)
(* The steps.                                                              *)
(***************************************************************************)
LEMMA InitIInv == Init => IInv
<1> SUFFICES ASSUME Init PROVE IInv
  OBVIOUS
<1>1. TypeOK
  BY DEF Init, QuotaInit, TypeOK, QuotaTypeOK, ProjectState, KeyState, Place, Scope
<1>2. Holds /\ RoomLeft /\ RowsNew /\ Scoped
  BY DEF Init, Holds, RoomLeft, RowsNew, Scoped, Limited
<1>3. LimitsHold
  <2>1. \A p \in Project : ActiveKeys(p) = {}
    BY DEF Init, QuotaInit, ActiveKeys
  <2>2. Cardinality({}) = 0
    BY FS_EmptySet
  <2> QED
    BY <2>1, <2>2, QuotaAssumption DEF Init, QuotaInit, LimitsHold, Within
<1> QED
  BY <1>1, <1>2, <1>3 DEF IInv

LEMMA BeginStep ==
    ASSUME IInv, NEW r \in Request, NEW w \in Scope, Begin(r, w)
    PROVE  IInv'
<1>1. TypeOK'
  BY DEF IInv, TypeOK, QuotaTypeOK, Begin, quotaVars, Place, Rows
<1>2. at'[r] = "begun" /\ scope'[r] = w /\ lock' = lock /\ row' = row
  BY DEF IInv, TypeOK, Begin
<1>3. \A s \in Request \ {r} : at'[s] = at[s] /\ scope'[s] = scope[s]
  BY DEF IInv, TypeOK, Begin
<1> QED
  BY <1>1, <1>2, <1>3, MoveKeeps DEF Begin, Limited

LEMMA CheckStep ==
    ASSUME IInv, NEW r \in Request, NEW p \in Project, Check(r, p)
    PROVE  IInv'
<1>1. TypeOK'
  BY DEF IInv, TypeOK, QuotaTypeOK, Check, quotaVars, Place, Scope, Rows
<1>2. at'[r] = "checked" /\ scope'[r] = p /\ lock' = lock /\ row' = row
  BY DEF IInv, TypeOK, Check
<1>3. \A s \in Request \ {r} : at'[s] = at[s] /\ scope'[s] = scope[s]
  BY DEF IInv, TypeOK, Check
<1> QED
  BY <1>1, <1>2, <1>3, MoveKeeps DEF Check, Limited

LEMMA LockStep ==
    ASSUME IInv, NEW r \in Request, Lock(r)
    PROVE  IInv'
<1>1. TypeOK'
  BY DEF IInv, TypeOK, QuotaTypeOK, Lock, Goto, quotaVars, Place, Rows
<1>2. /\ at'[r] = "locked" /\ scope' = scope /\ row' = row /\ quotaVars' = quotaVars
      /\ LimitOf(scope'[r]) > 0 /\ lock'[scope'[r]] = r
  BY DEF IInv, TypeOK, Lock, Goto
<1>3. \A s \in Request \ {r} :
        at'[s] = at[s] /\ (lock[scope[s]] = s => lock'[scope[s]] = s)
  BY LimitsAssumption DEF IInv, TypeOK, Lock, Goto
<1>4. scope[r] # User => project[scope[r]] # "none"
  BY DEF IInv, Scoped, Lock
<1> QED
  BY <1>1, <1>2, <1>3, <1>4, MoveKeeps DEF Limited

LEMMA CountStep ==
    ASSUME IInv, NEW r \in Request, Count(r)
    PROVE  IInv'
<1>1. TypeOK'
  BY DEF IInv, TypeOK, QuotaTypeOK, Count, Goto, quotaVars, Place, Rows
<1>2. /\ at[r] = "locked" /\ at'[r] = "counted" /\ scope' = scope /\ row' = row
      /\ lock' = lock /\ quotaVars' = quotaVars
      /\ \A s \in Request \ {r} : at'[s] = at[s]
  BY DEF IInv, TypeOK, Count, Goto
<1>3. Limited(r) /\ LimitOf(scope[r]) > 0 /\ lock[scope[r]] = r
  BY <1>2 DEF IInv, Holds, Limited
<1>4. Cardinality(Active(scope[r])') < LimitOf(scope'[r])
  <2>1. PICK w \in Scope : w = scope[r]
    BY DEF IInv, TypeOK
  <2>2. Cardinality(Active(w)') < LimitOf(w)
    BY <1>2, <2>1, QuietKeeps DEF Count
  <2>3. (scope[r])' = w
    BY <1>2, <2>1
  <2> QED
    BY <2>2, <2>3 DEF Active, ActiveProjects, ActiveKeys, LimitOf
<1>5. scope[r] # User => project[scope[r]] # "none"
  BY <1>2 DEF IInv, Scoped
<1> QED
  BY <1>1, <1>2, <1>3, <1>4, <1>5, MoveKeeps DEF Limited

LEMMA InsertStep ==
    ASSUME IInv, NEW r \in Request, NEW x \in Project \cup Key, Insert(r, x)
    PROVE  IInv'
<1>1. TypeOK'
  BY DEF IInv, TypeOK, QuotaTypeOK, Insert, quotaVars, Place, Rows
<1>2. /\ at'[r] = "inserted" /\ row'[r] = x /\ scope' = scope
      /\ lock' = lock /\ quotaVars' = quotaVars
      /\ \A s \in Request \ {r} : at'[s] = at[s] /\ row'[s] = row[s] /\ row[s] # x
  BY DEF IInv, TypeOK, Insert
<1>3. LimitOf(scope[r]) > 0 => at[r] = "counted"
  BY LimitType DEF Insert, IInv, TypeOK
<1>4. Limited(r)' => /\ LimitOf(scope[r]) > 0 /\ lock[scope[r]] = r
                     /\ Cardinality(Active(scope[r])) < LimitOf(scope[r])
  BY <1>2, <1>3 DEF IInv, Holds, RoomLeft, Limited, LimitOf
<1>5. Limited(r)' => Cardinality(Active(scope[r])') < LimitOf(scope'[r])
  BY <1>2, <1>4 DEF Active, ActiveProjects, ActiveKeys, LimitOf, quotaVars
<1>6. scope[r] # User => project[scope[r]] # "none"
  BY DEF IInv, Scoped, Insert
<1>7. IF scope[r] = User THEN project[x] = "none" ELSE key[x] = "none"
  BY DEF Insert
<1> QED
  BY <1>1, <1>2, <1>4, <1>5, <1>6, <1>7, MoveKeeps DEF LimitOf

\* Refuse and Rollback.
LEMMA QuietFinishStep ==
    ASSUME IInv, NEW r \in Request, Finish(r), UNCHANGED quotaVars
    PROVE  IInv'
<1>1. project' = project /\ key' = key /\ owner' = owner
  BY DEF quotaVars
<1>2. QuotaTypeOK'
  BY <1>1 DEF IInv, TypeOK, QuotaTypeOK
<1>3. \A w \in Scope : Cardinality(Active(w)') <= Cardinality(Active(w))
  BY QuietKeeps, ActiveFinite
<1> QED
  BY <1>1, <1>2, <1>3, FinishKeeps

LEMMA CommitStep ==
    ASSUME IInv, NEW r \in Request, Commit(r)
    PROVE  IInv'
<1>1. Finish(r) /\ at[r] = "inserted" /\ scope[r] \in Scope /\ row[r] \in Rows(scope[r])
  BY DEF Commit, IInv, TypeOK
<1>2. QuotaTypeOK'
  BY <1>1 DEF Commit, IInv, TypeOK, QuotaTypeOK, ProjectState, KeyState, Rows, Scope
<1>3. \A s \in Request \ {r} : at[s] = "inserted" => row[s] # row[r]
  BY <1>1 DEF IInv, RowsNew
<1>4. ASSUME NEW s \in Request \ {r}, at[s] = "inserted"
      PROVE  IF scope[s] = User THEN project'[row[s]] = project[row[s]]
                                ELSE key'[row[s]] = key[row[s]]
  <2>1. row[s] \in Rows(scope[s])
    BY <1>4 DEF IInv, TypeOK
  <2> QED
    BY <1>3, <1>4, <2>1 DEF Commit, IInv, TypeOK, QuotaTypeOK, Rows
<1>5. \A p \in Project : project[p] # "none" => project'[p] # "none"
  BY DEF Commit, IInv, TypeOK, QuotaTypeOK
<1>6. ASSUME NEW w \in Scope
      PROVE  \/ Cardinality(Active(w)') <= Cardinality(Active(w))
             \/ w = scope[r] /\ Cardinality(Active(w)') <= Cardinality(Active(w)) + 1
  <2>1. CASE w = scope[r]
    BY <2>1, CommitAdds, OneMore
  <2>2. CASE w # scope[r]
    BY <2>2, CommitAdds, ActiveFinite
  <2> QED
    BY <2>1, <2>2
<1> QED
  BY <1>1, <1>2, <1>4, <1>5, <1>6, FinishKeeps

LEMMA DeleteStep ==
    ASSUME IInv, NEW r \in Request, Delete(r)
    PROVE  IInv'
<1>1. /\ Finish(r) /\ key' = key /\ owner' = owner
      /\ project' = [project EXCEPT ![scope[r]] = "archived"]
      /\ at[r] = "checked"
  BY DEF Delete
<1>2. QuotaTypeOK'
  BY <1>1 DEF IInv, TypeOK, QuotaTypeOK, ProjectState
<1>3. \A p \in Project : project[p] # "none" => project'[p] # "none"
  BY <1>1 DEF IInv, TypeOK, QuotaTypeOK
<1>4. \A w \in Scope : Cardinality(Active(w)') <= Cardinality(Active(w))
  BY DeleteShrinks, Fewer
<1>5. ASSUME NEW s \in Request \ {r}, at[s] = "inserted", scope[s] = User
      PROVE  project'[row[s]] = project[row[s]]
  <2>1. row[s] \in Project /\ project[row[s]] = "none"
    BY <1>5 DEF IInv, TypeOK, Rows, RowsNew
  <2>2. row[s] # scope[r]
    BY <1>1, <2>1, LimitsAssumption DEF IInv, Scoped
  <2> QED
    BY <1>1, <2>1, <2>2 DEF IInv, TypeOK, QuotaTypeOK
<1> QED
  BY <1>1, <1>2, <1>3, <1>4, <1>5, FinishKeeps

LEMMA RevokeStep ==
    ASSUME IInv, NEW r \in Request, NEW k \in Key, Revoke(r, k)
    PROVE  IInv'
<1>1. /\ Finish(r) /\ project' = project /\ owner' = owner
      /\ key' = [key EXCEPT ![k] = "revoked"]
      /\ key[k] = "active"
  BY DEF Revoke
<1>2. QuotaTypeOK'
  BY <1>1 DEF IInv, TypeOK, QuotaTypeOK, KeyState
<1>3. \A w \in Scope : Cardinality(Active(w)') <= Cardinality(Active(w))
  BY RevokeShrinks, Fewer
<1>4. ASSUME NEW s \in Request \ {r}, at[s] = "inserted", scope[s] # User
      PROVE  key'[row[s]] = key[row[s]]
  <2>1. row[s] \in Key /\ key[row[s]] = "none"
    BY <1>4 DEF IInv, TypeOK, Rows, RowsNew
  <2> QED
    BY <1>1, <2>1 DEF IInv, TypeOK, QuotaTypeOK
<1> QED
  BY <1>1, <1>2, <1>3, <1>4, FinishKeeps

LEMMA Stuttering == IInv /\ UNCHANGED vars => IInv'
<1> SUFFICES ASSUME IInv, UNCHANGED vars PROVE IInv'
  OBVIOUS
<1>1. /\ project' = project /\ key' = key /\ owner' = owner /\ at' = at
      /\ scope' = scope /\ row' = row /\ lock' = lock
  BY DEF vars, quotaVars, requestVars
<1>2. TypeOK'
  BY <1>1 DEF IInv, TypeOK, QuotaTypeOK, Rows
<1>3. Holds' /\ RoomLeft' /\ RowsNew' /\ Scoped' /\ LimitsHold'
  BY <1>1 DEF IInv, Holds, RoomLeft, RowsNew, Scoped, LimitsHold, Limited,
              LimitOf, Active, ActiveProjects, ActiveKeys
<1> QED
  BY <1>2, <1>3 DEF IInv

LEMMA NextIInv == IInv /\ [Next]_vars => IInv'
<1> SUFFICES ASSUME IInv, [Next]_vars PROVE IInv'
  OBVIOUS
<1>1. CASE UNCHANGED vars
  BY <1>1, Stuttering
<1>2. CASE Next
  <2> PICK r \in Request : Arrival(r) \/ Progress(r) \/ Rollback(r)
    BY <1>2 DEF Next
  <2>1. CASE Arrival(r)
    BY <2>1, BeginStep, CheckStep DEF Arrival
  <2>2. CASE Lock(r)
    BY <2>2, LockStep
  <2>3. CASE Count(r)
    BY <2>3, CountStep
  <2>4. CASE Refuse(r) \/ Rollback(r)
    BY <2>4, QuietFinishStep DEF Refuse, Rollback
  <2>5. CASE \E x \in Project \cup Key : Insert(r, x)
    BY <2>5, InsertStep
  <2>6. CASE Commit(r)
    BY <2>6, CommitStep
  <2>7. CASE Delete(r)
    BY <2>7, DeleteStep
  <2>8. CASE \E k \in Key : Revoke(r, k)
    BY <2>8, RevokeStep
  <2> QED
    BY <2>1, <2>2, <2>3, <2>4, <2>5, <2>6, <2>7, <2>8 DEF Progress
<1> QED
  BY <1>1, <1>2

THEOREM Invariance == Spec => []IInv
<1> QED
  BY InitIInv, NextIInv, PTL DEF Spec

-----------------------------------------------------------------------------
(***************************************************************************)
(* The abstract specification.                                             *)
(***************************************************************************)
\* At its commit a create still has the room that it counted.
LEMMA CommitRoom ==
    ASSUME IInv, NEW r \in Request, Commit(r)
    PROVE  HasRoom(Active(scope[r]), LimitOf(scope[r]))
<1>1. scope[r] \in Scope /\ at[r] = "inserted"
  BY DEF IInv, TypeOK, Commit
<1>2. LimitOf(scope[r]) = 0 \/ LimitOf(scope[r]) > 0
  BY <1>1, LimitType
<1> QED
  BY <1>1, <1>2 DEF IInv, RoomLeft, Limited, HasRoom

LEMMA CommitQuota ==
    ASSUME IInv, NEW r \in Request, Commit(r)
    PROVE  QuotaNext
<1>1. HasRoom(Active(scope[r]), LimitOf(scope[r]))
  BY CommitRoom
<1>2. /\ at[r] = "inserted" /\ scope[r] \in Scope /\ row[r] \in Rows(scope[r])
      /\ IF scope[r] = User THEN project[row[r]] = "none" ELSE key[row[r]] = "none"
  BY DEF IInv, TypeOK, RowsNew, Commit
<1>3. CASE scope[r] = User
  <2>1. row[r] \in Project /\ AddProject(row[r])
    BY <1>1, <1>2, <1>3 DEF Commit, AddProject, Active, LimitOf, Rows
  <2> QED
    BY <2>1 DEF QuotaNext
<1>4. CASE scope[r] # User
  <2>1. scope[r] \in Project /\ row[r] \in Key /\ project[scope[r]] # "none"
    BY <1>2, <1>4 DEF Scope, Rows, IInv, Scoped
  <2>2. AddKey(row[r], scope[r])
    BY <1>1, <1>2, <1>4, <2>1 DEF Commit, AddKey, Active, LimitOf
  <2> QED
    BY <2>1, <2>2 DEF QuotaNext
<1> QED
  BY <1>3, <1>4

\* A project that was archived already, or none, is as it was.
LEMMA DeleteQuota ==
    ASSUME IInv, NEW r \in Request, Delete(r)
    PROVE  QuotaNext \/ UNCHANGED quotaVars
<1>1. /\ at[r] = "checked" /\ scope[r] \in Scope
      /\ project' = [project EXCEPT ![scope[r]] = "archived"]
      /\ key' = key /\ owner' = owner
      /\ project \in [Project -> ProjectState]
  BY DEF Delete, IInv, TypeOK, QuotaTypeOK
<1>2. CASE scope[r] \in Project /\ project[scope[r]] = "active"
  <2>1. ArchiveProject(scope[r])
    BY <1>1, <1>2 DEF ArchiveProject
  <2> QED
    BY <1>2, <2>1 DEF QuotaNext
<1>3. CASE ~ (scope[r] \in Project /\ project[scope[r]] = "active")
  <2>1. scope[r] \in Project => project[scope[r]] = "archived"
    BY <1>1, <1>3, LimitsAssumption DEF IInv, Scoped, ProjectState
  <2>2. project' = project
    BY <1>1, <2>1
  <2> QED
    BY <1>1, <2>2 DEF quotaVars
<1> QED
  BY <1>2, <1>3

LEMMA NextQuota == IInv /\ [Next]_vars => [QuotaNext]_quotaVars
<1> SUFFICES ASSUME IInv, [Next]_vars PROVE QuotaNext \/ UNCHANGED quotaVars
  OBVIOUS
<1>1. CASE UNCHANGED vars
  BY <1>1 DEF vars
<1>2. CASE Next
  <2> PICK r \in Request : Arrival(r) \/ Progress(r) \/ Rollback(r)
    BY <1>2 DEF Next
  <2>1. CASE Arrival(r)
    BY <2>1 DEF Arrival, Begin, Check
  <2>2. CASE Lock(r) \/ Count(r)
    BY <2>2 DEF Lock, Count, Goto
  <2>3. CASE Refuse(r) \/ Rollback(r)
    BY <2>3 DEF Refuse, Rollback
  <2>4. CASE \E x \in Project \cup Key : Insert(r, x)
    BY <2>4 DEF Insert
  <2>5. CASE Commit(r)
    BY <2>5, CommitQuota
  <2>6. CASE Delete(r)
    BY <2>6, DeleteQuota
  <2>7. CASE \E k \in Key : Revoke(r, k)
    BY <2>7 DEF Revoke, RevokeKey, QuotaNext
  <2> QED
    BY <2>1, <2>2, <2>3, <2>4, <2>5, <2>6, <2>7 DEF Progress
<1> QED
  BY <1>1, <1>2

-----------------------------------------------------------------------------
(***************************************************************************)
(* Theorems.                                                               *)
(***************************************************************************)
\* Rows, requests and locks keep their types; an uncommitted row is there just
\* between its INSERT and the end of its transaction (api/projects.go:149-163).
THEOREM TypeCorrect == Spec => []TypeOK
<1>1. IInv => TypeOK
  BY DEF IInv
<1> QED
  BY <1>1, Invariance, PTL

\* The plan limits hold whatever the requests do at the same time: the lock
\* closes the race between count and insert (api/projects.go:120-148,
\* api/keys.go:81-123).
THEOREM LimitsRespected == Spec => []LimitsHold
<1>1. IInv => LimitsHold
  BY DEF IInv
<1> QED
  BY <1>1, Invariance, PTL

\* The transactions of the handlers implement creates that count and insert
\* in one step.
THEOREM Refinement == Spec => KeepsQuota
<1>1. Init => QuotaInit
  BY DEF Init
<1> QED
  BY <1>1, Invariance, NextQuota, PTL DEF Spec, KeepsQuota, QuotaSpec
=============================================================================
