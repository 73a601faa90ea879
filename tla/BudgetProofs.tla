---------------------------- MODULE BudgetProofs ----------------------------
(***************************************************************************)
(* Theorems about BudgetEnforcement, for any events and costs, proxies,    *)
(* budgets, calendars of periods and numbers of faults and edits.          *)
(***************************************************************************)
EXTENDS BudgetEnforcement, TLAPS, FiniteSetTheorems, WellFoundedInduction

(***************************************************************************)
(* Sums of costs.                                                          *)
(***************************************************************************)
\* Induction over the subsets of a finite set; G holds those known to be good.
LEMMA SetInduction ==
    ASSUME NEW S, IsFiniteSet(S), NEW G,
           \A T \in SUBSET S : (\A U \in SUBSET T : U # T => U \in G) => T \in G
    PROVE  S \in G
<1> DEFINE Bad == {T \in SUBSET S : T \notin G}
<1> SUFFICES ASSUME Bad # {} PROVE FALSE
  OBVIOUS
<1>1. Bad \subseteq FiniteSubsetsOf(S)
  BY FS_Subset DEF FiniteSubsetsOf
<1>2. PICK T \in Bad : \A U \in Bad : <<U, T>> \notin StrictSubsetOrdering(S)
  <2> HIDE DEF Bad
  <2> QED BY <1>1, FS_StrictSubsetOrderingWellFounded, WFMin
<1>3. ASSUME NEW U \in SUBSET T, U # T PROVE U \in G
  <2>1. <<U, T>> \in StrictSubsetOrdering(S)
    BY <1>3 DEF StrictSubsetOrdering
  <2> QED BY <1>2, <2>1
<1> QED BY <1>2, <1>3

Sel(s) == CHOOSE x \in s : TRUE
Sums(f, S) == f = [s \in SUBSET S |-> IF s = {} THEN 0 ELSE LET x == Sel(s) IN Cost[x] + f[s \ {x}]]

LEMMA Selected == \A s : s # {} => Sel(s) \in s
BY DEF Sel

LEMMA CostIs == \A S : CostOf(S) = (CHOOSE f : Sums(f, S))[S]
BY DEF CostOf, MapThenSumSet, MapThenFoldSet, Sums, Sel

LEMMA SumsAt ==
    ASSUME NEW S, NEW f, Sums(f, S), NEW s \in SUBSET S
    PROVE  f[s] = IF s = {} THEN 0 ELSE Cost[Sel(s)] + f[s \ {Sel(s)}]
<1> HIDE DEF Sel
<1>1. f = [t \in SUBSET S |-> IF t = {} THEN 0 ELSE Cost[Sel(t)] + f[t \ {Sel(t)}]]
  BY DEF Sums
<1> QED BY <1>1

LEMMA SumsAgree ==
    ASSUME NEW S, NEW T \in SUBSET S, NEW f, NEW g, Sums(f, S), Sums(g, T),
           IsFiniteSet(T)
    PROVE  f[T] = g[T]
<1> DEFINE G == {U \in SUBSET T : f[U] = g[U]}
<1>1. ASSUME NEW U \in SUBSET T, \A V \in SUBSET U : V # U => V \in G
      PROVE  U \in G
  <2>1. f[U] = IF U = {} THEN 0 ELSE Cost[Sel(U)] + f[U \ {Sel(U)}]
    BY SumsAt
  <2>2. g[U] = IF U = {} THEN 0 ELSE Cost[Sel(U)] + g[U \ {Sel(U)}]
    BY SumsAt
  <2>3. U # {} => U \ {Sel(U)} \in G
    BY <1>1, Selected
  <2> QED BY <2>1, <2>2, <2>3
<1>2. T \in G
  <2> HIDE DEF G
  <2> QED BY <1>1, SetInduction
<1> QED BY <1>2

LEMMA SumsExist == ASSUME NEW S, IsFiniteSet(S) PROVE \E f : Sums(f, S)
<1> DEFINE G == {U \in SUBSET S : \E f : Sums(f, U)}
<1>1. ASSUME NEW U \in SUBSET S, \A V \in SUBSET U : V # U => V \in G
      PROVE  U \in G
  <2> DEFINE h == [s \in SUBSET U |-> IF s = {} THEN 0
                                      ELSE Cost[Sel(s)] + CostOf(s \ {Sel(s)})]
  <2>1. ASSUME NEW s \in SUBSET U, s # U PROVE h[s] = CostOf(s)
    <3>1. PICK g : g = (CHOOSE f : Sums(f, s))
      OBVIOUS
    <3>2. Sums(g, s)
      BY <1>1, <2>1, <3>1
    <3>3. CostOf(s) = g[s]
      BY <3>1, CostIs
    <3>4. g[s] = IF s = {} THEN 0 ELSE Cost[Sel(s)] + g[s \ {Sel(s)}]
      BY <3>2, SumsAt
    <3>5. ASSUME s # {} PROVE g[s \ {Sel(s)}] = CostOf(s \ {Sel(s)})
      <4> DEFINE t == s \ {Sel(s)}
      <4>1. t \in SUBSET s /\ t # U /\ IsFiniteSet(t) /\ t \in SUBSET U
        BY <3>5, <2>1, FS_Subset
      <4>2. PICK k : k = (CHOOSE f : Sums(f, t))
        OBVIOUS
      <4>3. Sums(k, t)
        BY <1>1, <4>1, <4>2
      <4>4. g[t] = k[t]
        BY <3>2, <4>1, <4>3, SumsAgree
      <4> QED BY <4>2, <4>4, CostIs
    <3> QED BY <3>3, <3>4, <3>5
  <2>2. ASSUME NEW s \in SUBSET U
        PROVE  h[s] = IF s = {} THEN 0 ELSE LET x == Sel(s) IN Cost[x] + h[s \ {x}]
    <3>1. s # {} => s \ {Sel(s)} \in SUBSET U /\ s \ {Sel(s)} # U
      BY Selected
    <3>2. s # {} => h[s \ {Sel(s)}] = CostOf(s \ {Sel(s)})
      BY <3>1, <2>1
    <3> QED BY <3>2
  <2>3. Sums(h, U)
    BY <2>2 DEF Sums
  <2> QED BY <2>3
<1>2. S \in G
  <2> HIDE DEF G
  <2> QED BY <1>1, SetInduction
<1> QED BY <1>2

LEMMA CostUnfolds ==
    ASSUME NEW S, IsFiniteSet(S)
    PROVE  CostOf(S) = IF S = {} THEN 0 ELSE Cost[Sel(S)] + CostOf(S \ {Sel(S)})
<1>1. PICK f : f = (CHOOSE g : Sums(g, S))
  OBVIOUS
<1>2. Sums(f, S)
  BY <1>1, SumsExist
<1>3. CostOf(S) = IF S = {} THEN 0 ELSE Cost[Sel(S)] + f[S \ {Sel(S)}]
  <2>1. CostOf(S) = f[S]
    BY <1>1, CostIs
  <2>2. S \in SUBSET S
    OBVIOUS
  <2>3. f[S] = IF S = {} THEN 0 ELSE Cost[Sel(S)] + f[S \ {Sel(S)}]
    BY <1>2, <2>2, SumsAt
  <2> QED BY <2>1, <2>3
<1>4. ASSUME S # {} PROVE f[S \ {Sel(S)}] = CostOf(S \ {Sel(S)})
  <2> DEFINE T == S \ {Sel(S)}
  <2>1. T \in SUBSET S /\ IsFiniteSet(T)
    BY FS_Subset
  <2>2. PICK g : g = (CHOOSE h : Sums(h, T))
    OBVIOUS
  <2>3. Sums(g, T)
    BY <2>1, <2>2, SumsExist
  <2>4. f[T] = g[T]
    BY <1>2, <2>1, <2>3, SumsAgree
  <2> QED BY <2>2, <2>4, CostIs
<1> QED BY <1>3, <1>4

LEMMA CostType == ASSUME NEW S \in SUBSET Event PROVE CostOf(S) \in Nat
<1> DEFINE G == {T \in SUBSET S : CostOf(T) \in Nat}
<1>0. IsFiniteSet(S)
  BY SpendAssumption, FS_Subset
<1>1. ASSUME NEW T \in SUBSET S, \A U \in SUBSET T : U # T => U \in G
      PROVE  T \in G
  <2>1. IsFiniteSet(T)
    BY <1>0, FS_Subset
  <2>2. CostOf(T) = IF T = {} THEN 0 ELSE Cost[Sel(T)] + CostOf(T \ {Sel(T)})
    BY <2>1, CostUnfolds
  <2>3. T # {} => Sel(T) \in Event /\ Sel(T) \in T /\ T \ {Sel(T)} \in G
    BY <1>1, Selected
  <2> HIDE DEF Sel
  <2> QED BY <2>2, <2>3, SpendAssumption
<1>2. S \in G
  <2> HIDE DEF G
  <2> QED BY <1>0, <1>1, SetInduction
<1> QED BY <1>2

LEMMA CostRemove ==
    ASSUME NEW S \in SUBSET Event, NEW e \in S
    PROVE  CostOf(S) = Cost[e] + CostOf(S \ {e})
<1> DEFINE G == {T \in SUBSET S : \A x \in T : CostOf(T) = Cost[x] + CostOf(T \ {x})}
<1>0. IsFiniteSet(S)
  BY SpendAssumption, FS_Subset
<1>1. ASSUME NEW T \in SUBSET S, \A U \in SUBSET T : U # T => U \in G
      PROVE  T \in G
  <2> SUFFICES ASSUME NEW x \in T PROVE CostOf(T) = Cost[x] + CostOf(T \ {x})
    OBVIOUS
  <2>1. IsFiniteSet(T) /\ IsFiniteSet(T \ {x})
    BY <1>0, FS_Subset
  <2>2. PICK y \in T : y = Sel(T)
    BY Selected
  <2>3. CostOf(T) = Cost[y] + CostOf(T \ {y})
    BY <2>1, <2>2, CostUnfolds
  <2>4. CASE y = x
    BY <2>3, <2>4
  <2>5. CASE y # x
    <3>1. CostOf(T \ {y}) = Cost[x] + CostOf((T \ {y}) \ {x})
      BY <1>1, <2>5
    <3>2. CostOf(T \ {x}) = Cost[y] + CostOf((T \ {x}) \ {y})
      BY <1>1, <2>5
    <3>3. (T \ {y}) \ {x} = (T \ {x}) \ {y}
      OBVIOUS
    <3>4. PICK c \in Nat, v \in Nat, w \in Nat :
            c = CostOf((T \ {x}) \ {y}) /\ v = Cost[x] /\ w = Cost[y]
      BY CostType, SpendAssumption
    <3>5. CostOf(T) = w + (v + c)
      BY <2>3, <3>1, <3>3, <3>4
    <3>6. CostOf(T \ {x}) = w + c
      BY <3>2, <3>4
    <3> QED BY <3>4, <3>5, <3>6
  <2> QED BY <2>4, <2>5
<1>2. S \in G
  <2> HIDE DEF G
  <2> QED BY <1>0, <1>1, SetInduction
<1> QED BY <1>2

LEMMA CostAdd ==
    ASSUME NEW S \in SUBSET Event, NEW e \in Event, e \notin S
    PROVE  CostOf(S \cup {e}) = CostOf(S) + Cost[e]
<1>1. CostOf(S \cup {e}) = Cost[e] + CostOf((S \cup {e}) \ {e})
  BY CostRemove
<1>2. (S \cup {e}) \ {e} = S
  OBVIOUS
<1>3. CostOf(S) \in Nat /\ Cost[e] \in Nat
  BY CostType, SpendAssumption
<1> QED BY <1>1, <1>2, <1>3

LEMMA CostMonotonic ==
    ASSUME NEW S \in SUBSET Event, NEW T \in SUBSET S
    PROVE  CostOf(T) <= CostOf(S)
<1> DEFINE G == {U \in SUBSET S : T \subseteq U => CostOf(T) <= CostOf(U)}
<1>0. IsFiniteSet(S)
  BY SpendAssumption, FS_Subset
<1>1. ASSUME NEW U \in SUBSET S, \A V \in SUBSET U : V # U => V \in G
      PROVE  U \in G
  <2> SUFFICES ASSUME T \subseteq U PROVE CostOf(T) <= CostOf(U)
    OBVIOUS
  <2>0. CostOf(T) \in Nat /\ CostOf(U) \in Nat
    BY CostType
  <2>1. CASE U = T
    BY <2>0, <2>1
  <2>2. CASE U # T
    <3>1. PICK x \in U : x \notin T
      BY <2>2
    <3>2. CostOf(U) = Cost[x] + CostOf(U \ {x})
      BY CostRemove
    <3>3. CostOf(T) <= CostOf(U \ {x})
      BY <1>1, <3>1
    <3>4. Cost[x] \in Nat /\ CostOf(U \ {x}) \in Nat
      BY CostType, SpendAssumption
    <3> QED BY <2>0, <3>2, <3>3, <3>4
  <2> QED BY <2>1, <2>2
<1>2. S \in G
  <2> HIDE DEF G
  <2> QED BY <1>0, <1>1, SetInduction
<1> QED BY <1>2

\* The largest cost.
LEMMA LargestCost ==
    ASSUME NEW S \in SUBSET Event, S # {}
    PROVE  \E e \in S : \A f \in S : Cost[e] >= Cost[f]
<1> DEFINE G == {T \in SUBSET S : T # {} => \E e \in T : \A f \in T : Cost[e] >= Cost[f]}
<1>0. IsFiniteSet(S)
  BY SpendAssumption, FS_Subset
<1>1. ASSUME NEW T \in SUBSET S, \A U \in SUBSET T : U # T => U \in G
      PROVE  T \in G
  <2> SUFFICES ASSUME T # {} PROVE \E e \in T : \A f \in T : Cost[e] >= Cost[f]
    OBVIOUS
  <2>1. PICK x \in T : TRUE
    OBVIOUS
  <2>2. \A f \in T : Cost[f] \in Nat
    BY SpendAssumption
  <2>3. CASE T = {x}
    BY <2>2, <2>3
  <2>4. CASE T # {x}
    <3>0. T \ {x} \in SUBSET T /\ T \ {x} # T /\ T \ {x} # {}
      BY <2>1, <2>4
    <3>1. PICK e \in T \ {x} : \A f \in T \ {x} : Cost[e] >= Cost[f]
      BY <1>1, <3>0
    <3> QED BY <2>2, <3>1
  <2> QED BY <2>3, <2>4
<1>2. S \in G
  <2> HIDE DEF G
  <2> QED BY <1>0, <1>1, SetInduction
<1> QED BY <1>2

LEMMA CostBounded ==
    ASSUME NEW S \in SUBSET Event, NEW m \in Nat, \A e \in Event : Cost[e] <= m,
           NEW n \in Nat, Cardinality(S) <= n
    PROVE  CostOf(S) <= n * m
<1> DEFINE G == {T \in SUBSET S : CostOf(T) <= Cardinality(T) * m}
<1>0. IsFiniteSet(S)
  BY SpendAssumption, FS_Subset
<1>1. ASSUME NEW T \in SUBSET S, \A U \in SUBSET T : U # T => U \in G
      PROVE  T \in G
  <2>1. IsFiniteSet(T)
    BY <1>0, FS_Subset
  <2>2. CASE T = {}
    <3>1. CostOf({}) = 0 /\ Cardinality({}) = 0
      BY CostUnfolds, FS_EmptySet
    <3> QED BY <2>2, <3>1
  <2>3. CASE T # {}
    <3>1. PICK x \in T : TRUE
      BY <2>3
    <3>2. PICK c \in Nat : c = Cardinality(T \ {x}) /\ Cardinality(T) = c + 1
      <4>1. /\ IsFiniteSet(T \ {x}) /\ Cardinality(T \ {x}) = Cardinality(T) - 1
            /\ Cardinality(T) \in Nat
        BY <2>1, <3>1, FS_RemoveElement, FS_CardinalityType
      <4>2. Cardinality(T \ {x}) \in Nat
        BY <4>1, FS_CardinalityType
      <4> QED BY <4>1, <4>2
    <3>3. CostOf(T \ {x}) <= c * m
      BY <1>1, <3>1, <3>2
    <3>4. CostOf(T) = Cost[x] + CostOf(T \ {x})
      BY CostRemove
    <3>5. (c + 1) * m = c * m + m /\ c * m \in Nat
      OBVIOUS
    <3>6. Cost[x] \in Nat /\ Cost[x] <= m /\ CostOf(T \ {x}) \in Nat
      BY CostType, SpendAssumption
    <3>7. CostOf(T) <= (c + 1) * m
      BY <3>3, <3>4, <3>5, <3>6
    <3> QED BY <3>2, <3>7
  <2> QED BY <2>2, <2>3
<1>2. S \in G
  <2> HIDE DEF G
  <2> QED BY <1>0, <1>1, SetInduction
<1>3. PICK c \in Nat : c = Cardinality(S)
  BY <1>0, FS_CardinalityType
<1>4. c * m <= n * m /\ c * m \in Nat /\ n * m \in Nat
  BY <1>3
<1> QED BY <1>2, <1>3, <1>4, CostType

-----------------------------------------------------------------------------
(***************************************************************************)
(* Types.                                                                  *)
(***************************************************************************)
LEMMA KeyOf ==
    ASSUME NEW p \in Period, NEW d \in Day
    PROVE  /\ SpendKey(p, d) \in Key
           /\ SpendKey(p, d)[1] = p /\ SpendKey(p, d)[2] = Start[p][d]
           /\ Start[p][d] \in Day /\ Start[p][d] <= d
<1>1. Start[p][d] \in Day /\ Start[p][d] <= d /\ Start[p][Start[p][d]] = Start[p][d]
  BY SpendAssumption
<1> QED BY <1>1 DEF SpendKey, Key

LEMMA KeyType ==
    ASSUME NEW k \in Key
    PROVE  k[1] \in Period /\ k[2] \in Day /\ k = <<k[1], k[2]>>
BY DEF Key

LEMMA SumType == \A d : SumSince(d) \in Nat
BY CostType DEF SumSince

LEMMA RememberType ==
    ASSUME BudgetTypeOK, NEW x \in Proxy, NEW limits \in Limits, Remember(x, limits)
    PROVE  cache' \in [Proxy -> Limits \cup {NoCache}]
BY DEF Remember, BudgetTypeOK

LEMMA PutType ==
    ASSUME StoreTypeOK, NEW k \in Key, NEW v \in Nat, Put(k, v)
    PROVE  /\ spend' \in [Key -> Nat \cup {Missing}]
           /\ ttl' \subseteq {l \in Key : spend'[l] # Missing}
BY DEF StoreTypeOK, Put, Missing

LEMMA IncrType ==
    ASSUME StoreTypeOK, NEW k \in Key, NEW v \in Nat, IncrBy(k, v)
    PROVE  /\ spend' \in [Key -> Nat \cup {Missing}]
           /\ ttl' \subseteq {l \in Key : spend'[l] # Missing}
BY DEF StoreTypeOK, IncrBy, Missing

LEMMA DelType ==
    ASSUME StoreTypeOK, NEW k \in Key, Del(k)
    PROVE  /\ spend' \in [Key -> Nat \cup {Missing}]
           /\ ttl' \subseteq {l \in Key : spend'[l] # Missing}
BY DEF StoreTypeOK, Del, Missing

LEMMA RowType ==
    ASSUME StoreTypeOK, NEW r \in Event
    PROVE  [stored EXCEPT ![r] = day] \in [Event -> 0 .. MaxDay]
BY SpendAssumption DEF StoreTypeOK, Day

LEMMA FaultType ==
    ASSUME StoreTypeOK, Works \/ Fails
    PROVE  faults' \in 0 .. MaxFaults
BY SpendAssumption DEF StoreTypeOK, Works, Fails

LEMMA InitType == Init => TypeOK
<1> SUFFICES ASSUME Init PROVE TypeOK
  OBVIOUS
<1>1. StoreTypeOK
  BY SpendAssumption DEF Init, StoreInit, StoreTypeOK, Day, Missing
<1>2. JobsTypeOK
  BY SpendAssumption DEF Init, JobsInit, JobsTypeOK
<1>3. BudgetTypeOK
  BY BudgetAssumption DEF Init, BudgetTypeOK, HandlerState, LogState, LoadVars, NoCheck, Limits
<1> QED BY <1>1, <1>2, <1>3 DEF TypeOK

LEMMA EnvironmentType == TypeOK /\ Environment => StoreTypeOK'
<1> SUFFICES ASSUME TypeOK, Environment PROVE StoreTypeOK'
  OBVIOUS
<1>t. StoreTypeOK
  BY DEF TypeOK
<1>1. CASE RedisColdStart
  BY <1>t, <1>1, FaultType DEF RedisColdStart, StoreTypeOK
<1>2. ASSUME NEW k \in Key, KeyExpires(k) PROVE StoreTypeOK'
  BY <1>t, <1>2, DelType DEF KeyExpires, StoreTypeOK
<1>3. CASE Midnight
  BY <1>t, <1>3, SpendAssumption DEF Midnight, StoreTypeOK, Day
<1> QED BY <1>1, <1>2, <1>3 DEF Environment

LEMMA JobsType == TypeOK /\ Jobs => StoreTypeOK' /\ JobsTypeOK'
<1> SUFFICES ASSUME TypeOK, Jobs PROVE StoreTypeOK' /\ JobsTypeOK'
  OBVIOUS
<1>t. StoreTypeOK /\ JobsTypeOK
  BY DEF TypeOK
<1>1. ASSUME NEW p \in Period, ReconcileStart(p) PROVE StoreTypeOK' /\ JobsTypeOK'
  <2>1. SpendKey(p, day) \in Key
    BY <1>t, KeyOf DEF StoreTypeOK
  <2> QED BY <1>t, <1>1, <2>1 DEF ReconcileStart, StoreTypeOK, JobsTypeOK, storeVars
<1>2. CASE ReconcileGet
  <2>1. StoreTypeOK'
    BY <1>t, <1>2, FaultType DEF ReconcileGet, StoreTypeOK
  <2>2. rec.key \in Key
    BY <1>t, <1>2 DEF ReconcileGet, JobsTypeOK, RecIdle
  <2>3. spend[rec.key] # Missing => spend[rec.key] \in Nat
    BY <1>t, <2>2 DEF StoreTypeOK
  <2> QED BY <1>t, <1>2, <2>1, <2>2, <2>3 DEF ReconcileGet, JobsTypeOK
<1>3. CASE ReconcileSum
  <2>1. StoreTypeOK'
    BY <1>t, <1>3, FaultType DEF ReconcileSum, StoreTypeOK
  <2>2. rec.key \in Key
    BY <1>t, <1>3 DEF ReconcileSum, JobsTypeOK, RecIdle
  <2>3. SumSince(rec.key[2]) \in Nat
    BY SumType
  <2> QED BY <1>t, <1>3, <2>1, <2>2, <2>3 DEF ReconcileSum, JobsTypeOK
<1>4. CASE ReconcileSet
  <2>1. rec.key \in Key /\ rec.sum \in Nat
    BY <1>t, <1>4 DEF ReconcileSet, JobsTypeOK, RecIdle
  <2>2. StoreTypeOK'
    BY <1>t, <1>4, <2>1, FaultType, PutType DEF ReconcileSet, StoreTypeOK
  <2> QED BY <1>t, <1>4, <2>2 DEF ReconcileSet, JobsTypeOK
<1>5. CASE SweepStart \/ SweepEnd
  BY <1>t, <1>5, SpendAssumption, SMTT(30) DEF SweepStart, SweepEnd, StoreTypeOK, JobsTypeOK, storeVars, Day
<1>6. ASSUME NEW k \in Key, SweepDelete(k) PROVE StoreTypeOK' /\ JobsTypeOK'
  BY <1>t, <1>6, DelType, FaultType DEF SweepDelete, StoreTypeOK, JobsTypeOK, jobVars
<1> QED BY <1>1, <1>2, <1>3, <1>4, <1>5, <1>6 DEF Jobs, Reconcile, Sweep

Checking == {"checking", "summing", "setting"}

\* The handler writes one place and one set of local variables.
LEMMA HandlerLocals ==
    ASSUME BudgetTypeOK, NEW r \in Event,
           NEW st \in HandlerState, Goto(r, st),
           NEW c \in CheckVars \cup LoadVars, chk' = [chk EXCEPT ![r] = c],
           st = "loaded" => c.limits \in Limits,
           st \in Checking => c \in CheckVars /\ c.todo \subseteq Budgeted(c.limits),
           UNCHANGED <<budget, edits, lg, resent>>,
           cache' \in [Proxy -> Limits \cup {NoCache}]
    PROVE  BudgetTypeOK'
<1>1. /\ hst' \in [Event -> HandlerState] /\ hst' = [hst EXCEPT ![r] = st]
      /\ chk' \in [Event -> CheckVars \cup LoadVars]
  BY DEF BudgetTypeOK, Goto
<1>2. ASSUME NEW e \in Event
      PROVE  /\ hst'[e] = "loaded" => chk'[e].limits \in Limits
             /\ hst'[e] \in Checking =>
                   chk'[e] \in CheckVars /\ chk'[e].todo \subseteq Budgeted(chk'[e].limits)
  <2>1. CASE e = r
    BY <1>1, <2>1 DEF BudgetTypeOK
  <2>2. CASE e # r
    <3>1. hst'[e] = hst[e] /\ chk'[e] = chk[e]
      BY <1>1, <2>2 DEF BudgetTypeOK
    <3> QED BY <3>1 DEF BudgetTypeOK, Checking
  <2> QED BY <2>1, <2>2
<1> QED BY <1>1, <1>2 DEF BudgetTypeOK, Checking

LEMMA HandlerGoes ==
    ASSUME BudgetTypeOK, NEW r \in Event, NEW st \in HandlerState, Goto(r, st),
           st \notin Checking, st # "loaded",
           UNCHANGED <<budget, edits, cache, chk, lg, resent>>
    PROVE  BudgetTypeOK'
<1>1. chk' = [chk EXCEPT ![r] = chk[r]] /\ chk[r] \in CheckVars \cup LoadVars
  BY DEF BudgetTypeOK
<1> QED BY <1>1, HandlerLocals DEF BudgetTypeOK

LEMMA ReturnType ==
    ASSUME BudgetTypeOK, NEW r \in Event, NEW st \in {"blocked", "admitted"}, Return(r, st),
           UNCHANGED <<budget, edits, cache, lg, resent>>
    PROVE  BudgetTypeOK'
<1>1. NoCheck \in LoadVars /\ st \in HandlerState /\ st \notin Checking /\ st # "loaded"
  BY DEF NoCheck, LoadVars, HandlerState, Checking
<1>2. Goto(r, st) /\ chk' = [chk EXCEPT ![r] = NoCheck]
  BY DEF Return
<1>3. cache' \in [Proxy -> Limits \cup {NoCache}]
  BY DEF BudgetTypeOK
<1> QED BY <1>1, <1>2, <1>3, HandlerLocals

LEMMA JudgeType ==
    ASSUME BudgetTypeOK, NEW r \in Event,
           hst[r] \in Checking,
           NEW k, NEW v, Judge(r, k, v),
           UNCHANGED <<budget, edits, cache, lg, resent>>
    PROVE  BudgetTypeOK'
<1>1. CASE Return(r, "blocked")
  BY <1>1, ReturnType
<1>2. CASE Goto(r, "checking") /\ chk' = [chk EXCEPT ![r].todo = @ \ {k[1]}]
  <2> DEFINE c == [chk[r] EXCEPT !.todo = @ \ {k[1]}]
  <2>1. chk[r] \in CheckVars /\ chk[r].todo \subseteq Budgeted(chk[r].limits)
    BY DEF BudgetTypeOK, Checking
  <2>2. c \in CheckVars /\ c.todo = chk[r].todo \ {k[1]} /\ c.limits = chk[r].limits
    BY <2>1 DEF CheckVars
  <2>3. chk' = [chk EXCEPT ![r] = c]
    BY <1>2
  <2> HIDE DEF c
  <2> QED BY <1>2, <2>1, <2>2, <2>3, HandlerLocals DEF HandlerState, Checking, BudgetTypeOK
<1> QED BY <1>1, <1>2 DEF Judge

LEMMA SkipType ==
    ASSUME BudgetTypeOK, NEW r \in Event, 
           hst[r] \in Checking,
           NEW p, Skip(r, p), UNCHANGED <<budget, edits, cache, lg, resent>>
    PROVE  BudgetTypeOK'
<1> DEFINE c == [chk[r] EXCEPT !.todo = @ \ {p}]
<1>1. chk[r] \in CheckVars /\ chk[r].todo \subseteq Budgeted(chk[r].limits)
  BY DEF BudgetTypeOK, Checking
<1>2. c \in CheckVars /\ c.todo = chk[r].todo \ {p} /\ c.limits = chk[r].limits
  BY <1>1 DEF CheckVars
<1>3. Goto(r, "checking") /\ chk' = [chk EXCEPT ![r] = c]
  BY DEF Skip
<1> HIDE DEF c
<1> QED BY <1>1, <1>2, <1>3, HandlerLocals DEF HandlerState, Checking, BudgetTypeOK

LEMMA HandlerType ==
    ASSUME TypeOK, NEW r \in Event, Handler(r) PROVE StoreTypeOK' /\ BudgetTypeOK'
<1>t. StoreTypeOK /\ BudgetTypeOK
  BY DEF TypeOK
<1>l. Via[r] \in Proxy /\ cache[Via[r]] \in Limits \cup {NoCache}
  BY <1>t, BudgetAssumption DEF BudgetTypeOK
<1>1. CASE PingFails(r)
  <2>1. StoreTypeOK'
    BY <1>t, <1>1, FaultType DEF PingFails, StoreTypeOK
  <2> QED BY <1>t, <1>1, <2>1, HandlerGoes DEF PingFails, HandlerState, Checking
<1>2. CASE LoadBudgets(r)
  <2>1. StoreTypeOK'
    BY <1>t, <1>2, FaultType DEF LoadBudgets, StoreTypeOK
  <2>2. UNCHANGED <<budget, edits, cache, lg, resent>>
    BY <1>2 DEF LoadBudgets
  <2>3. CASE Goto(r, "loaded") /\ chk' = [chk EXCEPT ![r] = [limits |-> budget]]
    <3> DEFINE c == [limits |-> budget]
    <3>1. c \in LoadVars /\ c.limits \in Limits
      BY <1>t DEF BudgetTypeOK, LoadVars
    <3>2. Goto(r, "loaded") /\ chk' = [chk EXCEPT ![r] = c]
      BY <2>3
    <3>3. "loaded" \in HandlerState /\ "loaded" \notin Checking
      BY DEF HandlerState, Checking
    <3>4. cache' \in [Proxy -> Limits \cup {NoCache}]
      BY <1>t, <2>2 DEF BudgetTypeOK
    <3> HIDE DEF c
    <3>5. BudgetTypeOK'
      BY <1>t, <2>2, <3>1, <3>2, <3>3, <3>4, HandlerLocals
    <3> QED BY <2>1, <3>5
  <2>4. CASE Goto(r, "admitted") /\ UNCHANGED chk
    BY <1>t, <2>1, <2>2, <2>4, HandlerGoes DEF HandlerState, Checking
  <2> QED BY <1>2, <2>3, <2>4 DEF LoadBudgets
<1>3. CASE BeginCheck(r)
  <2>1. StoreTypeOK'
    BY <1>t, <1>3 DEF BeginCheck, StoreTypeOK, storeVars
  <2>0. PICK limits \in Limits :
          Check(r, limits) /\ (UNCHANGED cache \/ Remember(Via[r], limits))
    BY <1>t, <1>l, <1>3 DEF BeginCheck, BudgetTypeOK
  <2> DEFINE c == [limits |-> limits, todo |-> Budgeted(limits), now |-> day,
                   key |-> CHOOSE k \in Key : TRUE, sum |-> 0,
                   seen |-> {e \in Event : hst[e] = "done" /\ stored[e] > 0}]
  <2>2. Budgeted(limits) \in SUBSET Period
    BY DEF Budgeted
  <2>3. (CHOOSE k \in Key : TRUE) \in Key
    <3>1. PICK p \in Period : TRUE
      BY SpendAssumption
    <3>2. 1 \in Day
      BY SpendAssumption DEF Day
    <3> QED BY <3>1, <3>2, KeyOf
  <2>4. day \in Day
    BY <1>t DEF StoreTypeOK
  <2>5. c \in CheckVars /\ c.todo = Budgeted(limits) /\ c.limits = limits
    BY <2>2, <2>3, <2>4 DEF CheckVars
  <2>6. chk' = [chk EXCEPT ![r] = c] /\ Goto(r, "checking")
    BY <2>0 DEF Check
  <2>7. UNCHANGED <<budget, edits, lg, resent>>
    BY <1>3 DEF BeginCheck
  <2>8. cache' \in [Proxy -> Limits \cup {NoCache}]
    BY <1>t, <1>l, <2>0, RememberType DEF BudgetTypeOK
  <2> HIDE DEF c
  <2>9. BudgetTypeOK'
    BY <1>t, <2>5, <2>6, <2>7, <2>8, HandlerLocals DEF HandlerState
  <2> QED BY <2>1, <2>9
<1>4. ASSUME NEW p \in Period, CheckGet(r, p) PROVE StoreTypeOK' /\ BudgetTypeOK'
  <2> DEFINE k == SpendKey(p, chk[r].now)
  <2>1. StoreTypeOK'
    BY <1>t, <1>4, FaultType DEF CheckGet, StoreTypeOK
  <2>2. hst[r] = "checking" /\ UNCHANGED <<budget, edits, cache, lg, resent>>
    BY <1>4 DEF CheckGet
  <2>3. CASE Judge(r, k, spend[k])
    BY <1>t, <2>1, <2>2, <2>3, JudgeType DEF Checking
  <2>4. CASE Goto(r, "summing") /\ chk' = [chk EXCEPT ![r].key = k]
    <3> DEFINE c == [chk[r] EXCEPT !.key = k]
    <3>1. chk[r] \in CheckVars /\ chk[r].todo \subseteq Budgeted(chk[r].limits)
      BY <1>t, <2>2 DEF BudgetTypeOK
    <3>2. k \in Key
      BY <3>1, KeyOf DEF CheckVars
    <3>3. c \in CheckVars /\ c.todo = chk[r].todo /\ c.limits = chk[r].limits
      BY <3>1, <3>2 DEF CheckVars
    <3>4. chk' = [chk EXCEPT ![r] = c]
      BY <2>4
    <3> HIDE DEF c, k
    <3>5. cache' \in [Proxy -> Limits \cup {NoCache}] /\ "summing" \in HandlerState
      BY <1>t, <2>2 DEF BudgetTypeOK, HandlerState
    <3>6. c.todo \subseteq Budgeted(c.limits) /\ c \in CheckVars \cup LoadVars
      BY <3>1, <3>3
    <3>7. BudgetTypeOK'
      BY <1>t, <2>2, <2>4, <3>3, <3>4, <3>5, <3>6, HandlerLocals
    <3> QED BY <2>1, <3>7
  <2>5. CASE Skip(r, p)
    BY <1>t, <2>1, <2>2, <2>5, SkipType DEF Checking
  <2> QED BY <1>4, <2>3, <2>4, <2>5 DEF CheckGet
<1>5. CASE CheckSum(r)
  <2> DEFINE p == chk[r].key[1]
  <2>1. StoreTypeOK'
    BY <1>t, <1>5, FaultType DEF CheckSum, StoreTypeOK
  <2>2. hst[r] = "summing" /\ UNCHANGED <<budget, edits, cache, lg, resent>>
    BY <1>5 DEF CheckSum
  <2>3. CASE Goto(r, "setting") /\ chk' = [chk EXCEPT ![r].sum = SumSince(Start[p][day])]
    <3> DEFINE c == [chk[r] EXCEPT !.sum = SumSince(Start[p][day])]
    <3>1. chk[r] \in CheckVars /\ chk[r].todo \subseteq Budgeted(chk[r].limits)
      BY <1>t, <2>2 DEF BudgetTypeOK
    <3>2. SumSince(Start[p][day]) \in Nat
      BY SumType
    <3>3. c \in CheckVars /\ c.todo = chk[r].todo /\ c.limits = chk[r].limits
      BY <3>1, <3>2 DEF CheckVars
    <3>4. chk' = [chk EXCEPT ![r] = c]
      BY <2>3
    <3> HIDE DEF c
    <3>5. cache' \in [Proxy -> Limits \cup {NoCache}] /\ "setting" \in HandlerState
      BY <1>t, <2>2 DEF BudgetTypeOK, HandlerState
    <3>6. c.todo \subseteq Budgeted(c.limits) /\ c \in CheckVars \cup LoadVars
      BY <3>1, <3>3
    <3>7. BudgetTypeOK'
      BY <1>t, <2>2, <2>3, <3>3, <3>4, <3>5, <3>6, HandlerLocals
    <3> QED BY <2>1, <3>7
  <2>4. CASE Skip(r, p)
    BY <1>t, <2>1, <2>2, <2>4, SkipType DEF Checking
  <2> QED BY <1>5, <2>3, <2>4 DEF CheckSum
<1>6. CASE CheckSet(r)
  <2>1. hst[r] = "setting" /\ UNCHANGED <<budget, edits, cache, lg, resent>> /\ UNCHANGED <<day, stored>>
    BY <1>6 DEF CheckSet
  <2>2. chk[r].key \in Key /\ chk[r].sum \in Nat
    BY <1>t, <2>1 DEF BudgetTypeOK, CheckVars
  <2>3. StoreTypeOK'
    BY <1>t, <1>6, <2>1, <2>2, FaultType, PutType DEF CheckSet, StoreTypeOK
  <2>4. CASE Judge(r, chk[r].key, chk[r].sum)
    BY <1>t, <2>1, <2>3, <2>4, JudgeType DEF Checking
  <2>5. CASE UNCHANGED <<hst, chk>>
    BY <1>t, <2>1, <2>3, <2>5 DEF BudgetTypeOK
  <2> QED BY <1>6, <2>4, <2>5 DEF CheckSet
<1>7. CASE Admit(r)
  <2>1. StoreTypeOK'
    BY <1>t, <1>7 DEF Admit, StoreTypeOK, storeVars
  <2> QED BY <1>t, <1>7, <2>1, ReturnType DEF Admit
<1>8. ASSUME NEW st \in {"pending", "done"}, Answer(r, st) PROVE StoreTypeOK' /\ BudgetTypeOK'
  <2>1. StoreTypeOK'
    BY <1>t, <1>8 DEF Answer, StoreTypeOK, storeVars
  <2> QED BY <1>t, <1>8, <2>1, HandlerGoes DEF Answer, HandlerState, Checking
<1>9. CASE AnswerFailOpen(r)
  <2>1. StoreTypeOK'
    BY <1>t, <1>9, RowType, FaultType DEF AnswerFailOpen, StoreTypeOK
  <2> QED BY <1>t, <1>9, <2>1, HandlerGoes DEF AnswerFailOpen, HandlerState, Checking
<1> QED BY <1>1, <1>2, <1>3, <1>4, <1>5, <1>6, <1>7, <1>8, <1>9 DEF Handler

LEMMA InsertLateType ==
    ASSUME TypeOK, NEW r \in Event, InsertLate(r) PROVE StoreTypeOK' /\ BudgetTypeOK'
<1>t. StoreTypeOK /\ BudgetTypeOK
  BY DEF TypeOK
<1>1. StoreTypeOK'
  BY <1>t, RowType DEF InsertLate, StoreTypeOK
<1> QED BY <1>t, <1>1, HandlerGoes DEF InsertLate, HandlerState, Checking

LEMMA LoggerGoes ==
    ASSUME BudgetTypeOK, NEW x \in Proxy, NEW l \in LogState, lg' = [lg EXCEPT ![x] = l],
           UNCHANGED <<budget, edits, chk>>, resent' \in Nat,
           cache' \in [Proxy -> Limits \cup {NoCache}],
           hst' = hst \/ \E r \in Event : Goto(r, "done")
    PROVE  BudgetTypeOK'
<1>1. lg' \in [Proxy -> LogState]
  BY DEF BudgetTypeOK
<1>2. /\ hst' \in [Event -> HandlerState]
      /\ \A e \in Event : hst'[e] # "done" => hst'[e] = hst[e]
  BY DEF BudgetTypeOK, Goto, HandlerState
<1> QED BY <1>1, <1>2 DEF BudgetTypeOK

\* The local variables of the logger, by its place.
LEMMA LogVars ==
    ASSUME BudgetTypeOK, NEW x \in Proxy
    PROVE  /\ lg[x].at \in {"idle", "load", "store", "incr", "send", "ttl", "expire"}
           /\ lg[x] = LogIdle <=> lg[x].at = "idle"
           /\ lg[x].at # "idle" => lg[x].event \in Event
           /\ lg[x].at = "store" => lg[x].limits \in Limits
           /\ lg[x].at \in {"incr", "send", "ttl", "expire"} => lg[x].todo \in SUBSET Period
           /\ lg[x].at \in {"send", "ttl", "expire"} => lg[x].key \in Key
BY DEF BudgetTypeOK, LogState, LogIdle

\* Records a logger can be in.
LEMMA LogRecords ==
    ASSUME NEW e \in Event, NEW S \in SUBSET Period, NEW k \in Key, NEW limits \in Limits
    PROVE  /\ LogIdle \in LogState
           /\ [at |-> "load", event |-> e] \in LogState
           /\ [at |-> "store", event |-> e, limits |-> limits] \in LogState
           /\ [at |-> "incr", event |-> e, todo |-> S] \in LogState
           /\ \A a \in {"send", "ttl", "expire"} :
                [at |-> a, event |-> e, todo |-> S, key |-> k] \in LogState
BY DEF LogState

\* From "send" on, the next place with the same locals.
LEMMA LogSame ==
    ASSUME BudgetTypeOK, NEW x \in Proxy, lg[x].at \in {"send", "ttl", "expire"},
           NEW a \in {"send", "ttl", "expire"}
    PROVE  /\ [lg[x] EXCEPT !.at = a] \in LogState
           /\ [lg[x] EXCEPT !.at = a].at = a
           /\ [lg[x] EXCEPT !.at = a].event = lg[x].event
           /\ [lg[x] EXCEPT !.at = a].todo = lg[x].todo
           /\ [lg[x] EXCEPT !.at = a].key = lg[x].key
<1>1. lg[x] \in [at : {"send", "ttl", "expire"}, event : Event, todo : SUBSET Period, key : Key]
  BY DEF BudgetTypeOK, LogState, LogIdle
<1> QED BY <1>1 DEF LogState

\* The steps of a logger with its event.
LEMMA LoggerMoves ==
    ASSUME BudgetTypeOK, NEW x \in Proxy, Logger(x)
    PROVE  /\ \A y \in Proxy : y # x => lg'[y] = lg[y]
           /\ UNCHANGED <<day, chk, jobVars>>
           /\ \/ \E r \in Event :
                    /\ lg[x].at = "idle" /\ hst[r] = "pending" /\ Via[r] = x
                    /\ \/ /\ stored' = [stored EXCEPT ![r] = day]
                          /\ lg'[x] = [at |-> "load", event |-> r]
                          /\ UNCHANGED <<hst, spend>>
                       \/ /\ UNCHANGED <<stored, lg, spend>>
                          /\ hst' = [hst EXCEPT ![r] = "late"]
              \/ /\ lg[x].at # "idle" /\ lg'[x].at # "idle" /\ lg'[x].event = lg[x].event
                 /\ UNCHANGED <<hst, stored>>
              \/ /\ lg[x].at # "idle" /\ lg'[x].at = "idle"
                 /\ hst' = [hst EXCEPT ![lg[x].event] = "done"]
                 /\ UNCHANGED <<stored, spend>>
<1>1. lg \in [Proxy -> LogState]
  BY DEF BudgetTypeOK
<1>2. CASE \E r \in Event : Insert(x, r)
  BY <1>1, <1>2 DEF Insert, AtLog, Goto, LogIdle
<1>3. CASE RecordLoad(x)
  BY <1>1, <1>3 DEF RecordLoad, AtLog
<1>4. CASE RecordStore(x) \/ \E p \in Period : RecordSpend(x, p)
  BY <1>1, <1>4 DEF RecordStore, RecordSpend, AtLog, storeVars
<1>s. ASSUME lg[x].at \in {"send", "ttl", "expire"}, NEW a \in {"send", "ttl", "expire"},
             lg' = [lg EXCEPT ![x].at = a]
      PROVE  /\ lg'[x].at # "idle" /\ lg'[x].event = lg[x].event
             /\ \A y \in Proxy : y # x => lg'[y] = lg[y]
  <2>1. lg'[x] = [lg[x] EXCEPT !.at = a] /\ \A y \in Proxy : y # x => lg'[y] = lg[y]
    BY <1>1, <1>s
  <2>2. [lg[x] EXCEPT !.at = a].at = a /\ [lg[x] EXCEPT !.at = a].event = lg[x].event
    BY <1>s, LogSame
  <2> QED BY <1>s, <2>1, <2>2
<1>p. ASSUME NextPeriod(x)
      PROVE  /\ lg'[x].at # "idle" /\ lg'[x].event = lg[x].event
             /\ \A y \in Proxy : y # x => lg'[y] = lg[y]
  BY <1>1, <1>p DEF NextPeriod, AtLog
<1>5. CASE RecordIncr(x)
  <2>1. lg[x].at = "send" /\ UNCHANGED <<day, chk, jobVars, hst, stored>>
    BY <1>5 DEF RecordIncr
  <2>2. NextPeriod(x) \/ lg' = [lg EXCEPT ![x].at = "ttl"] \/ UNCHANGED lg
    BY <1>5 DEF RecordIncr
  <2>3. /\ lg'[x].at # "idle" /\ lg'[x].event = lg[x].event
        /\ \A y \in Proxy : y # x => lg'[y] = lg[y]
    BY <1>s, <1>p, <2>1, <2>2
  <2> QED BY <2>1, <2>3
<1>6. CASE RecordTTL(x)
  <2>1. lg[x].at = "ttl" /\ UNCHANGED <<day, chk, jobVars, hst, stored>>
    BY <1>6 DEF RecordTTL
  <2>2. NextPeriod(x) \/ lg' = [lg EXCEPT ![x].at = "expire"]
    BY <1>6 DEF RecordTTL
  <2>3. /\ lg'[x].at # "idle" /\ lg'[x].event = lg[x].event
        /\ \A y \in Proxy : y # x => lg'[y] = lg[y]
    BY <1>s, <1>p, <2>1, <2>2
  <2> QED BY <2>1, <2>3
<1>7. CASE RecordExpire(x)
  BY <1>p, <1>7 DEF RecordExpire
<1>8. CASE RecordEnd(x)
  BY <1>1, <1>8 DEF RecordEnd, AtLog, Goto, LogIdle, storeVars
<1> QED BY <1>2, <1>3, <1>4, <1>5, <1>6, <1>7, <1>8 DEF Logger

LEMMA LoggerType ==
    ASSUME TypeOK, NEW x \in Proxy, Logger(x) PROVE StoreTypeOK' /\ BudgetTypeOK'
<1>t. StoreTypeOK /\ BudgetTypeOK
  BY DEF TypeOK
<1>c. /\ cache \in [Proxy -> Limits \cup {NoCache}] /\ budget \in Limits
      /\ resent \in Nat
  BY <1>t DEF BudgetTypeOK
<1>b. \A limits : Budgeted(limits) \in SUBSET Period
  BY DEF Budgeted
<1>1. ASSUME NEW r \in Event, Insert(x, r) PROVE StoreTypeOK' /\ BudgetTypeOK'
  <2>1. StoreTypeOK'
    BY <1>t, <1>1, RowType, FaultType DEF Insert, StoreTypeOK
  <2>2. [at |-> "load", event |-> r] \in LogState
    BY DEF LogState
  <2>3. CASE AtLog(x, [at |-> "load", event |-> r]) /\ UNCHANGED hst
    BY <1>t, <1>c, <1>1, <2>1, <2>2, <2>3, LoggerGoes DEF Insert, AtLog
  <2>4. CASE Goto(r, "late") /\ UNCHANGED lg
    BY <1>t, <1>1, <2>1, <2>4, HandlerGoes DEF Insert, HandlerState, Checking
  <2> QED BY <1>1, <2>3, <2>4 DEF Insert
<1>2. CASE RecordLoad(x)
  <2>1. StoreTypeOK'
    BY <1>t, <1>2, FaultType DEF RecordLoad, StoreTypeOK
  <2>2. lg[x].event \in Event
    BY <1>t, <1>2, LogVars DEF RecordLoad
  <2>3. PICK l \in LogState : AtLog(x, l)
    <3>1. /\ \A S \in SUBSET Period : [at |-> "incr", event |-> lg[x].event, todo |-> S] \in LogState
          /\ [at |-> "store", event |-> lg[x].event, limits |-> budget] \in LogState
      BY <1>c, <2>2 DEF LogState
    <3> QED BY <1>2, <1>b, <3>1 DEF RecordLoad
  <2> QED BY <1>t, <1>c, <1>2, <2>1, <2>3, LoggerGoes DEF RecordLoad, AtLog
<1>3. CASE RecordStore(x)
  <2>1. StoreTypeOK'
    BY <1>t, <1>3 DEF RecordStore, StoreTypeOK, storeVars
  <2>2. lg[x].event \in Event /\ lg[x].limits \in Limits
    BY <1>t, <1>3, LogVars DEF RecordStore
  <2>3. cache' \in [Proxy -> Limits \cup {NoCache}]
    BY <1>t, <1>3, <2>2, RememberType DEF RecordStore
  <2>4. [at |-> "incr", event |-> lg[x].event, todo |-> Budgeted(lg[x].limits)] \in LogState
    BY <1>b, <2>2 DEF LogState
  <2> QED BY <1>t, <1>c, <1>3, <2>1, <2>3, <2>4, LoggerGoes DEF RecordStore, AtLog
<1>4. ASSUME NEW p \in Period, RecordSpend(x, p) PROVE StoreTypeOK' /\ BudgetTypeOK'
  <2>1. StoreTypeOK'
    BY <1>t, <1>4 DEF RecordSpend, StoreTypeOK, storeVars
  <2>2. lg[x].event \in Event /\ lg[x].todo \ {p} \in SUBSET Period
    BY <1>t, <1>4, LogVars DEF RecordSpend
  <2>3. SpendKey(p, day) \in Key
    BY <1>t, KeyOf DEF StoreTypeOK
  <2>4. [at |-> "send", event |-> lg[x].event, todo |-> lg[x].todo \ {p},
         key |-> SpendKey(p, day)] \in LogState
    BY <2>2, <2>3, LogRecords DEF LogState
  <2> QED BY <1>t, <1>c, <1>4, <2>1, <2>4, LoggerGoes DEF RecordSpend, AtLog
<1>5. ASSUME lg[x].at \in {"send", "ttl", "expire"}
      PROVE  /\ lg[x].event \in Event /\ lg[x].todo \in SUBSET Period /\ lg[x].key \in Key
             /\ [at |-> "incr", event |-> lg[x].event, todo |-> lg[x].todo] \in LogState
  BY <1>t, <1>5, LogVars DEF LogState
<1>6. CASE RecordIncr(x)
  <2>1. lg[x].at = "send" /\ lg[x].key \in Key /\ Cost[lg[x].event] \in Nat
    BY <1>5, <1>6, SpendAssumption DEF RecordIncr
  <2>2. StoreTypeOK'
    BY <1>t, <1>6, <2>1, FaultType, IncrType DEF RecordIncr, StoreTypeOK
  <2>3. PICK l \in LogState : lg' = [lg EXCEPT ![x] = l]
    <3>1. CASE lg' = [lg EXCEPT ![x].at = "ttl"]
      BY <1>t, <2>1, <3>1, LogSame
    <3>2. CASE NextPeriod(x)
      BY <1>5, <2>1, <3>2 DEF NextPeriod, AtLog
    <3>3. CASE UNCHANGED lg
      BY <1>t, <3>3 DEF BudgetTypeOK
    <3> QED BY <1>6, <3>1, <3>2, <3>3 DEF RecordIncr
  <2>4. resent' \in Nat
    BY <1>c, <1>6 DEF RecordIncr
  <2> QED BY <1>t, <1>c, <1>6, <2>2, <2>3, <2>4, LoggerGoes DEF RecordIncr
<1>7. CASE RecordTTL(x)
  <2>1. StoreTypeOK'
    BY <1>t, <1>7, FaultType DEF RecordTTL, StoreTypeOK
  <2>2. PICK l \in LogState : lg' = [lg EXCEPT ![x] = l]
    <3>1. CASE lg' = [lg EXCEPT ![x].at = "expire"]
      BY <1>t, <1>7, <3>1, LogSame DEF RecordTTL
    <3>2. CASE NextPeriod(x)
      BY <1>5, <1>7, <3>2 DEF NextPeriod, AtLog, RecordTTL
    <3> QED BY <1>7, <3>1, <3>2 DEF RecordTTL
  <2> QED BY <1>t, <1>c, <1>7, <2>1, <2>2, LoggerGoes DEF RecordTTL
<1>8. CASE RecordExpire(x)
  <2>1. lg[x].key \in Key
    BY <1>5, <1>8 DEF RecordExpire
  <2>2. StoreTypeOK'
    BY <1>t, <1>8, <2>1, FaultType DEF RecordExpire, Expire, StoreTypeOK
  <2>3. PICK l \in LogState : lg' = [lg EXCEPT ![x] = l]
    BY <1>5, <1>8 DEF RecordExpire, NextPeriod, AtLog
  <2> QED BY <1>t, <1>c, <1>8, <2>2, <2>3, LoggerGoes DEF RecordExpire
<1>9. CASE RecordEnd(x)
  <2>1. StoreTypeOK'
    BY <1>t, <1>9 DEF RecordEnd, StoreTypeOK, storeVars
  <2>2. lg[x].event \in Event /\ LogIdle \in LogState
    BY <1>t, <1>9, LogVars DEF RecordEnd, LogState
  <2> QED BY <1>t, <1>c, <1>9, <2>1, <2>2, LoggerGoes DEF RecordEnd, AtLog
<1> QED BY <1>1, <1>2, <1>3, <1>4, <1>6, <1>7, <1>8, <1>9 DEF Logger

LEMMA EndType ==
    ASSUME TypeOK, NEW x \in Proxy, EndProxy(x) PROVE StoreTypeOK' /\ BudgetTypeOK'
<1>t. StoreTypeOK /\ BudgetTypeOK
  BY DEF TypeOK
<1>1. StoreTypeOK'
  BY <1>t, FaultType DEF EndProxy, StoreTypeOK
<1>2. NoCheck \in LoadVars /\ LogIdle \in LogState /\ "done" \in HandlerState
  BY DEF NoCheck, LoadVars, LogState, HandlerState
<1>3. PICK lost \in SUBSET Event :
        /\ hst' = [e \in Event |-> IF e \in lost THEN "done" ELSE hst[e]]
        /\ chk' = [e \in Event |-> IF e \in lost THEN NoCheck ELSE chk[e]]
  BY DEF EndProxy
<1>4. \A e \in Event :
        hst'[e] = "done" \/ (hst'[e] = hst[e] /\ chk'[e] = chk[e])
  BY <1>3
<1>5. hst' \in [Event -> HandlerState] /\ chk' \in [Event -> CheckVars \cup LoadVars]
  BY <1>t, <1>2, <1>3 DEF BudgetTypeOK
<1>6. /\ lg' \in [Proxy -> LogState] /\ cache' \in [Proxy -> Limits \cup {NoCache}]
      /\ UNCHANGED <<budget, edits, resent>>
  BY <1>t, <1>2 DEF EndProxy, BudgetTypeOK
<1> QED BY <1>t, <1>1, <1>4, <1>5, <1>6 DEF BudgetTypeOK

LEMMA ApiType ==
    ASSUME TypeOK, Api PROVE StoreTypeOK' /\ BudgetTypeOK'
<1>t. StoreTypeOK /\ BudgetTypeOK
  BY DEF TypeOK
<1>1. PICK p \in Period, limit \in Limit : SetBudget(p, limit)
  BY DEF Api, Upsert, Delete, Limit
<1>2. budget' \in Limits
  BY <1>t, <1>1 DEF SetBudget, BudgetTypeOK, Limits
<1>3. edits' \in 0 .. MaxEdits
  BY <1>t, <1>1, BudgetAssumption DEF SetBudget, BudgetTypeOK
<1> QED BY <1>t, <1>1, <1>2, <1>3 DEF SetBudget, BudgetTypeOK, StoreTypeOK, storeVars

LEMMA NextType == TypeOK /\ [Next]_vars => TypeOK'
<1> SUFFICES ASSUME TypeOK, [Next]_vars PROVE TypeOK'
  OBVIOUS
<1>t. StoreTypeOK /\ JobsTypeOK /\ BudgetTypeOK
  BY DEF TypeOK
<1>1. ASSUME UNCHANGED jobVars PROVE JobsTypeOK'
  BY <1>t, <1>1 DEF JobsTypeOK, jobVars
<1>2. ASSUME UNCHANGED proxyVars PROVE BudgetTypeOK'
  BY <1>t, <1>2 DEF BudgetTypeOK, proxyVars
<1>3. ASSUME NEW r \in Event, Handler(r) PROVE TypeOK'
  <2>1. UNCHANGED jobVars
    BY <1>3 DEF Handler, PingFails, LoadBudgets, BeginCheck, CheckGet, CheckSum, CheckSet, Admit,
       Answer, AnswerFailOpen
  <2> QED BY <1>1, <1>3, <2>1, HandlerType DEF TypeOK
<1>4. ASSUME NEW r \in Event, InsertLate(r) PROVE TypeOK'
  BY <1>1, <1>4, InsertLateType DEF TypeOK, InsertLate
<1>5. ASSUME NEW x \in Proxy, Logger(x) PROVE TypeOK'
  <2>1. UNCHANGED jobVars
    BY <1>5 DEF Logger, Insert, RecordLoad, RecordStore, RecordSpend, RecordIncr, RecordTTL,
       RecordExpire, RecordEnd
  <2> QED BY <1>1, <1>5, <2>1, LoggerType DEF TypeOK
<1>6. ASSUME NEW x \in Proxy, CacheExpires(x) PROVE TypeOK'
  BY <1>t, <1>1, <1>6 DEF TypeOK, CacheExpires, storeVars, StoreTypeOK, BudgetTypeOK
<1>7. CASE Api
  <2>1. UNCHANGED jobVars
    BY <1>7 DEF Api, Upsert, Delete, SetBudget
  <2> QED BY <1>1, <1>7, <2>1, ApiType DEF TypeOK
<1>8. CASE Jobs /\ UNCHANGED proxyVars
  BY <1>2, <1>8, JobsType DEF TypeOK
<1>9. CASE Environment /\ UNCHANGED <<jobVars, proxyVars>>
  BY <1>1, <1>2, <1>9, EnvironmentType DEF TypeOK
<1>10. CASE UNCHANGED vars
  BY <1>t, <1>1, <1>2, <1>10 DEF TypeOK, vars, storeVars, StoreTypeOK
<1>11. ASSUME NEW x \in Proxy, EndProxy(x) PROVE TypeOK'
  BY <1>1, <1>11, EndType DEF TypeOK, EndProxy
<1> QED BY <1>3, <1>4, <1>5, <1>6, <1>7, <1>8, <1>9, <1>10, <1>11 DEF Next

\* All variables of the stores, the jobs and the proxies keep their types.
THEOREM TypeCorrect == Spec => []TypeOK
BY InitType, NextType, PTL DEF Spec

-----------------------------------------------------------------------------
(***************************************************************************)
(* Expiries.                                                               *)
(***************************************************************************)
Unexpiring(k) == spend[k] # Missing /\ k \notin ttl

\* The logger of x is about to give key k an expiry.
Expiring(x, k) == lg[x].at \in {"send", "ttl", "expire"} /\ lg[x].key = k

LEMMA OrphansFinite == IsFiniteSet(Orphans) /\ IsFiniteSet(Orphans')
<1>1. IsFiniteSet(Day)
  BY SpendAssumption, FS_Interval DEF Day
<1>2. IsFiniteSet(Period \X Day)
  BY <1>1, SpendAssumption, FS_Product
<1>3. Key \subseteq Period \X Day /\ Orphans \subseteq Key /\ Orphans' \subseteq Key
  BY DEF Key, Orphans
<1>4. Orphans \subseteq Period \X Day /\ Orphans' \subseteq Period \X Day
  BY <1>3
<1> QED BY <1>2, <1>4, FS_Subset

LEMMA NoNewOrphan ==
    ASSUME TypeOK, TypeOK', CountersExpire, faults' >= faults, Orphans' \subseteq Orphans
    PROVE  CountersExpire'
<1>1. Cardinality(Orphans') <= Cardinality(Orphans) /\ Cardinality(Orphans') \in Nat
      /\ Cardinality(Orphans) \in Nat
  BY OrphansFinite, FS_Subset, FS_CardinalityType
<1>2. faults \in Nat /\ faults' \in Nat
  BY SpendAssumption DEF TypeOK, StoreTypeOK
<1> QED BY <1>1, <1>2 DEF CountersExpire

LEMMA OneNewOrphan ==
    ASSUME TypeOK, TypeOK', CountersExpire, Fails, NEW l, Orphans' \subseteq Orphans \cup {l}
    PROVE  CountersExpire'
<1>1. /\ IsFiniteSet(Orphans \cup {l})
      /\ Cardinality(Orphans \cup {l}) <= Cardinality(Orphans) + 1
  <2>1. Cardinality(Orphans) \in Nat
    BY OrphansFinite, FS_CardinalityType
  <2>2. CASE l \in Orphans
    <3>1. Orphans \cup {l} = Orphans
      BY <2>2
    <3> QED BY <2>1, <3>1, OrphansFinite
  <2>3. CASE l \notin Orphans
    <3>1. /\ IsFiniteSet(Orphans \cup {l})
          /\ Cardinality(Orphans \cup {l}) = Cardinality(Orphans) + 1
      BY <2>3, OrphansFinite, FS_AddElement
    <3> QED BY <2>1, <3>1
  <2> QED BY <2>2, <2>3
<1>2. /\ Cardinality(Orphans') <= Cardinality(Orphans \cup {l})
      /\ Cardinality(Orphans') \in Nat /\ Cardinality(Orphans) \in Nat
      /\ Cardinality(Orphans \cup {l}) \in Nat
  BY <1>1, OrphansFinite, FS_Subset, FS_CardinalityType
<1>3. faults \in Nat /\ faults' = faults + 1
  BY SpendAssumption DEF TypeOK, StoreTypeOK, Fails
<1> QED BY <1>1, <1>2, <1>3 DEF CountersExpire

\* A step that leaves the loggers alone and takes no expiry away.
LEMMA ExpiryKept ==
    ASSUME TypeOK, TypeOK', CountersExpire, faults' >= faults, UNCHANGED lg,
           \A k \in Key : Unexpiring(k)' => Unexpiring(k)
    PROVE  CountersExpire'
<1>1. Orphans' \subseteq Orphans
  BY DEF Orphans, Unexpiring
<1> QED BY <1>1, NoNewOrphan

\* A step of one logger, about one key.
LEMMA LoggerExpiry ==
    ASSUME TypeOK, TypeOK', CountersExpire, faults' >= faults, NEW x \in Proxy, NEW l,
           \A y \in Proxy : y # x => lg'[y] = lg[y],
           lg[x].at \in {"send", "ttl", "expire"} => lg[x].key = l,
           \A k \in Key : k # l /\ Unexpiring(k)' => Unexpiring(k),
           Fails \/ (l \in Key /\ Unexpiring(l)' => Expiring(x, l)')
    PROVE  CountersExpire'
<1>1. \A k \in Key : \A y \in Proxy : k # l /\ Expiring(y, k) => Expiring(y, k)'
  BY DEF Expiring
<1>2. \A k : k \in Orphans <=> k \in Key /\ Unexpiring(k) /\ \A y \in Proxy : ~Expiring(y, k)
  BY DEF Orphans, Unexpiring, Expiring
<1>3. \A k : k \in Orphans' <=> k \in Key /\ Unexpiring(k)' /\ \A y \in Proxy : ~Expiring(y, k)'
  BY DEF Orphans, Unexpiring, Expiring
<1>4. Orphans' \subseteq Orphans \cup {l}
  BY <1>1, <1>2, <1>3
<1>5. CASE Fails
  BY <1>4, <1>5, OneNewOrphan
<1>6. CASE l \in Key /\ Unexpiring(l)' => Expiring(x, l)'
  <2>1. l \notin Orphans'
    BY <1>3, <1>6
  <2>2. Orphans' \subseteq Orphans
    BY <1>4, <2>1
  <2> QED BY <2>2, NoNewOrphan
<1> QED BY <1>5, <1>6

LEMMA PutExpires ==
    ASSUME StoreTypeOK, NEW l \in Key, NEW v \in Nat,
           Put(l, v) \/ Del(l) \/ Expire(l) \/ UNCHANGED <<spend, ttl>>
    PROVE  \A k \in Key : Unexpiring(k)' => Unexpiring(k)
BY DEF StoreTypeOK, Put, Del, Expire, Unexpiring, Missing

LEMMA FaultsGrow ==
    ASSUME StoreTypeOK, [Next]_vars
    PROVE  faults' >= faults
<1>1. faults \in Nat
  BY SpendAssumption DEF StoreTypeOK
<1>2. Works \/ Fails => faults' >= faults
  BY <1>1 DEF Works, Fails
<1>3. UNCHANGED faults => faults' >= faults
  BY <1>1
<1>4. ASSUME NEW r \in Event, Handler(r) \/ InsertLate(r) PROVE Works \/ Fails \/ UNCHANGED faults
  BY <1>4 DEF Handler, InsertLate, PingFails, LoadBudgets, BeginCheck, CheckGet, CheckSum, CheckSet,
     Admit, Answer, AnswerFailOpen, storeVars
<1>5. ASSUME NEW x \in Proxy, Logger(x) \/ CacheExpires(x) \/ EndProxy(x)
      PROVE  Works \/ Fails \/ UNCHANGED faults
  BY <1>5 DEF Logger, CacheExpires, EndProxy, Insert, RecordLoad, RecordStore, RecordSpend, RecordIncr,
     RecordTTL, RecordExpire, RecordEnd, storeVars
<1>6. Api \/ Jobs \/ Environment \/ UNCHANGED vars => Works \/ Fails \/ UNCHANGED faults
  BY DEF Api, Upsert, Delete, SetBudget, Jobs, Reconcile, ReconcileStart, ReconcileGet, ReconcileSum,
     ReconcileSet, Sweep, SweepStart, SweepDelete, SweepEnd, Environment, RedisColdStart, KeyExpires,
     Midnight, storeVars, vars
<1> QED BY <1>2, <1>3, <1>4, <1>5, <1>6 DEF Next

LEMMA NextExpire == TypeOK /\ CountersExpire /\ [Next]_vars => CountersExpire'
<1> SUFFICES ASSUME TypeOK, CountersExpire, [Next]_vars PROVE CountersExpire'
  OBVIOUS
<1>t. StoreTypeOK /\ JobsTypeOK /\ BudgetTypeOK
  BY DEF TypeOK
<1>n. TypeOK'
  BY NextType
<1>f. faults' >= faults
  BY <1>t, FaultsGrow
<1>u. ASSUME UNCHANGED <<spend, ttl>> PROVE \A k \in Key : Unexpiring(k)' => Unexpiring(k)
  BY <1>u DEF Unexpiring
<1>1. ASSUME NEW r \in Event, Handler(r) PROVE CountersExpire'
  <2>1. UNCHANGED lg
    BY <1>1 DEF Handler, PingFails, LoadBudgets, BeginCheck, CheckGet, CheckSum, CheckSet, Admit,
       Answer, AnswerFailOpen
  <2>2. CASE CheckSet(r)
    <3>1. chk[r].key \in Key /\ chk[r].sum \in Nat
      BY <1>t, <2>2 DEF CheckSet, BudgetTypeOK, CheckVars
    <3>2. Put(chk[r].key, chk[r].sum) \/ UNCHANGED <<spend, ttl>>
      BY <2>2 DEF CheckSet
    <3> QED BY <1>n, <1>f, <1>t, <2>1, <3>1, <3>2, PutExpires, ExpiryKept
  <2>3. CASE ~CheckSet(r)
    <3>1. UNCHANGED <<spend, ttl>>
      BY <1>1, <2>3 DEF Handler, PingFails, LoadBudgets, BeginCheck, CheckGet, CheckSum, Admit, Answer,
         AnswerFailOpen, storeVars
    <3> QED BY <1>n, <1>f, <1>u, <2>1, <3>1, ExpiryKept
  <2> QED BY <2>2, <2>3
<1>2. ASSUME NEW r \in Event, InsertLate(r) PROVE CountersExpire'
  BY <1>2, <1>n, <1>f, <1>u, ExpiryKept DEF InsertLate
<1>3. ASSUME NEW x \in Proxy, Logger(x) PROVE CountersExpire'
  <2>0. /\ \A y \in Proxy : y # x => lg'[y] = lg[y]
        /\ lg \in [Proxy -> LogState]
    BY <1>t, <1>3, LoggerMoves DEF BudgetTypeOK
  <2>l. PICK l : l = lg[x].key
    OBVIOUS
  <2>e. ASSUME lg[x].at \notin {"send", "ttl", "expire"}, UNCHANGED <<spend, ttl>>
        PROVE  CountersExpire'
    <3>1. \A y \in Proxy, k \in Key : Expiring(y, k) => Expiring(y, k)'
      BY <2>0, <2>e DEF Expiring
    <3>2. Orphans' \subseteq Orphans
      BY <2>e, <3>1 DEF Orphans, Expiring
    <3> QED BY <1>n, <1>f, <3>2, NoNewOrphan
  <2>1. CASE \E r \in Event : Insert(x, r)
    BY <2>e, <2>1 DEF Insert, LogIdle
  <2>2. CASE RecordLoad(x) \/ RecordStore(x) \/ (\E p \in Period : RecordSpend(x, p)) \/ RecordEnd(x)
    BY <2>e, <2>2 DEF RecordLoad, RecordStore, RecordSpend, RecordEnd, storeVars
  <2>3. CASE RecordIncr(x)
    <3>1. lg[x].at = "send" /\ l \in Key
      BY <1>t, <2>l, <2>3, LogVars DEF RecordIncr
    <3>2. \A k \in Key : k # l /\ Unexpiring(k)' => Unexpiring(k)
      BY <1>t, <2>l, <2>3 DEF RecordIncr, IncrBy, StoreTypeOK, Unexpiring
    <3>3. Fails \/ Expiring(x, l)'
      <4>1. lg' = [lg EXCEPT ![x].at = "ttl"] => lg'[x].at = "ttl" /\ lg'[x].key = lg[x].key
        <5>1. CASE lg' = [lg EXCEPT ![x].at = "ttl"]
          <6>1. lg'[x] = [lg[x] EXCEPT !.at = "ttl"]
            BY <2>0, <5>1
          <6> QED BY <1>t, <3>1, <6>1, LogSame
        <5> QED BY <5>1
      <4> QED BY <2>l, <2>3, <3>1, <4>1 DEF RecordIncr, Expiring
    <3> QED BY <1>n, <1>f, <2>0, <2>l, <3>2, <3>3, LoggerExpiry
  <2>4. CASE RecordTTL(x)
    <3>1. lg[x].at = "ttl" /\ UNCHANGED <<spend, ttl>>
      BY <2>4 DEF RecordTTL
    <3>2. \A k \in Key : Unexpiring(k)' => Unexpiring(k)
      BY <3>1 DEF Unexpiring
    <3>3. Fails \/ l \in ttl \/ lg' = [lg EXCEPT ![x].at = "expire"]
      BY <2>l, <2>4 DEF RecordTTL
    <3>4. Fails \/ ~Unexpiring(l)' \/ Expiring(x, l)'
      <4>1. CASE lg' = [lg EXCEPT ![x].at = "expire"]
        <5>1. lg'[x] = [lg[x] EXCEPT !.at = "expire"]
          BY <2>0, <4>1
        <5>2. lg'[x].at = "expire" /\ lg'[x].key = lg[x].key
          BY <1>t, <3>1, <5>1, LogSame
        <5> QED BY <2>l, <5>2 DEF Expiring
      <4>2. l \in ttl => ~Unexpiring(l)'
        BY <3>1 DEF Unexpiring
      <4> QED BY <3>3, <4>1, <4>2
    <3> QED BY <1>n, <1>f, <2>0, <2>l, <3>2, <3>4, LoggerExpiry
  <2>5. CASE RecordExpire(x)
    <3>1. \A k \in Key : Unexpiring(k)' => Unexpiring(k)
      BY <1>t, <2>5 DEF RecordExpire, Expire, Unexpiring
    <3>2. Fails \/ ~Unexpiring(l)'
      BY <1>t, <2>l, <2>5 DEF RecordExpire, Expire, Unexpiring, StoreTypeOK
    <3> QED BY <1>n, <1>f, <2>0, <2>l, <3>1, <3>2, LoggerExpiry
  <2> QED BY <1>3, <2>1, <2>2, <2>3, <2>4, <2>5 DEF Logger
<1>9. ASSUME NEW x \in Proxy, EndProxy(x) PROVE CountersExpire'
  <2>1. Fails /\ UNCHANGED <<spend, ttl>> /\ lg' = [lg EXCEPT ![x] = LogIdle]
    BY <1>9 DEF EndProxy
  <2>2. \A y \in Proxy : y # x => lg'[y] = lg[y]
    BY <1>t, <2>1 DEF BudgetTypeOK
  <2>3. \A k \in Key : Unexpiring(k)' => Unexpiring(k)
    BY <2>1 DEF Unexpiring
  <2> QED BY <1>n, <1>f, <2>1, <2>2, <2>3, LoggerExpiry
<1>4. ASSUME NEW x \in Proxy, CacheExpires(x) PROVE CountersExpire'
  BY <1>4, <1>n, <1>f, <1>u, ExpiryKept DEF CacheExpires, storeVars
<1>5. CASE Api
  BY <1>5, <1>n, <1>f, <1>u, ExpiryKept DEF Api, Upsert, Delete, SetBudget, storeVars
<1>6. CASE Jobs /\ UNCHANGED proxyVars
  <2>1. UNCHANGED lg
    BY <1>6 DEF proxyVars
  <2>2. CASE ReconcileSet
    <3>1. rec.key \in Key /\ rec.sum \in Nat
      BY <1>t, <2>2 DEF ReconcileSet, JobsTypeOK, RecIdle
    <3>2. Put(rec.key, rec.sum) \/ UNCHANGED <<spend, ttl>>
      BY <2>2 DEF ReconcileSet
    <3> QED BY <1>n, <1>f, <1>t, <2>1, <3>1, <3>2, PutExpires, ExpiryKept
  <2>3. ASSUME NEW k \in Key, SweepDelete(k) PROVE CountersExpire'
    <3>1. Del(k)
      BY <2>3 DEF SweepDelete
    <3>2. \A l \in Key : Unexpiring(l)' => Unexpiring(l)
      BY <1>t, <3>1 DEF Del, StoreTypeOK, Unexpiring, Missing
    <3> QED BY <1>n, <1>f, <2>1, <3>2, ExpiryKept
  <2>4. CASE \/ \E p \in Period : ReconcileStart(p)
             \/ ReconcileGet \/ ReconcileSum \/ SweepStart \/ SweepEnd
    <3>1. UNCHANGED <<spend, ttl>>
      BY <2>4 DEF ReconcileStart, ReconcileGet, ReconcileSum, SweepStart, SweepEnd, storeVars
    <3> QED BY <1>n, <1>f, <1>u, <2>1, <3>1, ExpiryKept
  <2> QED BY <1>6, <2>2, <2>3, <2>4 DEF Jobs, Reconcile, Sweep
<1>7. CASE Environment /\ UNCHANGED <<jobVars, proxyVars>>
  <2>1. UNCHANGED lg
    BY <1>7 DEF proxyVars
  <2>2. CASE RedisColdStart
    <3>1. \A l \in Key : ~Unexpiring(l)'
      BY <2>2 DEF RedisColdStart, Unexpiring
    <3> QED BY <1>n, <1>f, <2>1, <3>1, ExpiryKept
  <2>3. ASSUME NEW k \in Key, KeyExpires(k) PROVE CountersExpire'
    <3>1. Del(k)
      BY <2>3 DEF KeyExpires
    <3>2. \A l \in Key : Unexpiring(l)' => Unexpiring(l)
      BY <1>t, <3>1 DEF Del, StoreTypeOK, Unexpiring, Missing
    <3> QED BY <1>n, <1>f, <2>1, <3>2, ExpiryKept
  <2>4. CASE Midnight
    BY <1>n, <1>f, <1>u, <2>1, <2>4, ExpiryKept DEF Midnight
  <2> QED BY <1>7, <2>2, <2>3, <2>4 DEF Environment
<1>8. CASE UNCHANGED vars
  BY <1>8, <1>n, <1>f, <1>u, ExpiryKept DEF vars, storeVars, proxyVars
<1> QED BY <1>1, <1>2, <1>3, <1>4, <1>5, <1>6, <1>7, <1>8, <1>9 DEF Next

\* There are no more counters without an expiry, or a logger about to set one,
\* than there were faults: failed calls, lost answers and ends of a proxy.
THEOREM ExpiriesSet == Spec => []CountersExpire
<1>1. Init => CountersExpire
  <2> SUFFICES ASSUME Init PROVE CountersExpire
    OBVIOUS
  <2>1. Orphans = {} /\ faults = 0
    BY DEF Init, StoreInit, Orphans
  <2> QED BY <2>1, FS_EmptySet DEF CountersExpire
<1> QED BY <1>1, InitType, NextType, NextExpire, PTL DEF Spec

-----------------------------------------------------------------------------
(***************************************************************************)
(* Rows.  A logger has its own event in hand until it is done with it, and *)
(* an event has a row only while it is in hand or done.                    *)
(***************************************************************************)
InHand(e) == lg[Via[e]].at # "idle" /\ lg[Via[e]].event = e

Owners ==
    \A x \in Proxy : lg[x].at # "idle" =>
        hst[lg[x].event] = "pending" /\ Via[lg[x].event] = x

Fresh == \A e \in Event : stored[e] > 0 => hst[e] = "done" \/ InHand(e)

\* A row is inserted once, and keeps its day.
RowsKept ==
    /\ day' \in Day /\ day' >= day
    /\ \A e \in Event : stored'[e] = stored[e] \/ stored[e] = 0

\* The steps of a handler: from where to where, and the row of LogDirect.
LEMMA HandlerMoves ==
    ASSUME BudgetTypeOK, NEW r \in Event, Handler(r)
    PROVE  /\ hst[r] \notin {"pending", "late", "done"}
           /\ \A e \in Event : e # r => hst'[e] = hst[e] /\ chk'[e] = chk[e]
           /\ stored' = stored \/ (hst'[r] = "done" /\ stored' = [stored EXCEPT ![r] = day])
           /\ UNCHANGED <<day, lg, jobVars>>
<1>1. hst \in [Event -> HandlerState] /\ DOMAIN chk = Event
  BY DEF BudgetTypeOK
<1>2. CASE PingFails(r) \/ LoadBudgets(r) \/ Admit(r)
  BY <1>1, <1>2 DEF PingFails, LoadBudgets, Admit, Return, Goto, storeVars
<1>3. CASE BeginCheck(r)
  BY <1>1, <1>3 DEF BeginCheck, Check, Goto, storeVars
<1>4. CASE \E p \in Period : CheckGet(r, p)
  BY <1>1, <1>4 DEF CheckGet, Judge, Return, Skip, Goto
<1>5. CASE CheckSum(r)
  BY <1>1, <1>5 DEF CheckSum, Skip, Goto
<1>6. CASE CheckSet(r)
  BY <1>1, <1>6 DEF CheckSet, Judge, Return, Goto
<1>7. CASE \E st \in {"pending", "done"} : Answer(r, st)
  BY <1>1, <1>7 DEF Answer, Goto, storeVars
<1>8. CASE AnswerFailOpen(r)
  BY <1>1, <1>8 DEF AnswerFailOpen, Goto
<1> QED BY <1>2, <1>3, <1>4, <1>5, <1>6, <1>7, <1>8 DEF Handler

\* Everything but handlers, loggers and the retry queue leaves rows alone.
LEMMA OthersMove ==
    ASSUME StoreTypeOK, [Next]_vars, \A r \in Event : ~Handler(r) /\ ~InsertLate(r),
           \A x \in Proxy : ~Logger(x) /\ ~EndProxy(x)
    PROVE  UNCHANGED <<stored, hst, lg, chk>> /\ day' \in Day /\ day' >= day
<1>1. day \in Day /\ (day' = day \/ (day < MaxDay /\ day' = day + 1) => day' \in Day /\ day' >= day)
  BY SpendAssumption, SMTT(30) DEF StoreTypeOK, Day
<1>2. CASE \E x \in Proxy : CacheExpires(x)
  BY <1>1, <1>2 DEF CacheExpires, storeVars
<1>3. CASE Api
  BY <1>1, <1>3 DEF Api, Upsert, Delete, SetBudget, storeVars
<1>4. CASE Jobs /\ UNCHANGED proxyVars
  BY <1>1, <1>4 DEF Jobs, Reconcile, ReconcileStart, ReconcileGet, ReconcileSum, ReconcileSet, Sweep,
     SweepStart, SweepDelete, SweepEnd, storeVars, proxyVars
<1>5. CASE Environment /\ UNCHANGED <<jobVars, proxyVars>>
  BY <1>1, <1>5 DEF Environment, RedisColdStart, KeyExpires, Midnight, proxyVars
<1>6. CASE UNCHANGED vars
  BY <1>1, <1>6 DEF vars, storeVars, proxyVars
<1> QED BY <1>2, <1>3, <1>4, <1>5, <1>6 DEF Next

\* The events a proxy takes with it.
LEMMA EndedEvents ==
    ASSUME NEW x \in Proxy, EndProxy(x), NEW e \in Event
    PROVE  IF Via[e] = x /\ hst[e] \notin {"new", "blocked"}
           THEN hst'[e] = "done" ELSE hst'[e] = hst[e] /\ chk'[e] = chk[e]
BY DEF EndProxy

LEMMA NextRows ==
    TypeOK /\ Owners /\ Fresh /\ [Next]_vars => Owners' /\ Fresh' /\ RowsKept
<1> SUFFICES ASSUME TypeOK, Owners, Fresh, [Next]_vars PROVE Owners' /\ Fresh' /\ RowsKept
  OBVIOUS
<1>t. /\ StoreTypeOK /\ BudgetTypeOK
      /\ stored \in [Event -> Nat] /\ day \in Day /\ Day \subseteq Nat
      /\ hst \in [Event -> HandlerState] /\ Via \in [Event -> Proxy]
  BY SpendAssumption, BudgetAssumption DEF TypeOK, StoreTypeOK, BudgetTypeOK, Day
<1>e. \A x \in Proxy : lg[x].at # "idle" => lg[x].event \in Event
  BY <1>t, LogVars
<1>h. \A e \in Event : InHand(e) => hst[e] = "pending"
  BY <1>t DEF InHand, Owners
<1>1. ASSUME NEW r \in Event, Handler(r) PROVE Owners' /\ Fresh' /\ RowsKept
  <2>1. /\ hst[r] \notin {"pending", "late", "done"}
        /\ \A e \in Event : e # r => hst'[e] = hst[e]
        /\ stored' = stored \/ (hst'[r] = "done" /\ stored' = [stored EXCEPT ![r] = day])
        /\ UNCHANGED <<day, lg>>
    BY <1>t, <1>1, HandlerMoves
  <2>2. stored[r] = 0
    BY <1>t, <1>h, <2>1 DEF Fresh
  <2>3. Owners'
    BY <1>e, <2>1 DEF Owners
  <2>4. ASSUME NEW e \in Event, stored'[e] > 0 PROVE hst'[e] = "done" \/ InHand(e)'
    <3>1. CASE e = r
      BY <2>1, <2>2, <2>4, <3>1
    <3>2. CASE e # r
      <4>1. stored'[e] = stored[e] /\ hst'[e] = hst[e]
        BY <1>t, <2>1, <3>2
      <4> QED BY <2>1, <2>4, <4>1 DEF Fresh, InHand
    <3> QED BY <3>1, <3>2
  <2>5. RowsKept
    BY <1>t, <2>1, <2>2 DEF RowsKept
  <2> QED BY <2>3, <2>4, <2>5 DEF Fresh
<1>2. ASSUME NEW r \in Event, InsertLate(r) PROVE Owners' /\ Fresh' /\ RowsKept
  <2>1. /\ hst[r] = "late" /\ hst' = [hst EXCEPT ![r] = "done"]
        /\ stored' = [stored EXCEPT ![r] = day] /\ UNCHANGED <<day, lg>>
    BY <1>2 DEF InsertLate, Goto
  <2>2. stored[r] = 0
    BY <1>t, <1>h, <2>1 DEF Fresh
  <2>3. Owners'
    BY <1>e, <1>t, <2>1 DEF Owners
  <2>4. ASSUME NEW e \in Event, stored'[e] > 0 PROVE hst'[e] = "done" \/ InHand(e)'
    <3>1. CASE e = r
      BY <1>t, <2>1, <3>1
    <3>2. CASE e # r
      <4>1. stored'[e] = stored[e] /\ hst'[e] = hst[e]
        BY <1>t, <2>1, <3>2
      <4> QED BY <2>1, <2>4, <4>1 DEF Fresh, InHand
    <3> QED BY <3>1, <3>2
  <2>5. RowsKept
    BY <1>t, <2>1, <2>2 DEF RowsKept
  <2> QED BY <2>3, <2>4, <2>5 DEF Fresh
<1>3. ASSUME NEW x \in Proxy, Logger(x) PROVE Owners' /\ Fresh' /\ RowsKept
  <2>0. (\A y \in Proxy : y # x => lg'[y] = lg[y]) /\ UNCHANGED day
    BY <1>t, <1>3, LoggerMoves
  <2>1. ASSUME NEW r \in Event, lg[x].at = "idle", hst[r] = "pending", Via[r] = x,
               stored' = [stored EXCEPT ![r] = day], lg'[x] = [at |-> "load", event |-> r],
               UNCHANGED hst
        PROVE  Owners' /\ Fresh' /\ RowsKept
    <3>1. stored[r] = 0
      BY <1>t, <2>1 DEF Fresh, InHand
    <3>2. Owners'
      BY <1>e, <2>0, <2>1 DEF Owners
    <3>3. ASSUME NEW e \in Event, stored'[e] > 0 PROVE hst'[e] = "done" \/ InHand(e)'
      <4>1. CASE e = r
        BY <2>1, <4>1 DEF InHand
      <4>2. CASE e # r
        <5>1. stored'[e] = stored[e] /\ hst'[e] = hst[e]
          BY <1>t, <2>1, <4>2
        <5>2. InHand(e) => Via[e] # x
          BY <2>1 DEF InHand
        <5> QED BY <1>t, <2>0, <3>3, <5>1, <5>2 DEF Fresh, InHand
      <4> QED BY <4>1, <4>2
    <3>4. RowsKept
      BY <1>t, <2>0, <2>1, <3>1 DEF RowsKept
    <3> QED BY <3>2, <3>3, <3>4 DEF Fresh
  <2>2. ASSUME NEW r \in Event, lg[x].at = "idle", Via[r] = x,
               UNCHANGED <<stored, lg>>, hst[r] = "pending", hst' = [hst EXCEPT ![r] = "late"]
        PROVE  Owners' /\ Fresh' /\ RowsKept
    <3>1. \A y \in Proxy : lg[y].at # "idle" => lg[y].event # r
      BY <2>2 DEF Owners
    <3>2. Owners'
      BY <1>e, <1>t, <2>2, <3>1 DEF Owners
    <3>3. ~InHand(r)
      BY <2>2 DEF InHand
    <3>4. Fresh'
      BY <1>t, <2>2, <3>3 DEF Fresh, InHand
    <3> QED BY <1>t, <2>0, <2>2, <3>2, <3>4 DEF RowsKept
  <2>3. ASSUME lg[x].at # "idle", lg'[x].at # "idle", lg'[x].event = lg[x].event,
               UNCHANGED <<hst, stored>>
        PROVE  Owners' /\ Fresh' /\ RowsKept
    <3>1. \A y \in Proxy : (lg'[y].at # "idle" <=> lg[y].at # "idle")
                           /\ lg'[y].event = lg[y].event
      BY <2>0, <2>3
    <3>2. Owners'
      BY <2>3, <3>1 DEF Owners
    <3>3. Fresh'
      BY <1>t, <2>3, <3>1 DEF Fresh, InHand
    <3> QED BY <1>t, <2>0, <2>3, <3>2, <3>3 DEF RowsKept
  <2>4. ASSUME lg[x].at # "idle", lg'[x].at = "idle",
               hst' = [hst EXCEPT ![lg[x].event] = "done"], UNCHANGED stored
        PROVE  Owners' /\ Fresh' /\ RowsKept
    <3>1. PICK r \in Event : r = lg[x].event /\ Via[r] = x
      BY <1>e, <2>4 DEF Owners
    <3>2. \A y \in Proxy : lg'[y].at # "idle" => y # x /\ lg'[y] = lg[y]
      BY <2>0, <2>4
    <3>3. \A y \in Proxy : y # x /\ lg[y].at # "idle" => lg[y].event # r
      BY <3>1 DEF Owners
    <3>4. \A e \in Event : e # r => hst'[e] = hst[e]
      BY <1>t, <2>4, <3>1
    <3>5. Owners'
      BY <1>e, <3>2, <3>3, <3>4 DEF Owners
    <3>6. ASSUME NEW e \in Event, stored'[e] > 0 PROVE hst'[e] = "done" \/ InHand(e)'
      <4>1. CASE e = r
        BY <1>t, <2>4, <3>1, <4>1
      <4>2. CASE e # r
        <5>1. InHand(e) => Via[e] # x
          BY <3>1, <4>2 DEF InHand
        <5> QED BY <1>t, <2>0, <2>4, <3>4, <3>6, <4>2, <5>1 DEF Fresh, InHand
      <4> QED BY <4>1, <4>2
    <3> QED BY <1>t, <2>0, <2>4, <3>5, <3>6 DEF Fresh, RowsKept
  <2> QED BY <1>t, <1>3, <2>1, <2>2, <2>3, <2>4, LoggerMoves
<1>4. ASSUME \A r \in Event : ~Handler(r) /\ ~InsertLate(r),
             \A x \in Proxy : ~Logger(x) /\ ~EndProxy(x)
      PROVE  Owners' /\ Fresh' /\ RowsKept
  <2>1. UNCHANGED <<stored, hst, lg>> /\ day' \in Day /\ day' >= day
    BY <1>t, <1>4, OthersMove
  <2> QED BY <2>1 DEF Owners, Fresh, InHand, RowsKept
<1>5. ASSUME NEW x \in Proxy, EndProxy(x) PROVE Owners' /\ Fresh' /\ RowsKept
  <2>1. /\ lg'[x].at = "idle" /\ \A y \in Proxy : y # x => lg'[y] = lg[y]
        /\ UNCHANGED <<day, stored>>
    BY <1>t, <1>5 DEF EndProxy, BudgetTypeOK, LogIdle
  <2>2. \A e \in Event : IF Via[e] = x /\ hst[e] \notin {"new", "blocked"}
                          THEN hst'[e] = "done" ELSE hst'[e] = hst[e]
    BY <1>5, EndedEvents
  <2>3. Owners'
    BY <1>e, <2>1, <2>2 DEF Owners
  <2>4. ASSUME NEW e \in Event, stored'[e] > 0 PROVE hst'[e] = "done" \/ InHand(e)'
    <3>1. hst[e] = "done" \/ InHand(e)
      BY <2>1, <2>4 DEF Fresh
    <3>2. CASE Via[e] = x
      BY <1>h, <2>2, <3>1, <3>2
    <3>3. CASE Via[e] # x
      BY <1>t, <2>1, <2>2, <3>1, <3>3 DEF InHand
    <3> QED BY <3>2, <3>3
  <2> QED BY <1>t, <2>1, <2>3, <2>4 DEF Fresh, RowsKept
<1> QED BY <1>1, <1>2, <1>3, <1>4, <1>5

-----------------------------------------------------------------------------
(***************************************************************************)
(* Sums read from the table grow with it.                                  *)
(***************************************************************************)
\* The sum of a table since a day.
SumOf(rows, d) == CostOf({e \in Event : rows[e] >= d})

LEMMA SumIs == \A d : SumSince(d) = SumOf(stored, d) /\ SumOf(stored, d) \in Nat
BY CostType DEF SumSince, SumOf

LEMMA DayType == \A d \in Day : d \in Nat /\ d > 0
BY SpendAssumption DEF Day

LEMMA SumAntitone ==
    ASSUME StoreTypeOK, NEW c \in Day, NEW d \in Day, c <= d
    PROVE  SumOf(stored, d) <= SumOf(stored, c)
<1>1. \A e \in Event : stored[e] \in Nat
  BY SpendAssumption DEF StoreTypeOK
<1>2. {e \in Event : stored[e] >= d} \subseteq {e \in Event : stored[e] >= c}
  BY <1>1, DayType
<1> QED BY <1>2, CostMonotonic DEF SumOf

LEMMA SumGrows ==
    ASSUME StoreTypeOK, StoreTypeOK', RowsKept, NEW d \in Day
    PROVE  /\ SumOf(stored, d) <= SumOf(stored', d)
           /\ SumOf(stored, d) \in Nat /\ SumOf(stored', d) \in Nat
<1>1. \A e \in Event : stored[e] \in Nat /\ stored'[e] \in Nat
  BY SpendAssumption DEF StoreTypeOK
<1>2. \A e \in Event : stored[e] >= d => stored'[e] >= d
  BY <1>1, DayType DEF RowsKept
<1>3. {e \in Event : stored[e] >= d} \subseteq {e \in Event : stored'[e] >= d}
  BY <1>2
<1> QED BY <1>3, CostMonotonic, CostType DEF SumOf

LEMMA StartMonotone ==
    ASSUME NEW p \in Period, NEW c \in Day, NEW d \in Day, c <= d
    PROVE  Start[p][c] \in Day /\ Start[p][d] \in Day /\ Start[p][c] <= Start[p][d]
<1>1. Start[p][c] \in Day /\ Start[p][d] \in Day /\ Start[p][c] <= c
  BY KeyOf
<1>2. PICK m \in Nat, n \in Nat, k \in Nat : m = Start[p][c] /\ n = Start[p][d] /\ k = c
  BY <1>1, DayType
<1>3. n <= k => m = n
  BY <1>2, SpendAssumption
<1> QED BY <1>1, <1>2, <1>3

\* A check has the sum of its period's start, or of a later one.
CheckOld(r) ==
    /\ hst[r] \in {"checking", "summing", "setting"} => chk[r].now <= day
    /\ hst[r] \in {"summing", "setting"} => chk[r].key = SpendKey(chk[r].key[1], chk[r].now)
    /\ hst[r] = "setting" => chk[r].sum <= SumOf(stored, chk[r].key[2])

\* So has the reconciliation.
RecOld ==
    /\ rec.at # "idle" => rec.key[2] <= day
    /\ rec.at = "set" => rec.sum <= SumOf(stored, rec.key[2])

ChecksOld == \A r \in Event : CheckOld(r)

LEMMA RecVars ==
    ASSUME JobsTypeOK
    PROVE  /\ rec.at \in {"idle", "get", "sum", "set"}
           /\ rec.at # "idle" => rec.key \in Key
           /\ rec.at = "set" => rec.sum \in Nat
           /\ rec.at = "sum" => rec.val \in Nat
BY DEF JobsTypeOK, RecIdle

\* A check that does not move stays as true as it was.
LEMMA CheckStays ==
    ASSUME TypeOK, TypeOK', RowsKept, NEW r \in Event, CheckOld(r),
           hst'[r] \in {"checking", "summing", "setting"} => hst'[r] = hst[r] /\ chk'[r] = chk[r]
    PROVE  CheckOld(r)'
<1>1. hst[r] \in {"checking", "summing", "setting"} =>
         chk[r].now \in Nat /\ chk[r].key[2] \in Day /\ chk[r].sum \in Nat
  BY KeyType, SpendAssumption DEF TypeOK, BudgetTypeOK, CheckVars, Day
<1>2. \A d \in Day : /\ SumOf(stored, d) <= SumOf(stored', d)
                    /\ SumOf(stored, d) \in Nat /\ SumOf(stored', d) \in Nat
  BY SumGrows DEF TypeOK
<1>3. day \in Nat /\ day' \in Nat /\ day <= day'
  BY SpendAssumption DEF TypeOK, StoreTypeOK, RowsKept, Day
<1>4. CASE hst'[r] \notin {"checking", "summing", "setting"}
  BY <1>4 DEF CheckOld
<1>5. CASE hst'[r] \in {"checking", "summing", "setting"}
  <2>1. hst'[r] = hst[r] /\ chk'[r] = chk[r]
    BY <1>5
  <2>2. ASSUME hst[r] = "setting" PROVE chk'[r].sum <= SumOf(stored', chk'[r].key[2])
    <3>1. PICK d \in Day : d = chk[r].key[2] /\ d = chk'[r].key[2]
      BY <1>1, <2>1, <2>2
    <3>2. chk'[r].sum <= SumOf(stored, d) /\ chk'[r].sum \in Nat
      BY <1>1, <2>1, <2>2, <3>1 DEF CheckOld
    <3>3. chk'[r].sum <= SumOf(stored', d)
      BY <1>2, <3>2
    <3> QED BY <3>1, <3>3
  <2>3. hst[r] \in {"checking", "summing", "setting"} => chk'[r].now <= day'
    BY <1>1, <1>3, <2>1 DEF CheckOld
  <2>4. hst[r] \in {"summing", "setting"} =>
           chk'[r].key = SpendKey(chk'[r].key[1], chk'[r].now)
    BY <2>1 DEF CheckOld, SpendKey
  <2> QED BY <2>1, <2>2, <2>3, <2>4 DEF CheckOld, SpendKey
<1> QED BY <1>4, <1>5

LEMMA HandlerChecks ==
    ASSUME TypeOK, TypeOK', RowsKept, NEW r \in Event, CheckOld(r), Handler(r)
    PROVE  CheckOld(r)'
<1>t. /\ StoreTypeOK /\ BudgetTypeOK /\ day \in Day /\ Day \subseteq Nat
      /\ hst \in [Event -> HandlerState] /\ chk \in [Event -> CheckVars \cup LoadVars]
  <2>1. StoreTypeOK /\ BudgetTypeOK
    BY DEF TypeOK
  <2>2. day \in Day /\ Day \subseteq Nat
    BY <2>1, DayType DEF StoreTypeOK
  <2> QED BY <2>1, <2>2 DEF BudgetTypeOK
<1>c. hst[r] \in {"checking", "summing", "setting"} =>
         chk[r] \in CheckVars /\ chk[r].now \in Day /\ chk[r].key \in Key
  BY <1>t DEF BudgetTypeOK, CheckVars
<1>1. CASE PingFails(r) \/ LoadBudgets(r) \/ Admit(r)
           \/ (\E st \in {"pending", "done"} : Answer(r, st)) \/ AnswerFailOpen(r)
  <2>1. hst'[r] \in {"failopen", "loaded", "admitted", "pending", "done"}
    BY <1>t, <1>1 DEF PingFails, LoadBudgets, Admit, Answer, AnswerFailOpen, Return, Goto
  <2> QED BY <2>1 DEF CheckOld
<1>2. CASE BeginCheck(r)
  <2>1. hst'[r] = "checking" /\ chk'[r].now = day /\ day' = day
    BY <1>t, <1>2 DEF BeginCheck, Check, Goto, storeVars
  <2> QED BY <1>t, <2>1 DEF CheckOld
<1>j. ASSUME NEW p, Goto(r, "checking"), chk' = [chk EXCEPT ![r].todo = @ \ {p}],
             hst[r] \in {"checking", "summing", "setting"}, UNCHANGED day
      PROVE  CheckOld(r)'
  <2>1. hst'[r] = "checking" /\ chk'[r].now = chk[r].now
    BY <1>t, <1>c, <1>j DEF Goto, CheckVars
  <2>2. chk'[r].now <= day'
    BY <1>j, <2>1 DEF CheckOld
  <2> QED BY <2>1, <2>2 DEF CheckOld
<1>b. ASSUME Return(r, "blocked") PROVE CheckOld(r)'
  BY <1>t, <1>b DEF Return, Goto, CheckOld
<1>3. ASSUME NEW p \in Period, CheckGet(r, p) PROVE CheckOld(r)'
  <2>1. hst[r] = "checking" /\ UNCHANGED <<day, stored>>
    BY <1>3 DEF CheckGet
  <2>2. PICK k \in Key : k = SpendKey(p, chk[r].now) /\ k[1] = p
    BY <1>c, <2>1, KeyOf
  <2>3. CASE Judge(r, k, spend[k]) \/ Skip(r, p)
    BY <1>j, <1>b, <2>1, <2>3 DEF Judge, Skip
  <2>4. CASE Goto(r, "summing") /\ chk' = [chk EXCEPT ![r].key = k]
    <3>1. hst'[r] = "summing" /\ chk'[r].now = chk[r].now /\ chk'[r].key = k
      BY <1>t, <1>c, <2>1, <2>4 DEF Goto, CheckVars
    <3>2. chk'[r].now <= day'
      BY <2>1, <3>1 DEF CheckOld
    <3>3. chk'[r].key = SpendKey(chk'[r].key[1], chk'[r].now)
      BY <2>2, <3>1
    <3> QED BY <3>1, <3>2, <3>3 DEF CheckOld, SpendKey
  <2> QED BY <1>3, <2>2, <2>3, <2>4 DEF CheckGet
<1>4. CASE CheckSum(r)
  <2>1. hst[r] = "summing" /\ UNCHANGED <<day, stored>>
    BY <1>4 DEF CheckSum
  <2>2. PICK p \in Period : p = chk[r].key[1]
    BY <1>c, <2>1, KeyType
  <2>3. CASE Skip(r, p)
    BY <1>j, <2>1, <2>3 DEF Skip
  <2>4. CASE Goto(r, "setting") /\ chk' = [chk EXCEPT ![r].sum = SumSince(Start[p][day])]
    <3>1. /\ hst'[r] = "setting" /\ chk'[r].now = chk[r].now /\ chk'[r].key = chk[r].key
          /\ chk'[r].sum = SumSince(Start[p][day])
      BY <1>t, <1>c, <2>1, <2>4 DEF Goto, CheckVars
    <3>2. chk[r].now <= day /\ chk[r].key = SpendKey(p, chk[r].now)
      BY <2>1, <2>2 DEF CheckOld
    <3>3. chk[r].key[2] = Start[p][chk[r].now]
      BY <1>c, <2>1, <3>2, KeyOf
    <3>4. SumOf(stored, Start[p][day]) <= SumOf(stored, chk[r].key[2])
      BY <1>t, <1>c, <2>1, <3>2, <3>3, StartMonotone, SumAntitone
    <3>6. chk'[r].sum <= SumOf(stored', chk'[r].key[2])
      BY <2>1, <3>1, <3>4, SumIs
    <3>7. chk'[r].now <= day' /\ chk'[r].key = SpendKey(chk'[r].key[1], chk'[r].now)
      BY <2>1, <2>2, <3>1, <3>2
    <3> QED BY <3>1, <3>6, <3>7 DEF CheckOld, SpendKey
  <2> QED BY <1>4, <2>2, <2>3, <2>4 DEF CheckSum
<1>5. CASE CheckSet(r)
  <2>1. CASE UNCHANGED <<hst, chk>>
    BY <2>1, CheckStays
  <2>2. CASE Judge(r, chk[r].key, chk[r].sum)
    BY <1>j, <1>b, <1>5, <2>2 DEF CheckSet, Judge
  <2> QED BY <1>5, <2>1, <2>2 DEF CheckSet
<1> QED BY <1>1, <1>2, <1>3, <1>4, <1>5 DEF Handler

LEMMA NextChecks ==
    ASSUME TypeOK, TypeOK', Owners, Fresh, RowsKept, ChecksOld, [Next]_vars
    PROVE  ChecksOld'
<1>t. StoreTypeOK /\ BudgetTypeOK /\ hst \in [Event -> HandlerState]
  BY DEF TypeOK, BudgetTypeOK
<1> SUFFICES ASSUME NEW e \in Event PROVE CheckOld(e)'
  BY DEF ChecksOld
<1>0. CheckOld(e)
  BY DEF ChecksOld
<1>1. ASSUME NEW r \in Event, Handler(r) PROVE CheckOld(e)'
  <2>1. CASE e = r
    BY <1>0, <1>1, <2>1, HandlerChecks
  <2>2. CASE e # r
    BY <1>0, <1>1, <1>t, <2>2, HandlerMoves, CheckStays
  <2> QED BY <2>1, <2>2
<1>2. ASSUME NEW r \in Event, InsertLate(r) PROVE CheckOld(e)'
  <2>1. hst'[e] = hst[e] \/ hst'[e] = "done"
    BY <1>2, <1>t DEF InsertLate, Goto
  <2>2. chk' = chk
    BY <1>2 DEF InsertLate
  <2> QED BY <1>0, <2>1, <2>2, CheckStays
<1>3. ASSUME NEW x \in Proxy, Logger(x) PROVE CheckOld(e)'
  <2>1. hst'[e] = hst[e] \/ hst'[e] \in {"done", "late"}
    BY <1>3, <1>t, LoggerMoves
  <2>2. chk' = chk
    BY <1>3, <1>t, LoggerMoves
  <2> QED BY <1>0, <2>1, <2>2, CheckStays
<1>4. ASSUME \A r \in Event : ~Handler(r) /\ ~InsertLate(r),
             \A x \in Proxy : ~Logger(x) /\ ~EndProxy(x)
      PROVE  CheckOld(e)'
  BY <1>0, <1>4, <1>t, OthersMove, CheckStays
<1>5. ASSUME NEW x \in Proxy, EndProxy(x) PROVE CheckOld(e)'
  BY <1>0, <1>5, EndedEvents, CheckStays
<1> QED BY <1>1, <1>2, <1>3, <1>4, <1>5

LEMMA NextRec ==
    ASSUME TypeOK, TypeOK', RowsKept, RecOld, [Next]_vars
    PROVE  RecOld'
<1>t. /\ StoreTypeOK /\ BudgetTypeOK /\ JobsTypeOK
      /\ day \in Nat /\ day' \in Nat /\ day <= day' /\ day \in Day
  BY SpendAssumption DEF TypeOK, StoreTypeOK, RowsKept, Day
<1>k. rec.at # "idle" => rec.key \in Key /\ rec.key[2] \in Day /\ rec.key[2] \in Nat
  BY <1>t, RecVars, KeyType, SpendAssumption DEF Day
<1>g. \A d \in Day : /\ SumOf(stored, d) <= SumOf(stored', d)
                    /\ SumOf(stored, d) \in Nat /\ SumOf(stored', d) \in Nat
  BY SumGrows DEF TypeOK
<1>i. ASSUME rec' = RecIdle PROVE RecOld'
  BY <1>i DEF RecOld, RecIdle
<1>u. ASSUME rec' = rec PROVE RecOld'
  <2>1. ASSUME rec.at = "set" PROVE rec'.sum <= SumOf(stored', rec'.key[2])
    <3>1. PICK d \in Day : d = rec.key[2]
      BY <1>k, <2>1
    <3>2. rec.sum <= SumOf(stored, d) /\ rec.sum \in Nat
      BY <1>t, <2>1, <3>1, RecVars DEF RecOld
    <3>3. rec.sum <= SumOf(stored', d)
      BY <1>g, <3>2
    <3> QED BY <1>u, <3>1, <3>3
  <2>2. rec.at # "idle" => rec'.key[2] <= day'
    BY <1>t, <1>k, <1>u DEF RecOld
  <2> QED BY <1>u, <2>1, <2>2 DEF RecOld
<1>1. ASSUME NEW p \in Period, ReconcileStart(p) PROVE RecOld'
  <2>1. SpendKey(p, day)[2] <= day
    BY <1>t, KeyOf
  <2>2. rec' = [at |-> "get", key |-> SpendKey(p, day)] /\ day' = day
    BY <1>1 DEF ReconcileStart, storeVars
  <2>3. rec'.at = "get" /\ rec'.key = SpendKey(p, day)
    BY <2>2
  <2> QED BY <2>1, <2>2, <2>3 DEF RecOld
<1>2. CASE ReconcileGet
  <2>1. CASE rec' = [at |-> "sum", key |-> rec.key, val |-> spend[rec.key]]
    <3>1. rec'.at = "sum" /\ rec'.key = rec.key /\ day' = day /\ rec.at # "idle"
      BY <1>2, <2>1 DEF ReconcileGet
    <3> QED BY <3>1 DEF RecOld
  <2> QED BY <1>2, <1>i, <2>1 DEF ReconcileGet
<1>3. CASE ReconcileSum
  <2>1. CASE rec' = [at |-> "set", key |-> rec.key, sum |-> SumSince(rec.key[2])]
    <3>1. /\ rec'.at = "set" /\ rec'.key = rec.key /\ day' = day /\ rec.at # "idle"
          /\ rec'.sum = SumSince(rec.key[2]) /\ stored' = stored
      BY <1>3, <2>1 DEF ReconcileSum
    <3>2. rec'.sum <= SumOf(stored', rec'.key[2])
      BY <3>1, SumIs
    <3>3. rec'.key[2] <= day'
      BY <3>1 DEF RecOld
    <3> QED BY <3>1, <3>2, <3>3 DEF RecOld
  <2> QED BY <1>3, <1>i, <2>1 DEF ReconcileSum
<1>4. CASE ReconcileSet
  BY <1>4, <1>i, <1>u DEF ReconcileSet
<1>5. CASE Sweep
  <2>1. rec' = rec
    BY <1>5 DEF Sweep, SweepStart, SweepDelete, SweepEnd, jobVars
  <2> QED BY <1>u, <2>1
<1>6. ASSUME NEW r \in Event, Handler(r) \/ InsertLate(r) PROVE RecOld'
  <2>1. rec' = rec
    BY <1>6, <1>t, HandlerMoves DEF InsertLate, jobVars
  <2> QED BY <1>u, <2>1
<1>7. ASSUME NEW x \in Proxy, Logger(x) \/ CacheExpires(x) \/ EndProxy(x) PROVE RecOld'
  <2>1. rec' = rec
    BY <1>7, <1>t, LoggerMoves DEF CacheExpires, EndProxy, jobVars
  <2> QED BY <1>u, <2>1
<1>8. CASE Api \/ (Environment /\ UNCHANGED <<jobVars, proxyVars>>) \/ UNCHANGED vars
  <2>1. rec' = rec
    BY <1>8 DEF Api, Upsert, Delete, SetBudget, jobVars, vars
  <2> QED BY <1>u, <2>1
<1> QED BY <1>1, <1>2, <1>3, <1>4, <1>5, <1>6, <1>7, <1>8 DEF Next, Jobs, Reconcile

-----------------------------------------------------------------------------
(***************************************************************************)
(* The counters.  What a counter holds and what is still to be added to it *)
(* exceed the rows by one event per proxy at most, and by one for each     *)
(* increment that was sent again.                                          *)
(***************************************************************************)
Counting(x, k) ==
    \/ lg[x].at \in {"load", "store"}
    \/ lg[x].at \in {"incr", "send", "ttl", "expire"} /\ k[1] \in lg[x].todo
    \/ lg[x].at = "send" /\ lg[x].key = k

\* The events in hand whose cost is not in counter k yet.
Uncounted(k) == {e \in Event : InHand(e) /\ Counting(Via[e], k)}

Counted ==
    \A k \in Key : spend[k] # Missing =>
        /\ k[2] <= day
        /\ spend[k] + CostOf(Uncounted(k)) <= SumOf(stored, k[2]) + Slack

\* An increment that waits is for a period that has begun, and for no other one
\* the event has still to be counted in.
LogOld ==
    \A x \in Proxy : lg[x].at = "send" =>
        lg[x].key[2] <= day /\ lg[x].key[1] \notin lg[x].todo

LEMMA NextLog ==
    ASSUME TypeOK, TypeOK', RowsKept, LogOld, [Next]_vars
    PROVE  LogOld'
<1>t. /\ StoreTypeOK /\ BudgetTypeOK /\ lg \in [Proxy -> LogState] /\ day \in Day
      /\ day \in Nat /\ day' \in Nat /\ day <= day'
  BY DayType DEF TypeOK, StoreTypeOK, BudgetTypeOK, RowsKept
<1>day. day \in Day
  BY <1>t
<1>k. ASSUME NEW x \in Proxy, lg[x].at = "send" PROVE lg[x].key[2] \in Nat /\ lg[x].key[2] <= day'
  <2>1. lg[x].key[2] \in Nat /\ lg[x].key[2] <= day
    BY <1>k, <1>t, LogVars, KeyType, DayType DEF LogOld
  <2> QED BY <1>t, <2>1
<1>1. ASSUME \A x \in Proxy : lg'[x] = lg[x] \/ lg'[x].at # "send" PROVE LogOld'
  BY <1>1, <1>k DEF LogOld
<1>2. ASSUME NEW r \in Event, Handler(r) \/ InsertLate(r) PROVE LogOld'
  <2>1. UNCHANGED lg
    BY <1>2, <1>t, HandlerMoves DEF InsertLate
  <2> QED BY <1>1, <2>1
<1>3. ASSUME NEW x \in Proxy, Logger(x) PROVE LogOld'
  <2>0. \A y \in Proxy : y # x => lg'[y] = lg[y]
    BY <1>t, <1>3, LoggerMoves
  <2>1. ASSUME NEW p \in Period, RecordSpend(x, p) PROVE LogOld'
    <3>1. /\ lg'[x].key = SpendKey(p, day) /\ lg'[x].todo = lg[x].todo \ {p}
          /\ \A y \in Proxy : y # x => lg'[y] = lg[y]
      BY <1>t, <2>1 DEF RecordSpend, AtLog
    <3>2. SpendKey(p, day)[1] = p /\ SpendKey(p, day)[2] \in Nat /\ SpendKey(p, day)[2] <= day
      <4>1. /\ SpendKey(p, day)[1] = p /\ SpendKey(p, day)[2] = Start[p][day]
            /\ Start[p][day] \in Day /\ Start[p][day] <= day
        BY <1>day, KeyOf
      <4> QED BY <4>1, DayType
    <3>3. SpendKey(p, day)[2] <= day'
      BY <1>t, <3>2
    <3>4. lg'[x].key[2] <= day' /\ lg'[x].key[1] \notin lg'[x].todo
      BY <3>1, <3>2, <3>3
    <3> QED BY <1>k, <3>1, <3>4 DEF LogOld
  <2>2. CASE ~\E p \in Period : RecordSpend(x, p)
    <3>1. CASE RecordIncr(x) \/ RecordTTL(x)
      <4>1. lg[x].at \in {"send", "ttl", "expire"}
        BY <3>1 DEF RecordIncr, RecordTTL
      <4>2. \A a \in {"ttl", "expire"} : lg' = [lg EXCEPT ![x].at = a] => lg'[x].at = a
        BY <1>t, <4>1, LogSame
      <4>3. lg'[x] = lg[x] \/ lg'[x].at # "send"
        BY <1>t, <3>1, <4>2 DEF RecordIncr, RecordTTL, NextPeriod, AtLog
      <4> QED BY <1>1, <2>0, <4>3
    <3>2. CASE ~(RecordIncr(x) \/ RecordTTL(x))
      <4>1. lg'[x] = lg[x] \/ lg'[x].at # "send"
        BY <1>t, <1>3, <2>2, <3>2 DEF Logger, Insert, RecordLoad, RecordStore, RecordExpire,
           NextPeriod, RecordEnd, AtLog, LogIdle
      <4> QED BY <1>1, <2>0, <4>1
    <3> QED BY <3>1, <3>2
  <2> QED BY <2>1, <2>2
<1>4. ASSUME NEW x \in Proxy, EndProxy(x) PROVE LogOld'
  BY <1>1, <1>4, <1>t DEF EndProxy, LogIdle
<1>5. ASSUME \A r \in Event : ~Handler(r) /\ ~InsertLate(r),
             \A x \in Proxy : ~Logger(x) /\ ~EndProxy(x)
      PROVE  LogOld'
  BY <1>1, <1>5, <1>t, OthersMove
<1> QED BY <1>2, <1>3, <1>4, <1>5

LEMMA SlackIs ==
    ASSUME NEW n \in Nat
    PROVE  /\ MaxCost \in Nat /\ \A e \in Event : Cost[e] <= MaxCost
           /\ Cardinality(Proxy) \in Nat /\ Cardinality(Proxy) * MaxCost \in Nat
           /\ (Cardinality(Proxy) + n) * MaxCost \in Nat
           /\ Cardinality(Proxy) * MaxCost <= (Cardinality(Proxy) + n) * MaxCost
           /\ (Cardinality(Proxy) + (n + 1)) * MaxCost = (Cardinality(Proxy) + n) * MaxCost + MaxCost
<1> DEFINE C == {Cost[e] : e \in Event}
<1>1. PICK e \in Event : \A f \in Event : Cost[e] >= Cost[f]
  BY LargestCost, SpendAssumption
<1>2. \E m \in C : \A c \in C : m >= c
  BY <1>1
<1>3. Max(C) \in C /\ \A c \in C : Max(C) >= c
  BY <1>2 DEF Max
<1>4. \A f \in Event : Cost[f] \in Nat
  BY SpendAssumption
<1>5. MaxCost \in Nat /\ \A f \in Event : Cost[f] <= MaxCost
  <2>1. MaxCost = Max(C)
    BY DEF MaxCost
  <2>2. \A f \in Event : Cost[f] \in C
    OBVIOUS
  <2>3. \A c \in C : c \in Nat
    BY <1>4
  <2> HIDE DEF C
  <2> QED BY <1>3, <2>1, <2>2, <2>3
<1>6. Cardinality(Proxy) \in Nat
  BY BudgetAssumption, FS_CardinalityType
<1>7. PICK m \in Nat, c \in Nat : m = MaxCost /\ c = Cardinality(Proxy)
  BY <1>5, <1>6
<1>8. /\ c * m \in Nat /\ n * m \in Nat /\ (c + n) * m = c * m + n * m
      /\ (c + (n + 1)) * m = (c + n) * m + m
  OBVIOUS
<1> QED BY <1>5, <1>6, <1>7, <1>8

LEMMA SlackType ==
    ASSUME BudgetTypeOK
    PROVE  /\ Slack \in Nat /\ Cardinality(Proxy) * MaxCost <= Slack
           /\ Cardinality(Proxy) * MaxCost \in Nat
BY SlackIs DEF Slack, BudgetTypeOK

\* Events that are in hand, one per proxy.
LEMMA OnePerProxy ==
    ASSUME NEW U \in SUBSET Event, NEW h, \A e \in U : h[Via[e]] = e
    PROVE  CostOf(U) <= Cardinality(Proxy) * MaxCost /\ CostOf(U) \in Nat
<1> DEFINE f == [e \in U |-> Via[e]]
<1>1. f \in Injection(U, Proxy)
  <2>1. f \in [U -> Proxy]
    BY BudgetAssumption
  <2>2. \A a, b \in U : f[a] = f[b] => a = b
    OBVIOUS
  <2> HIDE DEF f
  <2> QED BY <2>1, <2>2 DEF Injection, IsInjective
<1>2. Cardinality(U) <= Cardinality(Proxy)
  BY <1>1, BudgetAssumption, FS_Injection
<1>3. MaxCost \in Nat /\ (\A e \in Event : Cost[e] <= MaxCost) /\ Cardinality(Proxy) \in Nat
  BY SlackIs
<1> QED BY <1>2, <1>3, CostBounded, CostType

LEMMA UncountedType == ASSUME NEW k PROVE CostOf(Uncounted(k)) \in Nat
BY CostType DEF Uncounted

LEMMA UncountedBound ==
    ASSUME BudgetTypeOK, BudgetTypeOK', NEW k
    PROVE  /\ CostOf(Uncounted(k)) <= Slack /\ CostOf(Uncounted(k)) \in Nat
           /\ CostOf(Uncounted(k)') <= Slack' /\ CostOf(Uncounted(k)') \in Nat
<1> DEFINE g == [x \in Proxy |-> lg[x].event]
           h == [x \in Proxy |-> lg'[x].event]
<1>1. Uncounted(k) \in SUBSET Event /\ \A e \in Uncounted(k) : g[Via[e]] = e
  BY BudgetAssumption DEF Uncounted, InHand
<1>2. Uncounted(k)' \in SUBSET Event /\ \A e \in Uncounted(k)' : h[Via[e]] = e
  BY BudgetAssumption DEF Uncounted, InHand
<1>3. PICK c \in Nat, s \in Nat, z \in Nat :
         /\ c = Cardinality(Proxy) * MaxCost /\ s = Slack /\ z = Slack' /\ c <= s /\ c <= z
  BY SlackIs DEF Slack, BudgetTypeOK
<1> HIDE DEF g, h
<1>4. CostOf(Uncounted(k)) <= c /\ CostOf(Uncounted(k)) \in Nat
  BY <1>1, <1>3, OnePerProxy
<1>5. CostOf(Uncounted(k)') <= c /\ CostOf(Uncounted(k)') \in Nat
  BY <1>2, <1>3, OnePerProxy
<1> QED BY <1>3, <1>4, <1>5

\* Steps that add no event in hand, and set counters only to sums that were read.
LEMMA CountedKept ==
    ASSUME TypeOK, TypeOK', RowsKept, Counted, UNCHANGED resent,
           \A k \in Key : spend'[k] # Missing =>
              \/ spend'[k] = spend[k] /\ Uncounted(k)' \subseteq Uncounted(k)
              \/ k[2] <= day' /\ spend'[k] <= SumOf(stored', k[2])
    PROVE  Counted'
<1>t. /\ StoreTypeOK /\ StoreTypeOK' /\ BudgetTypeOK /\ BudgetTypeOK'
      /\ \A k \in Key : k[2] \in Day /\ spend[k] \in Nat \cup {Missing}
                        /\ spend'[k] \in Nat \cup {Missing}
  BY KeyType DEF TypeOK, StoreTypeOK
<1>s. Slack' = Slack
  BY DEF Slack
<1>d. day \in Nat /\ day' \in Nat /\ day <= day'
  BY <1>t, DayType DEF StoreTypeOK, RowsKept
<1> SUFFICES ASSUME NEW k \in Key, spend'[k] # Missing
             PROVE  /\ k[2] <= day'
                    /\ spend'[k] + CostOf(Uncounted(k)') <= SumOf(stored', k[2]) + Slack
  BY <1>s DEF Counted
<1>1. PICK a \in Nat, b \in Nat, d \in Nat, s \in Nat :
         /\ a = SumOf(stored, k[2]) /\ b = SumOf(stored', k[2]) /\ a <= b
         /\ d = k[2] /\ s = Slack
  BY <1>t, SumGrows, SlackType, DayType
<1>2. PICK u \in Nat : u = CostOf(Uncounted(k)') /\ u <= s
  <2>1. CostOf(Uncounted(k)') <= Slack /\ CostOf(Uncounted(k)') \in Nat
    BY <1>s, <1>t, UncountedBound
  <2> QED BY <1>1, <2>1
<1>3. PICK v \in Nat : v = spend'[k]
  BY <1>t
<1>4. CASE spend'[k] = spend[k] /\ Uncounted(k)' \subseteq Uncounted(k)
  <2>1. k[2] <= day /\ spend[k] + CostOf(Uncounted(k)) <= SumOf(stored, k[2]) + Slack
    BY <1>4 DEF Counted
  <2>2. PICK w \in Nat : w = CostOf(Uncounted(k))
    BY <1>t, UncountedBound
  <2>3. u <= w
    <3>1. Uncounted(k) \in SUBSET Event
      BY DEF Uncounted
    <3> QED BY <1>2, <1>4, <2>2, <3>1, CostMonotonic
  <2>4. d <= day /\ v + w <= a + s
    BY <1>1, <1>3, <1>4, <2>1, <2>2
  <2>5. d <= day' /\ v + u <= b + s
    BY <1>1, <1>d, <2>3, <2>4
  <2> QED BY <1>1, <1>2, <1>3, <2>5
<1>5. CASE k[2] <= day' /\ spend'[k] <= SumOf(stored', k[2])
  <2>1. v <= b
    BY <1>1, <1>3, <1>5
  <2>2. v + u <= b + s
    BY <1>2, <2>1
  <2> QED BY <1>1, <1>2, <1>3, <1>5, <2>2
<1> QED BY <1>4, <1>5

\* The loggers stand still.
LEMMA UncountedStill ==
    ASSUME UNCHANGED lg PROVE \A k \in Key : Uncounted(k)' = Uncounted(k)
BY DEF Uncounted, InHand, Counting

\* A Redis command on the way to a counter whose sum was read.
LEMMA CountedPut ==
    ASSUME TypeOK, TypeOK', RowsKept, Counted, UNCHANGED <<lg, resent>>,
           NEW l \in Key, NEW v \in Nat, Put(l, v) \/ UNCHANGED spend,
           l[2] <= day', v <= SumOf(stored', l[2])
    PROVE  Counted'
<1>1. spend \in [Key -> Nat \cup {Missing}]
  BY DEF TypeOK, StoreTypeOK
<1>2. \A k \in Key : spend'[k] = spend[k] \/ (k = l /\ spend'[k] = v)
  BY <1>1 DEF Put
<1>3. \A k \in Key : Uncounted(k)' = Uncounted(k)
  BY UncountedStill
<1> QED BY <1>2, <1>3, CountedKept

LEMMA CountedDel ==
    ASSUME TypeOK, TypeOK', RowsKept, Counted, UNCHANGED <<lg, resent>>,
           \A k \in Key : spend'[k] # Missing => spend'[k] = spend[k]
    PROVE  Counted'
<1>1. \A k \in Key : Uncounted(k)' = Uncounted(k)
  BY UncountedStill
<1> QED BY <1>1, CountedKept

\* A logger inserts a row: the row is in the sums, and still to be counted.
LEMMA CountedInsert ==
    ASSUME TypeOK, TypeOK', Owners, Fresh, Counted, NEW x \in Proxy, NEW r \in Event,
           lg[x].at = "idle", hst[r] = "pending", Via[r] = x, UNCHANGED <<day, spend, resent>>,
           stored' = [stored EXCEPT ![r] = day], lg'[x] = [at |-> "load", event |-> r],
           \A y \in Proxy : y # x => lg'[y] = lg[y]
    PROVE  Counted'
<1>s. Slack' = Slack
  BY DEF Slack
<1>t. /\ StoreTypeOK /\ BudgetTypeOK /\ BudgetTypeOK' /\ stored \in [Event -> Nat] /\ day \in Nat
      /\ \A k \in Key : k[2] \in Day /\ spend[k] \in Nat \cup {Missing}
  BY KeyType, DayType, SpendAssumption DEF TypeOK, StoreTypeOK
<1>0. ~InHand(r) /\ stored[r] = 0
  <2>1. ~InHand(r)
    BY DEF InHand
  <2> QED BY <1>t, <2>1 DEF Fresh
<1> SUFFICES ASSUME NEW k \in Key, spend[k] # Missing
             PROVE  /\ k[2] <= day
                    /\ spend[k] + CostOf(Uncounted(k)') <= SumOf(stored', k[2]) + Slack
  BY <1>s DEF Counted
<1>1. k[2] <= day /\ spend[k] + CostOf(Uncounted(k)) <= SumOf(stored, k[2]) + Slack
  BY DEF Counted
<1>2. PICK d \in Nat : d = k[2] /\ d > 0 /\ d <= day
  BY <1>t, <1>1, DayType
<1>3. Uncounted(k)' = Uncounted(k) \cup {r} /\ r \notin Uncounted(k) /\ Uncounted(k) \in SUBSET Event
  <2>1. \A e \in Event : e # r => (InHand(e)' <=> InHand(e)) /\ (InHand(e) => Via[e] # x)
    BY <1>0, BudgetAssumption DEF InHand
  <2>2. \A e \in Event : e # r /\ Via[e] # x => (Counting(Via[e], k)' <=> Counting(Via[e], k))
    BY BudgetAssumption DEF Counting
  <2>3. InHand(r)' /\ Counting(Via[r], k)'
    BY DEF InHand, Counting
  <2> QED BY <1>0, <2>1, <2>2, <2>3 DEF Uncounted
<1>4. CostOf(Uncounted(k)') = CostOf(Uncounted(k)) + Cost[r]
  BY <1>3, CostAdd
<1>5. SumOf(stored', k[2]) = SumOf(stored, k[2]) + Cost[r]
  <2> DEFINE S == {e \in Event : stored[e] >= d}
  <2>1. {e \in Event : stored'[e] >= d} = S \cup {r} /\ r \notin S /\ S \in SUBSET Event
    BY <1>t, <1>0, <1>2
  <2>2. CostOf(S \cup {r}) = CostOf(S) + Cost[r]
    <3> HIDE DEF S
    <3> QED BY <2>1, CostAdd
  <2> QED BY <1>2, <2>1, <2>2 DEF SumOf
<1>6. PICK c \in Nat, u \in Nat, a \in Nat, s \in Nat, v \in Nat :
         /\ c = Cost[r] /\ u = CostOf(Uncounted(k)) /\ a = SumOf(stored, k[2]) /\ s = Slack
         /\ v = spend[k]
  BY <1>t, SpendAssumption, UncountedBound, SumIs, SlackType
<1>7. v + (u + c) <= (a + c) + s
  BY <1>1, <1>6
<1> QED BY <1>1, <1>4, <1>5, <1>6, <1>7

\* A logger that moves on with its event, or lets it go.
LEMMA UncountedShrinks ==
    ASSUME NEW x \in Proxy, NEW k,
           \A y \in Proxy : y # x => lg'[y] = lg[y],
           lg'[x].at # "idle" =>
              /\ lg[x].at # "idle" /\ lg'[x].event = lg[x].event
              /\ Counting(x, k)' => Counting(x, k)
    PROVE  Uncounted(k)' \subseteq Uncounted(k)
<1> SUFFICES ASSUME NEW e \in Event, InHand(e)', Counting(Via[e], k)'
             PROVE  InHand(e) /\ Counting(Via[e], k)
  BY DEF Uncounted
<1>1. Via[e] \in Proxy
  BY BudgetAssumption
<1>2. CASE Via[e] = x
  BY <1>2 DEF InHand
<1>3. CASE Via[e] # x
  BY <1>1, <1>3 DEF InHand, Counting
<1> QED BY <1>2, <1>3

\* Redis adds the cost of a logger's event to a counter; then the counter is
\* dealt with, or the logger sends the command again.
LEMMA CountedIncr ==
    ASSUME TypeOK, TypeOK', RowsKept, Owners, LogOld, Counted, NEW x \in Proxy,
           UNCHANGED <<day, stored>>, lg[x].at = "send", NEW l \in Key, l = lg[x].key,
           IncrBy(l, Cost[lg[x].event]),
           \A y \in Proxy : y # x => lg'[y] = lg[y],
           \/ /\ lg'[x].at \in {"incr", "ttl"} /\ lg'[x].event = lg[x].event
              /\ lg'[x].todo = lg[x].todo /\ resent' = resent
           \/ lg' = lg /\ resent' = resent + 1
    PROVE  Counted'
<1>t. /\ StoreTypeOK /\ BudgetTypeOK /\ BudgetTypeOK' /\ lg \in [Proxy -> LogState]
      /\ spend \in [Key -> Nat \cup {Missing}]
  BY DEF TypeOK, BudgetTypeOK, StoreTypeOK
<1>0. PICK e \in Event : e = lg[x].event /\ Via[e] = x /\ InHand(e)
  BY <1>t, LogVars DEF Owners, InHand
<1>1. l[2] <= day /\ l[1] \notin lg[x].todo
  BY DEF LogOld
<1>2. PICK c \in Nat, s \in Nat, z \in Nat :
         /\ c = Cost[e] /\ s = Slack /\ z = Slack' /\ s <= z
         /\ lg' = lg => s + c <= z
  <2>1. \A n \in Nat : /\ MaxCost \in Nat /\ Cost[e] <= MaxCost
                       /\ (Cardinality(Proxy) + n) * MaxCost \in Nat
                       /\ (Cardinality(Proxy) + (n + 1)) * MaxCost
                             = (Cardinality(Proxy) + n) * MaxCost + MaxCost
    BY SlackIs
  <2>2. resent \in Nat /\ Cost[e] \in Nat
    BY <1>t, SpendAssumption DEF BudgetTypeOK
  <2>3. Slack = (Cardinality(Proxy) + resent) * MaxCost
        /\ Slack' = (Cardinality(Proxy) + resent') * MaxCost
    BY DEF Slack
  <2>4. CASE resent' = resent + 1
    <3>1. Slack' = Slack + MaxCost /\ Slack \in Nat
      BY <2>1, <2>2, <2>3, <2>4
    <3>2. Slack' \in Nat /\ Slack <= Slack' /\ Slack + Cost[e] <= Slack'
      BY <2>1, <2>2, <3>1
    <3> QED BY <2>2, <3>1, <3>2
  <2>5. CASE resent' = resent /\ lg'[x].at # lg[x].at
    <3>1. Slack' = Slack /\ Slack \in Nat /\ lg' # lg
      BY <2>1, <2>2, <2>3, <2>5
    <3> QED BY <2>2, <3>1
  <2> QED BY <2>4, <2>5
<1>3. \A k \in Key : Uncounted(k)' \subseteq Uncounted(k)
  <2> SUFFICES ASSUME NEW k \in Key PROVE Uncounted(k)' \subseteq Uncounted(k)
    OBVIOUS
  <2>1. Counting(x, k)' => Counting(x, k)
    BY DEF Counting
  <2>2. lg'[x].event = lg[x].event /\ lg[x].at # "idle"
    OBVIOUS
  <2> QED BY <2>1, <2>2, UncountedShrinks
<1>4. e \in Uncounted(l) /\ Uncounted(l) \in SUBSET Event
  BY <1>0 DEF Uncounted, Counting
<1>5. PICK u \in Nat, w \in Nat, a \in Nat :
         /\ u = CostOf(Uncounted(l)) /\ w = CostOf(Uncounted(l)')
         /\ a = SumOf(stored, l[2]) /\ u <= s
  BY <1>t, <1>2, UncountedBound, SumIs
<1>6. (lg' = lg /\ w = u) \/ (w + c <= u)
  <2>1. CASE lg' = lg
    BY <1>5, <2>1, UncountedStill
  <2>2. CASE lg' # lg
    <3>0. ~Counting(x, l)'
      BY <1>1, <2>2 DEF Counting
    <3>1. e \notin Uncounted(l)'
      BY <1>0, <3>0 DEF Uncounted
    <3>2. u = c + CostOf(Uncounted(l) \ {e})
      BY <1>2, <1>4, <1>5, CostRemove
    <3>3. Uncounted(l)' \in SUBSET (Uncounted(l) \ {e}) /\ Uncounted(l) \ {e} \in SUBSET Event
      BY <1>3, <1>4, <3>1
    <3>4. w <= CostOf(Uncounted(l) \ {e}) /\ CostOf(Uncounted(l) \ {e}) \in Nat
      BY <1>5, <3>3, CostMonotonic, CostType
    <3> QED BY <3>2, <3>4
  <2> QED BY <2>1, <2>2
<1>7. spend'[l] + w <= a + z
  <2>1. CASE spend[l] = Missing
    <3>1. spend'[l] = c
      BY <1>t, <1>0, <1>2, <2>1 DEF IncrBy
    <3> QED BY <1>2, <1>5, <1>6, <3>1
  <2>2. CASE spend[l] # Missing
    <3>1. PICK v \in Nat : v = spend[l]
      BY <1>t, <2>2
    <3>2. v + u <= a + s
      BY <1>2, <1>5, <2>2, <3>1 DEF Counted
    <3>3. spend'[l] = v + c
      BY <1>t, <1>0, <1>2, <2>2, <3>1 DEF IncrBy
    <3> QED BY <1>2, <1>6, <3>2, <3>3
  <2> QED BY <2>1, <2>2
<1>8. ASSUME NEW k \in Key, spend'[k] # Missing
      PROVE  k[2] <= day /\ spend'[k] + CostOf(Uncounted(k)') <= SumOf(stored, k[2]) + z
  <2>1. CASE k = l
    BY <1>1, <1>5, <1>7, <2>1
  <2>2. CASE k # l
    <3>1. spend'[k] = spend[k]
      BY <1>t, <2>2 DEF IncrBy
    <3>2. k[2] <= day /\ spend[k] + CostOf(Uncounted(k)) <= SumOf(stored, k[2]) + Slack
      BY <1>8, <3>1 DEF Counted
    <3>3. PICK v \in Nat, b \in Nat, y \in Nat :
             v = spend[k] /\ b = SumOf(stored, k[2]) /\ y = CostOf(Uncounted(k))
      BY <1>t, <1>8, <3>1, SumIs, UncountedBound
    <3>4. PICK q \in Nat : q = CostOf(Uncounted(k)') /\ q <= y
      <4>1. Uncounted(k) \in SUBSET Event /\ Uncounted(k)' \in SUBSET Uncounted(k)
        BY <1>3 DEF Uncounted
      <4>2. CostOf(Uncounted(k)') <= CostOf(Uncounted(k)) /\ CostOf(Uncounted(k)') \in Nat
        BY <4>1, CostMonotonic, CostType
      <4> QED BY <3>3, <4>2
    <3>5. v + q <= b + z
      BY <1>2, <3>2, <3>3, <3>4
    <3> QED BY <3>1, <3>2, <3>3, <3>4, <3>5
  <2> QED BY <2>1, <2>2
<1> QED BY <1>2, <1>8 DEF Counted

LEMMA NextCounted ==
    ASSUME TypeOK, TypeOK', RowsKept, Owners, Fresh, LogOld, ChecksOld, RecOld, Counted, [Next]_vars
    PROVE  Counted'
<1>t. /\ StoreTypeOK /\ BudgetTypeOK /\ JobsTypeOK
      /\ day \in Nat /\ day' \in Nat /\ day <= day' /\ day \in Day
      /\ spend \in [Key -> Nat \cup {Missing}] /\ lg \in [Proxy -> LogState]
  BY DayType DEF TypeOK, StoreTypeOK, BudgetTypeOK, RowsKept
<1>g. \A d \in Day : SumOf(stored, d) <= SumOf(stored', d)
                     /\ SumOf(stored, d) \in Nat /\ SumOf(stored', d) \in Nat
  BY SumGrows DEF TypeOK
<1>1. ASSUME NEW r \in Event, Handler(r) PROVE Counted'
  <2>1. UNCHANGED <<lg, resent>>
    BY <1>1 DEF Handler, PingFails, LoadBudgets, BeginCheck, CheckGet, CheckSum, CheckSet, Admit,
       Answer, AnswerFailOpen
  <2>2. CASE CheckSet(r)
    <3>1. hst[r] = "setting" /\ (Put(chk[r].key, chk[r].sum) \/ UNCHANGED spend)
      BY <2>2 DEF CheckSet
    <3>2. PICK k \in Key, v \in Nat : k = chk[r].key /\ v = chk[r].sum /\ chk[r].now \in Day
      BY <1>t, <3>1 DEF BudgetTypeOK, CheckVars
    <3>3. chk[r].now <= day /\ k = SpendKey(k[1], chk[r].now) /\ v <= SumOf(stored, k[2])
      BY <3>1, <3>2 DEF ChecksOld, CheckOld
    <3>4. k[2] <= chk[r].now /\ k[2] \in Day
      BY <3>2, <3>3, KeyType, KeyOf
    <3>5. k[2] <= day' /\ v <= SumOf(stored', k[2])
      <4>1. PICK d \in Nat, n \in Nat, f \in Nat, h \in Nat :
               d = k[2] /\ n = chk[r].now /\ f = SumOf(stored, k[2]) /\ h = SumOf(stored', k[2])
        BY <1>g, <3>2, <3>4, DayType
      <4>2. f <= h
        BY <1>g, <3>4, <4>1
      <4>3. d <= n /\ n <= day /\ v <= f
        BY <3>3, <3>4, <4>1
      <4>4. d <= day' /\ v <= h
        BY <1>t, <4>2, <4>3
      <4> QED BY <4>1, <4>4
    <3> QED BY <2>1, <3>1, <3>2, <3>5, CountedPut
  <2>3. CASE ~CheckSet(r)
    <3>1. UNCHANGED spend
      BY <1>1, <2>3 DEF Handler, PingFails, LoadBudgets, BeginCheck, CheckGet, CheckSum, Admit, Answer,
         AnswerFailOpen, storeVars
    <3> QED BY <2>1, <3>1, CountedDel
  <2> QED BY <2>2, <2>3
<1>2. ASSUME NEW r \in Event, InsertLate(r) PROVE Counted'
  BY <1>2, CountedDel DEF InsertLate
<1>3. ASSUME NEW x \in Proxy, Logger(x) PROVE Counted'
  <2>0. \A y \in Proxy : y # x => lg'[y] = lg[y]
    BY <1>t, <1>3, LoggerMoves
  <2>k. ASSUME UNCHANGED <<spend, resent>>,
               lg'[x].at # "idle" =>
                 /\ lg[x].at # "idle" /\ lg'[x].event = lg[x].event
                 /\ \A k \in Key : Counting(x, k)' => Counting(x, k)
        PROVE  Counted'
    <3>1. \A k \in Key : Uncounted(k)' \subseteq Uncounted(k)
      BY <2>0, <2>k, UncountedShrinks
    <3> QED BY <2>k, <3>1, CountedKept
  <2>1. ASSUME NEW r \in Event, Insert(x, r) PROVE Counted'
    <3>1. lg[x].at = "idle" /\ hst[r] = "pending" /\ Via[r] = x /\ UNCHANGED <<day, spend, resent>>
      BY <2>1 DEF Insert, LogIdle
    <3>2. CASE stored' = [stored EXCEPT ![r] = day] /\ AtLog(x, [at |-> "load", event |-> r])
      <4>1. lg'[x] = [at |-> "load", event |-> r]
        BY <1>t, <3>2 DEF AtLog
      <4> QED BY <2>0, <3>1, <3>2, <4>1, CountedInsert
    <3>3. CASE UNCHANGED <<stored, lg>>
      BY <3>1, <3>3, CountedDel
    <3> QED BY <2>1, <3>2, <3>3 DEF Insert
  <2>2. CASE RecordLoad(x) \/ RecordStore(x)
    <3>1. /\ lg[x].at \in {"load", "store"} /\ UNCHANGED <<spend, resent>>
          /\ lg'[x].event = lg[x].event
      BY <1>t, <2>2 DEF RecordLoad, RecordStore, AtLog, storeVars
    <3> QED BY <2>k, <3>1 DEF Counting
  <2>3. ASSUME NEW p \in Period, RecordSpend(x, p) PROVE Counted'
    <3>1. /\ lg[x].at = "incr" /\ p \in lg[x].todo /\ UNCHANGED <<spend, resent>>
          /\ lg'[x].at = "send" /\ lg'[x].event = lg[x].event /\ lg'[x].todo = lg[x].todo \ {p}
          /\ lg'[x].key = SpendKey(p, day)
      BY <1>t, <2>3 DEF RecordSpend, AtLog, storeVars
    <3>2. SpendKey(p, day)[1] = p
      BY <1>t, KeyOf
    <3> QED BY <2>k, <3>1, <3>2 DEF Counting
  <2>p. ASSUME NextPeriod(x)
        PROVE  lg'[x].at = "incr" /\ lg'[x].event = lg[x].event /\ lg'[x].todo = lg[x].todo
    BY <1>t, <2>p DEF NextPeriod, AtLog
  <2>4. CASE RecordIncr(x)
    <3>1. lg[x].at = "send" /\ UNCHANGED <<day, stored>>
      BY <2>4 DEF RecordIncr
    <3>2. PICK l \in Key : l = lg[x].key
      BY <1>t, <3>1, LogVars
    <3>3. CASE UNCHANGED spend /\ NextPeriod(x) /\ UNCHANGED resent
      BY <2>k, <2>p, <3>1, <3>3 DEF Counting
    <3>4. CASE IncrBy(l, Cost[lg[x].event]) /\ NextPeriod(x) /\ UNCHANGED resent
      BY <2>0, <2>p, <3>1, <3>2, <3>4, CountedIncr
    <3>5. CASE /\ IncrBy(l, Cost[lg[x].event]) /\ lg' = [lg EXCEPT ![x].at = "ttl"]
               /\ UNCHANGED resent
      <4>1. lg'[x] = [lg[x] EXCEPT !.at = "ttl"]
        BY <1>t, <3>5
      <4>2. lg'[x].at = "ttl" /\ lg'[x].event = lg[x].event /\ lg'[x].todo = lg[x].todo
        BY <1>t, <3>1, <4>1, LogSame
      <4> QED BY <2>0, <3>1, <3>2, <3>5, <4>2, CountedIncr
    <3>6. CASE IncrBy(l, Cost[lg[x].event]) /\ UNCHANGED lg /\ resent' = resent + 1
      BY <2>0, <3>1, <3>2, <3>6, CountedIncr
    <3> QED BY <2>4, <3>2, <3>3, <3>4, <3>5, <3>6 DEF RecordIncr
  <2>5. CASE RecordTTL(x) \/ RecordExpire(x)
    <3>1. lg[x].at \in {"ttl", "expire"} /\ UNCHANGED <<spend, resent>>
      BY <2>5 DEF RecordTTL, RecordExpire, Expire
    <3>2. CASE NextPeriod(x)
      BY <2>k, <2>p, <3>1, <3>2 DEF Counting
    <3>3. CASE lg' = [lg EXCEPT ![x].at = "expire"]
      <4>1. lg'[x] = [lg[x] EXCEPT !.at = "expire"]
        BY <1>t, <3>3
      <4>2. lg'[x].at = "expire" /\ lg'[x].event = lg[x].event /\ lg'[x].todo = lg[x].todo
        BY <1>t, <3>1, <4>1, LogSame
      <4> QED BY <2>k, <3>1, <4>2 DEF Counting
    <3> QED BY <2>5, <3>2, <3>3 DEF RecordTTL, RecordExpire
  <2>6. CASE RecordEnd(x)
    <3>1. lg'[x].at = "idle" /\ UNCHANGED <<spend, resent>>
      BY <1>t, <2>6 DEF RecordEnd, AtLog, LogIdle, storeVars
    <3> QED BY <2>k, <3>1
  <2> QED BY <1>3, <2>1, <2>2, <2>3, <2>4, <2>5, <2>6 DEF Logger
<1>9. ASSUME NEW x \in Proxy, EndProxy(x) PROVE Counted'
  <2>1. /\ lg'[x].at = "idle" /\ \A y \in Proxy : y # x => lg'[y] = lg[y]
        /\ UNCHANGED <<spend, resent>>
    BY <1>t, <1>9 DEF EndProxy, LogIdle
  <2>2. \A k \in Key : Uncounted(k)' \subseteq Uncounted(k)
    BY <2>1, UncountedShrinks
  <2> QED BY <2>1, <2>2, CountedKept
<1>4. ASSUME NEW x \in Proxy, CacheExpires(x) PROVE Counted'
  BY <1>4, CountedDel DEF CacheExpires, storeVars
<1>5. CASE Api
  BY <1>5, CountedDel DEF Api, Upsert, Delete, SetBudget, storeVars
<1>6. CASE Jobs /\ UNCHANGED proxyVars
  <2>1. UNCHANGED <<lg, resent>>
    BY <1>6 DEF proxyVars
  <2>2. CASE ReconcileSet
    <3>1. rec.at = "set" /\ (Put(rec.key, rec.sum) \/ UNCHANGED spend)
      BY <2>2 DEF ReconcileSet
    <3>2. PICK k \in Key, v \in Nat : k = rec.key /\ v = rec.sum
      BY <1>t, <3>1, RecVars
    <3>3. k[2] <= day /\ v <= SumOf(stored, k[2]) /\ k[2] \in Day
      BY <3>1, <3>2, KeyType DEF RecOld
    <3>4. k[2] <= day' /\ v <= SumOf(stored', k[2])
      <4>1. PICK d \in Nat, f \in Nat, h \in Nat :
               d = k[2] /\ f = SumOf(stored, k[2]) /\ h = SumOf(stored', k[2])
        BY <1>g, <3>3, DayType
      <4>2. f <= h
        BY <1>g, <3>3, <4>1
      <4>3. d <= day /\ v <= f
        BY <3>3, <4>1
      <4>4. d <= day' /\ v <= h
        BY <1>t, <4>2, <4>3
      <4> QED BY <4>1, <4>4
    <3> QED BY <2>1, <3>1, <3>2, <3>4, CountedPut
  <2>3. CASE \E k \in Key : SweepDelete(k)
    <3>1. \A k \in Key : spend'[k] # Missing => spend'[k] = spend[k]
      BY <1>t, <2>3 DEF SweepDelete, Del
    <3> QED BY <2>1, <3>1, CountedDel
  <2>4. CASE \/ \E p \in Period : ReconcileStart(p)
             \/ ReconcileGet \/ ReconcileSum \/ SweepStart \/ SweepEnd
    <3>1. UNCHANGED spend
      BY <2>4 DEF ReconcileStart, ReconcileGet, ReconcileSum, SweepStart, SweepEnd, storeVars
    <3> QED BY <2>1, <3>1, CountedDel
  <2> QED BY <1>6, <2>2, <2>3, <2>4 DEF Jobs, Reconcile, Sweep
<1>7. CASE Environment /\ UNCHANGED <<jobVars, proxyVars>>
  <2>1. UNCHANGED <<lg, resent>>
    BY <1>7 DEF proxyVars
  <2>2. \A k \in Key : spend'[k] # Missing => spend'[k] = spend[k]
    BY <1>t, <1>7 DEF Environment, RedisColdStart, KeyExpires, Midnight, Del
  <2> QED BY <2>1, <2>2, CountedDel
<1>8. CASE UNCHANGED vars
  BY <1>8, CountedDel DEF vars, storeVars, proxyVars
<1> QED BY <1>1, <1>2, <1>3, <1>4, <1>5, <1>6, <1>7, <1>8, <1>9 DEF Next

SpendInv == TypeOK /\ Owners /\ Fresh /\ LogOld /\ ChecksOld /\ RecOld /\ Counted

LEMMA InitSpend == Init => SpendInv
<1> SUFFICES ASSUME Init PROVE SpendInv
  OBVIOUS
<1>1. Owners /\ Fresh /\ LogOld
  BY DEF Init, StoreInit, Owners, Fresh, LogOld, LogIdle
<1>2. ChecksOld
  BY DEF Init, ChecksOld, CheckOld
<1>3. RecOld /\ Counted
  BY DEF Init, StoreInit, JobsInit, RecOld, RecIdle, Counted
<1> QED BY <1>1, <1>2, <1>3, InitType DEF SpendInv

LEMMA NextSpend == SpendInv /\ [Next]_vars => SpendInv'
BY NextType, NextRows, NextLog, NextChecks, NextRec, NextCounted DEF SpendInv

LEMMA SpendHolds == Spec => []SpendInv
BY InitSpend, NextSpend, PTL DEF Spec

\* A counter that is there is at most the slack above the rows.
LEMMA CountersBounded ==
    ASSUME TypeOK, Counted, NEW k \in Key, spend[k] # Missing
    PROVE  spend[k] <= SumSince(k[2]) + Slack
<1>0. BudgetTypeOK
  BY DEF TypeOK
<1>1. spend[k] + CostOf(Uncounted(k)) <= SumOf(stored, k[2]) + Slack
  BY DEF Counted
<1>2. spend[k] \in Nat
  BY DEF TypeOK, StoreTypeOK
<1>3. PICK v \in Nat, u \in Nat, a \in Nat, s \in Nat :
         v = spend[k] /\ u = CostOf(Uncounted(k)) /\ a = SumSince(k[2]) /\ s = Slack
         /\ a = SumOf(stored, k[2])
  BY <1>0, <1>2, UncountedType, SumIs, SlackType
<1>4. v <= a + s
  BY <1>1, <1>3
<1> QED BY <1>3, <1>4

\* No counter is above the rows of its period by more than one event per proxy
\* and one per increment that was sent again.
THEOREM Overcount == Spec => []OvercountBounded
<1>1. SpendInv => OvercountBounded
  BY CountersBounded DEF SpendInv, OvercountBounded
<1> QED BY <1>1, SpendHolds, PTL

LEMMA RefusedStep ==
    ASSUME SpendInv, [Next]_vars, NEW r \in Event, hst[r] # "blocked", hst'[r] = "blocked"
    PROVE  \E p \in Period :
             /\ chk[r].limits[p].hard
             /\ SumSince(Start[p][chk[r].now]) + Slack >= chk[r].limits[p].amount
<1>t. /\ TypeOK /\ StoreTypeOK /\ BudgetTypeOK /\ CheckOld(r)
      /\ hst \in [Event -> HandlerState] /\ spend \in [Key -> Nat \cup {Missing}]
  BY DEF SpendInv, TypeOK, BudgetTypeOK, StoreTypeOK, ChecksOld
<1>1. Handler(r)
  <2>1. ASSUME NEW e \in Event, Handler(e) PROVE e = r
    BY <1>t, <2>1, HandlerMoves
  <2>2. ASSUME NEW e \in Event, InsertLate(e) PROVE FALSE
    BY <1>t, <2>2 DEF InsertLate, Goto
  <2>3. ASSUME NEW x \in Proxy, Logger(x) PROVE FALSE
    BY <1>t, <2>3, LoggerMoves
  <2>4. ASSUME NEW x \in Proxy, EndProxy(x) PROVE FALSE
    BY <2>4, EndedEvents
  <2> QED BY <1>t, <2>1, <2>2, <2>3, <2>4, OthersMove
<1>2. \/ CheckSet(r) /\ Judge(r, chk[r].key, chk[r].sum)
      \/ \E p \in Period : CheckGet(r, p) /\ LET k == SpendKey(p, chk[r].now)
                                             IN  spend[k] # Missing /\ Judge(r, k, spend[k])
  BY <1>t, <1>1 DEF Handler, PingFails, LoadBudgets, BeginCheck, Check, CheckGet, CheckSum, CheckSet,
     Skip, Admit, Return, Answer, AnswerFailOpen, Goto
<1>3. hst[r] \in {"checking", "setting"}
  BY <1>2 DEF CheckSet, CheckGet
<1>4. /\ chk[r].limits \in Limits /\ chk[r].now \in Day
      /\ chk[r].key \in Key /\ chk[r].sum \in Nat
  BY <1>t, <1>3 DEF BudgetTypeOK, CheckVars
<1>5. \A p \in Period : chk[r].limits[p].amount \in Nat
  <2>1. ASSUME NEW l \in Limit PROVE l.amount \in Nat
    <3>1. CASE l = NoLimit
      BY <3>1 DEF NoLimit
    <3>2. CASE l \in [amount : Amount, hard : BOOLEAN]
      <4>1. l.amount \in Amount
        BY <3>2
      <4> QED BY <4>1, BudgetAssumption
    <3> QED BY <2>1, <3>1, <3>2 DEF Limit
  <2> QED BY <1>4, <2>1 DEF Limits
<1>6. ASSUME NEW k \in Key, NEW v \in Nat, Judge(r, k, v)
      PROVE  chk[r].limits[k[1]].hard /\ v >= chk[r].limits[k[1]].amount
  BY <1>t, <1>6 DEF Judge, Goto
<1>7. CASE CheckSet(r) /\ Judge(r, chk[r].key, chk[r].sum)
  <2>1. PICK k \in Key : k = chk[r].key
    BY <1>4
  <2>2. hst[r] = "setting"
    BY <1>7 DEF CheckSet
  <2>3. k = SpendKey(k[1], chk[r].now) /\ chk[r].sum <= SumOf(stored, k[2])
    BY <1>t, <2>1, <2>2 DEF CheckOld
  <2>4. k[1] \in Period /\ k[2] = Start[k[1]][chk[r].now]
    BY <1>4, <2>3, KeyType, KeyOf
  <2>5. chk[r].limits[k[1]].hard /\ chk[r].sum >= chk[r].limits[k[1]].amount
    BY <1>4, <1>6, <1>7, <2>1
  <2>6. PICK v \in Nat, a \in Nat, s \in Nat, n \in Nat :
           v = chk[r].sum /\ a = SumSince(k[2]) /\ s = Slack /\ n = chk[r].limits[k[1]].amount
    BY <1>t, <1>4, <1>5, <2>4, SumIs, SlackType
  <2>7. a + s >= n
    BY <2>3, <2>5, <2>6, SumIs
  <2> QED BY <2>4, <2>5, <2>6, <2>7
<1>8. ASSUME NEW p \in Period, NEW k \in Key, k = SpendKey(p, chk[r].now),
             spend[k] # Missing, Judge(r, k, spend[k])
      PROVE  chk[r].limits[p].hard
             /\ SumSince(Start[p][chk[r].now]) + Slack >= chk[r].limits[p].amount
  <2>1. k[1] = p /\ k[2] = Start[p][chk[r].now]
    BY <1>4, <1>8, KeyOf
  <2>2. PICK v \in Nat, a \in Nat, s \in Nat, n \in Nat :
           v = spend[k] /\ a = SumSince(k[2]) /\ s = Slack /\ n = chk[r].limits[p].amount
    BY <1>t, <1>5, <1>8, SumIs, SlackType
  <2>3. chk[r].limits[p].hard /\ v >= n
    BY <1>6, <1>8, <2>1, <2>2
  <2>4. v <= a + s
    BY <1>t, <1>8, <2>2, CountersBounded DEF SpendInv
  <2>5. a + s >= n
    BY <2>3, <2>4
  <2> QED BY <2>1, <2>2, <2>3, <2>5
<1> QED BY <1>2, <1>4, <1>7, <1>8, KeyOf

\* A hard limit refuses no request while the spending on record is further below
\* it than one event per proxy and one per increment that was sent again.
THEOREM Refusals == Spec => RefusedNearLimitOnly
<1>1. SpendInv /\ [Next]_vars => [\A r \in Event : hst[r] # "blocked" /\ hst'[r] = "blocked" =>
        \E p \in Period :
            /\ chk[r].limits[p].hard
            /\ SumSince(Start[p][chk[r].now]) + Slack >= chk[r].limits[p].amount]_vars
  BY RefusedStep
<1> QED BY <1>1, SpendHolds, PTL DEF Spec, RefusedNearLimitOnly

-----------------------------------------------------------------------------
(***************************************************************************)
(* Counters that go.  A sweep spares the counters of the day on which it   *)
(* began, which is not after today.                                        *)
(***************************************************************************)
SweepOld == sweep <= day

LEMMA NextSweep == TypeOK /\ SweepOld /\ [Next]_vars => SweepOld'
<1> SUFFICES ASSUME TypeOK, SweepOld, [Next]_vars PROVE SweepOld'
  OBVIOUS
<1>t. BudgetTypeOK /\ day \in Nat /\ sweep \in Nat
  BY SpendAssumption, DayType DEF TypeOK, StoreTypeOK, JobsTypeOK
<1>1. ASSUME NEW r \in Event, Handler(r) \/ InsertLate(r) PROVE SweepOld'
  <2>1. UNCHANGED <<day, sweep>>
    BY <1>t, <1>1, HandlerMoves DEF InsertLate, jobVars
  <2> QED BY <2>1 DEF SweepOld
<1>2. ASSUME NEW x \in Proxy, Logger(x) \/ CacheExpires(x) \/ EndProxy(x) PROVE SweepOld'
  <2>1. UNCHANGED <<day, sweep>>
    BY <1>t, <1>2, LoggerMoves DEF CacheExpires, EndProxy, jobVars, storeVars
  <2> QED BY <2>1 DEF SweepOld
<1>3. CASE Api \/ UNCHANGED vars
  <2>1. UNCHANGED <<day, sweep>>
    BY <1>3 DEF Api, Upsert, Delete, SetBudget, vars, jobVars, storeVars
  <2> QED BY <2>1 DEF SweepOld
<1>4. CASE Jobs
  <2>1. day' = day /\ (sweep' = sweep \/ sweep' = day \/ sweep' = 0)
    BY <1>4 DEF Jobs, Reconcile, ReconcileStart, ReconcileGet, ReconcileSum, ReconcileSet, Sweep,
       SweepStart, SweepDelete, SweepEnd, jobVars, storeVars
  <2> QED BY <1>t, <2>1 DEF SweepOld
<1>5. CASE Environment /\ UNCHANGED jobVars
  <2>1. sweep' = sweep /\ (day' = day \/ day' = day + 1)
    BY <1>5 DEF Environment, RedisColdStart, KeyExpires, Midnight, jobVars
  <2> QED BY <1>t, <2>1 DEF SweepOld
<1> QED BY <1>1, <1>2, <1>3, <1>4, <1>5 DEF Next, jobVars, proxyVars

\* Checks, corrections and increments only give a counter a value.
LEMMA OnlyThreeRemove ==
    ASSUME TypeOK, [Next]_vars, NEW k \in Key, spend[k] # Missing, spend'[k] = Missing
    PROVE  \/ RedisColdStart
           \/ \E l \in Key : KeyExpires(l) /\ Del(l)
           \/ \E l \in Key : SweepDelete(l)
<1>t. /\ StoreTypeOK /\ BudgetTypeOK /\ JobsTypeOK
      /\ spend \in [Key -> Nat \cup {Missing}] /\ Missing \notin Nat
  BY DEF TypeOK, StoreTypeOK, Missing
<1>p. ASSUME NEW l, NEW v \in Nat, Put(l, v) PROVE FALSE
  BY <1>t, <1>p DEF Put
<1>1. ASSUME NEW r \in Event, Handler(r) PROVE FALSE
  <2>1. CASE CheckSet(r)
    <3>1. chk[r].sum \in Nat /\ (Put(chk[r].key, chk[r].sum) \/ UNCHANGED spend)
      BY <1>t, <2>1 DEF CheckSet, BudgetTypeOK, CheckVars
    <3> QED BY <1>p, <3>1
  <2>2. CASE ~CheckSet(r)
    BY <1>1, <2>2 DEF Handler, PingFails, LoadBudgets, BeginCheck, CheckGet, CheckSum, Admit, Answer,
       AnswerFailOpen, storeVars
  <2> QED BY <2>1, <2>2
<1>2. ASSUME NEW x \in Proxy, Logger(x) PROVE FALSE
  <2>1. CASE RecordIncr(x)
    <3>1. lg[x].event \in Event
      BY <1>t, <2>1, LogVars DEF RecordIncr
    <3>2. Cost[lg[x].event] \in Nat
      BY <3>1, SpendAssumption
    <3>3. IncrBy(lg[x].key, Cost[lg[x].event]) \/ UNCHANGED spend
      BY <2>1 DEF RecordIncr
    <3> QED BY <1>t, <3>2, <3>3 DEF IncrBy
  <2>2. CASE ~RecordIncr(x)
    BY <1>2, <2>2 DEF Logger, Insert, RecordLoad, RecordStore, RecordSpend, RecordTTL, RecordExpire,
       RecordEnd, Expire, storeVars
  <2> QED BY <2>1, <2>2
<1>3. CASE Reconcile
  <2>1. CASE ReconcileSet
    <3>1. rec.at = "set" /\ (Put(rec.key, rec.sum) \/ UNCHANGED spend)
      BY <2>1 DEF ReconcileSet
    <3>2. rec.sum \in Nat
      BY <1>t, <3>1, RecVars
    <3> QED BY <1>p, <3>1, <3>2
  <2>2. CASE ~ReconcileSet
    BY <1>3, <2>2 DEF Reconcile, ReconcileStart, ReconcileGet, ReconcileSum, storeVars
  <2> QED BY <2>1, <2>2
<1>4. CASE Sweep
  BY <1>4 DEF Sweep, SweepStart, SweepEnd, storeVars
<1>5. CASE Environment
  BY <1>5 DEF Environment, Midnight, KeyExpires
<1>6. CASE Api \/ UNCHANGED vars
  BY <1>6 DEF Api, Upsert, Delete, SetBudget, vars, storeVars
<1>7. ASSUME NEW r \in Event, InsertLate(r) PROVE FALSE
  BY <1>7 DEF InsertLate
<1>8. ASSUME NEW x \in Proxy, CacheExpires(x) \/ EndProxy(x) PROVE FALSE
  BY <1>8 DEF CacheExpires, EndProxy, storeVars
<1> QED BY <1>1, <1>2, <1>3, <1>4, <1>5, <1>6, <1>7, <1>8 DEF Next, Jobs

\* A current counter goes only with the data of Redis, or by a sweep that a
\* midnight has overtaken.
THEOREM CurrentSpared == Spec => CurrentKept
<1>1. ASSUME TypeOK, SweepOld, [Next]_vars, NEW k \in Key,
             Current(k), spend[k] # Missing, spend'[k] = Missing
      PROVE  faults' > faults \/ (sweep # 0 /\ sweep < day)
  <2>t. /\ spend \in [Key -> Nat \cup {Missing}] /\ day \in Nat /\ sweep \in Nat
        /\ faults \in Nat
    BY <1>1, SpendAssumption, DayType DEF TypeOK, StoreTypeOK, JobsTypeOK
  <2>1. CASE RedisColdStart
    BY <2>t, <2>1 DEF RedisColdStart, Fails
  <2>2. ASSUME NEW l \in Key, Del(l), KeyExpires(l) \/ SweepDelete(l)
        PROVE  KeyExpires(k) \/ SweepDelete(k)
    <3>1. k = l
      BY <1>1, <2>t, <2>2 DEF Del
    <3> QED BY <2>2, <3>1
  <2>3. CASE SweepDelete(k)
    <3>1. sweep # 0 /\ k # SpendKey(k[1], sweep) /\ k = SpendKey(k[1], day)
      BY <1>1, <2>3 DEF SweepDelete, Current
    <3>2. sweep # day
      BY <3>1
    <3> QED BY <1>1, <2>t, <3>1, <3>2 DEF SweepOld
  <2>4. ~KeyExpires(k)
    BY <1>1 DEF KeyExpires
  <2> QED BY <1>1, <2>1, <2>2, <2>3, <2>4, OnlyThreeRemove DEF SweepDelete
<1>2. TypeOK /\ SweepOld /\ [Next]_vars =>
        [\A k \in Key : Current(k) /\ spend[k] # Missing /\ spend'[k] = Missing =>
            faults' > faults \/ (sweep # 0 /\ sweep < day)]_vars
  BY <1>1
<1>3. Init => SweepOld
  BY DEF Init, StoreInit, JobsInit, SweepOld
<1> QED BY <1>2, <1>3, TypeCorrect, NextSweep, PTL DEF Spec, CurrentKept
=============================================================================
