--------------------------- MODULE KeyCacheProofs ----------------------------
(***************************************************************************)
(* Proofs about KeyCache, for any keys, projects, providers, secrets,      *)
(* requests, lifetimes and delays.  The bound on the use of a stale lookup *)
(* is carried from the query, where the lookup is true, over the delay of  *)
(* the Resolve to the entry it stores, and from there to every hit.        *)
(***************************************************************************)
EXTENDS KeyCache, TLAPS

\* No lookup was true in the future, and one that is true is true now.
Clocked ==
    \A l \in Lookup : lastValid[l] <= now /\ (Valid(l) => lastValid[l] = now)

\* A Resolve that is running began at most MaxDelay ago.
Timely ==
    \A c \in Conn : Running(c) => res[c].born <= now /\ now <= res[c].born + MaxDelay

\* What a Resolve is about to store was true since it began.
StoresFresh ==
    \A c \in Conn : res[c].at = "set" =>
        /\ res[c].lookup.key = res[c].key
        /\ res[c].lookup.provider = res[c].provider
        /\ res[c].born <= lastValid[res[c].lookup]

\* An entry is found under its own key and does not outlive the bound.
EntriesFresh ==
    \A k \in Key \X Provider : cache[k] # Missing =>
        /\ cache[k].lookup.key = k[1]
        /\ cache[k].lookup.provider = k[2]
        /\ cache[k].until <= lastValid[cache[k].lookup] + TTL + MaxDelay

IInv ==
    /\ TypeOK
    /\ Clocked
    /\ Timely
    /\ StoresFresh
    /\ EntriesFresh
    /\ ServedOwnCredential

-----------------------------------------------------------------------------
(***************************************************************************)
(* Types.                                                                  *)
(***************************************************************************)
\* The place of a Resolve tells which variables it has.
LEMMA Places ==
    ASSUME TypeOK, NEW c \in Conn
    PROVE  /\ res[c].at \in {"get", "query"} => res[c] \in Asking
           /\ res[c].at = "set" => res[c] \in Storing
           /\ res[c].at = "served" => res[c] \in Done
<1>1. res[c] \in Place
  BY DEF TypeOK
<1>2. CASE res[c] \in Idle
  BY <1>2 DEF Idle
<1>3. CASE res[c] \in Asking
  BY <1>3 DEF Asking
<1>4. CASE res[c] \in Storing
  BY <1>4 DEF Storing
<1>5. CASE res[c] \in Done
  BY <1>5 DEF Done
<1> QED
  BY <1>1, <1>2, <1>3, <1>4, <1>5 DEF Place

\* An entry that a hit returns is an entry.
LEMMA LiveEntry ==
    ASSUME TypeOK, NEW k \in Key \X Provider, now < cache[k].until
    PROVE  cache[k] # Missing /\ cache[k] \in Entry
<1>1. cache[k] \in {Missing} \cup Entry
  BY DEF TypeOK
<1>2. cache[k] # Missing
  BY SMT DEF TypeOK, Missing
<1> QED
  BY <1>1, <1>2

LEMMA SlotType ==
    ASSUME TypeOK, NEW c \in Conn, res[c].at \in {"get", "query", "set"}
    PROVE  /\ res[c].key \in Key
           /\ res[c].provider \in Provider
           /\ res[c].born \in Nat
           /\ Slot(c) = <<res[c].key, res[c].provider>>
           /\ Slot(c) \in Key \X Provider
  BY Places DEF Slot, CacheKey, Asking, Storing

\* Moving one Resolve to a place keeps the types.
LEMMA GotoType ==
    ASSUME TypeOK, NEW c \in Conn, NEW st \in Place, Goto(c, st)
    PROVE  /\ res' \in [Conn -> Place]
           /\ res'[c] = st
           /\ \A d \in Conn \ {c} : res'[d] = res[d]
  BY DEF TypeOK, Goto

-----------------------------------------------------------------------------
(***************************************************************************)
(* The inductive step, action by action.                                   *)
(***************************************************************************)
LEMMA InitInv == Init => IInv
<1> SUFFICES ASSUME Init PROVE IInv
  OBVIOUS
<1>1. TypeOK
  BY KeyCacheAssumption DEF Init, TypeOK, Place, Idle, Lookup, Never
<1>2. Clocked
  BY KeyCacheAssumption DEF Init, Clocked, Valid, Never, Lookup
<1>3. Timely /\ StoresFresh /\ ServedOwnCredential
  BY DEF Init, Timely, StoresFresh, ServedOwnCredential, Running, Busy
<1>4. EntriesFresh
  BY DEF Init, EntriesFresh
<1> QED
  BY <1>1, <1>2, <1>3, <1>4 DEF IInv

\* What a place must satisfy for a Resolve to move to it.
Sound(st) ==
    /\ st.at \in Busy => st.born <= now /\ now <= st.born + MaxDelay
    /\ st.at \in {"set", "served"} =>
         st.lookup.key = st.key /\ st.lookup.provider = st.provider
    /\ st.at = "set" => st.born <= lastValid[st.lookup]

\* A step that only moves a Resolve.
LEMMA MoveInv ==
    ASSUME IInv, NEW c \in Conn, NEW st \in Place, Sound(st), Goto(c, st),
           UNCHANGED <<now, tables, cache, lastValid>>
    PROVE  IInv'
<1> USE DEF tables
<1>1. /\ res' \in [Conn -> Place]
      /\ res'[c] = st
      /\ \A d \in Conn \ {c} : res'[d] = res[d]
  BY GotoType DEF IInv
<1>2. TypeOK'
  BY <1>1 DEF IInv, TypeOK
<1>3. Clocked'
  BY DEF IInv, Clocked, Valid
<1>4. Timely'
  BY <1>1 DEF IInv, Timely, Running, Sound
<1>5. StoresFresh'
  BY <1>1 DEF IInv, StoresFresh, Sound
<1>6. EntriesFresh'
  BY DEF IInv, EntriesFresh
<1>7. ServedOwnCredential'
  BY <1>1 DEF IInv, ServedOwnCredential, Sound
<1> QED
  BY <1>2, <1>3, <1>4, <1>5, <1>6, <1>7 DEF IInv

LEMMA StartInv ==
    ASSUME IInv, NEW c \in Conn, NEW k \in Key, NEW v \in Provider, Start(c, k, v)
    PROVE  IInv'
<1> DEFINE st == [at |-> "get", key |-> k, provider |-> v, born |-> now]
<1>1. st \in Place
  BY DEF IInv, TypeOK, Place, Asking
<1>2. Sound(st)
  BY KeyCacheAssumption DEF IInv, TypeOK, Sound, Busy
<1> QED
  BY <1>1, <1>2, MoveInv DEF Start

LEMMA HitInv ==
    ASSUME IInv, NEW c \in Conn, Hit(c)
    PROVE  IInv'
<1> DEFINE st == Served(c, cache[Slot(c)].lookup)
<1>1. /\ res[c].key \in Key /\ res[c].provider \in Provider
      /\ Slot(c) = <<res[c].key, res[c].provider>>
      /\ Slot(c) \in Key \X Provider
  BY SlotType DEF IInv, Hit
<1>2. cache[Slot(c)] # Missing /\ cache[Slot(c)] \in Entry
  BY <1>1, LiveEntry DEF IInv, Hit
<1>3. cache[Slot(c)].lookup \in Lookup
  BY <1>2 DEF Entry
<1>4. st \in Place
  BY <1>1, <1>3 DEF Served, Place, Done
<1>5. Sound(st)
  BY <1>1, <1>2 DEF IInv, EntriesFresh, Sound, Served, Busy
<1> QED
  BY <1>4, <1>5, MoveInv DEF Hit

LEMMA MissInv ==
    ASSUME IInv, NEW c \in Conn, Miss(c)
    PROVE  IInv'
<1> DEFINE st == [at |-> "query", key |-> res[c].key, provider |-> res[c].provider,
                  born |-> res[c].born]
<1>1. st \in Place
  BY SlotType DEF IInv, Miss, Place, Asking
<1>2. Sound(st)
  BY DEF IInv, Timely, Running, Busy, Miss, Sound
<1> QED
  BY <1>1, <1>2, MoveInv DEF Miss

LEMMA QueryInv ==
    ASSUME IInv, NEW c \in Conn, Query(c)
    PROVE  IInv'
<1>1. PICK l \in Lookup :
        /\ l.key = res[c].key /\ l.provider = res[c].provider /\ Valid(l)
        /\ Goto(c, [at |-> "set", key |-> res[c].key, provider |-> res[c].provider,
                    born |-> res[c].born, lookup |-> l])
  BY DEF Query
<1> DEFINE st == [at |-> "set", key |-> res[c].key, provider |-> res[c].provider,
                  born |-> res[c].born, lookup |-> l]
<1>2. st \in Place
  BY SlotType DEF IInv, Query, Place, Storing
<1>3. res[c].born <= now /\ now <= res[c].born + MaxDelay
  BY DEF IInv, Timely, Running, Busy, Query
<1>4. lastValid[l] = now
  BY <1>1 DEF IInv, Clocked
<1>5. Sound(st)
  BY <1>1, <1>3, <1>4 DEF Sound
<1> QED
  BY <1>1, <1>2, <1>5, MoveInv DEF Query

LEMMA QueryFailsInv ==
    ASSUME IInv, NEW c \in Conn, QueryFails(c)
    PROVE  IInv'
<1>1. [at |-> "idle"] \in Place /\ Sound([at |-> "idle"])
  BY DEF Place, Idle, Sound, Busy
<1> QED
  BY <1>1, MoveInv DEF QueryFails

LEMMA SetInv ==
    ASSUME IInv, NEW c \in Conn, NEW done \in BOOLEAN, Set(c, done)
    PROVE  IInv'
<1> DEFINE st == Served(c, res[c].lookup)
           e == [lookup |-> res[c].lookup, until |-> now + TTL]
<1> USE DEF tables
<1>1. /\ res[c] \in Storing
      /\ Slot(c) = <<res[c].key, res[c].provider>>
      /\ Slot(c) \in Key \X Provider
  BY Places, SlotType DEF IInv, Set
<1>2. /\ res[c].lookup.key = res[c].key
      /\ res[c].lookup.provider = res[c].provider
      /\ res[c].born <= lastValid[res[c].lookup]
      /\ now <= res[c].born + MaxDelay
  BY DEF IInv, StoresFresh, Timely, Running, Busy, Set
<1>3. /\ now \in Nat /\ TTL \in Nat /\ MaxDelay \in Nat
      /\ res[c].lookup \in Lookup /\ res[c].born \in Nat
      /\ lastValid[res[c].lookup] \in Int
  BY <1>1, KeyCacheAssumption DEF IInv, TypeOK, Storing
<1>4. st \in Place
  BY <1>1 DEF Served, Place, Done, Storing
<1>5. /\ res' \in [Conn -> Place]
      /\ res'[c] = st
      /\ \A d \in Conn \ {c} : res'[d] = res[d]
  BY <1>4, GotoType DEF IInv, Set
<1>6. e \in Entry
  BY <1>3 DEF Entry
<1>7. cache' \in [Key \X Provider -> {Missing} \cup Entry]
  BY <1>1, <1>6 DEF IInv, TypeOK, Set
<1>8. \A k \in Key \X Provider :
        cache'[k] = cache[k] \/ (k = Slot(c) /\ cache'[k] = e)
  BY <1>1 DEF IInv, TypeOK, Set
<1>9. TypeOK'
  BY <1>5, <1>7 DEF IInv, TypeOK, Set
<1>10. Clocked' /\ Timely'
  BY <1>5 DEF IInv, Clocked, Valid, Timely, Running, Busy, Set, Served
<1>11. StoresFresh' /\ ServedOwnCredential'
  BY <1>2, <1>5 DEF IInv, StoresFresh, ServedOwnCredential, Set, Served
<1>12. EntriesFresh'
  <2> SUFFICES ASSUME NEW k \in Key \X Provider, cache'[k] # Missing
               PROVE  /\ cache'[k].lookup.key = k[1]
                      /\ cache'[k].lookup.provider = k[2]
                      /\ cache'[k].until <= lastValid[cache'[k].lookup] + TTL + MaxDelay
    BY DEF EntriesFresh, Set
  <2>1. CASE cache'[k] = cache[k]
    BY <2>1 DEF IInv, EntriesFresh
  <2>2. CASE k = Slot(c) /\ cache'[k] = e
    BY <2>2, <1>1, <1>2, <1>3
  <2> QED
    BY <1>8, <2>1, <2>2
<1> QED
  BY <1>9, <1>10, <1>11, <1>12 DEF IInv

\* A step of the API that makes no lookup true.
LEMMA WithdrawInv ==
    ASSUME IInv, TypeOK', \A l \in Lookup : Valid(l)' => Valid(l),
           UNCHANGED <<now, cache, res, lastValid>>
    PROVE  IInv'
  BY DEF IInv, Clocked, Timely, Running, StoresFresh, EntriesFresh, ServedOwnCredential

LEMMA AddCredentialInv ==
    ASSUME IInv, NEW p \in Project, NEW v \in Provider, NEW s \in Secret,
           AddCredential(p, v, s)
    PROVE  IInv'
<1>1. now \in Nat /\ lastValid \in [Lookup -> Int]
  BY DEF IInv, TypeOK
<1>2. \A l \in Lookup : lastValid'[l] = IF Valid(l)' THEN now ELSE lastValid[l]
  BY DEF AddCredential
<1>3. \A l \in Lookup : lastValid'[l] \in Int /\ lastValid[l] <= lastValid'[l]
  BY <1>1, <1>2 DEF IInv, Clocked
<1>4. lastValid' \in [Lookup -> Int]
  BY <1>1, <1>2 DEF AddCredential
<1>5. TypeOK'
  BY <1>4 DEF IInv, TypeOK, AddCredential
<1>6. Clocked'
  BY <1>1, <1>2 DEF IInv, Clocked, AddCredential
<1>7. Timely' /\ ServedOwnCredential'
  BY DEF IInv, Timely, Running, ServedOwnCredential, AddCredential
<1>8. StoresFresh'
  <2> SUFFICES ASSUME NEW c \in Conn, res[c].at = "set"
               PROVE  res[c].born <= lastValid'[res[c].lookup]
    BY DEF IInv, StoresFresh, AddCredential
  <2>1. res[c].lookup \in Lookup /\ res[c].born \in Nat
    BY Places DEF IInv, Storing
  <2>2. res[c].born <= lastValid[res[c].lookup]
    BY DEF IInv, StoresFresh
  <2> QED
    BY <1>1, <1>3, <2>1, <2>2
<1>9. EntriesFresh'
  <2> SUFFICES ASSUME NEW k \in Key \X Provider, cache[k] # Missing
               PROVE  cache[k].until <= lastValid'[cache[k].lookup] + TTL + MaxDelay
    BY DEF IInv, EntriesFresh, AddCredential
  <2>1. cache[k] \in Entry
    BY DEF IInv, TypeOK
  <2>2. cache[k].lookup \in Lookup /\ cache[k].until \in Nat
    BY <2>1 DEF Entry
  <2>3. cache[k].until <= lastValid[cache[k].lookup] + TTL + MaxDelay
    BY DEF IInv, EntriesFresh
  <2> QED
    BY <1>1, <1>3, <2>2, <2>3, KeyCacheAssumption
<1> QED
  BY <1>5, <1>6, <1>7, <1>8, <1>9 DEF IInv

LEMMA ApiInv ==
    ASSUME IInv, Api
    PROVE  IInv'
<1>1. ASSUME NEW k \in Key, RevokeKey(k) PROVE IInv'
  BY <1>1, WithdrawInv DEF RevokeKey, IInv, TypeOK, Valid
<1>2. ASSUME NEW p \in Project, NEW v \in Provider, NEW s \in Secret, AddCredential(p, v, s)
      PROVE  IInv'
  BY <1>2, AddCredentialInv
<1>3. ASSUME NEW p \in Project, NEW v \in Provider, RevokeCredential(p, v)
      PROVE  IInv'
  <2>1. TypeOK'
    BY <1>3 DEF RevokeCredential, IInv, TypeOK
  <2>2. \A l \in Lookup : Valid(l)' => Valid(l)
    BY <1>3, KeyCacheAssumption DEF RevokeCredential, IInv, TypeOK, Valid, Lookup
  <2> QED
    BY <1>3, <2>1, <2>2, WithdrawInv DEF RevokeCredential
<1>4. ASSUME NEW p \in Project, DeleteProject(p) PROVE IInv'
  BY <1>4, WithdrawInv DEF DeleteProject, IInv, TypeOK, Valid
<1> QED
  BY <1>1, <1>2, <1>3, <1>4 DEF Api

LEMMA ForgetInv ==
    ASSUME IInv, NEW k \in Key \X Provider, Forget(k)
    PROVE  IInv'
<1> USE DEF Forget, tables
<1>1. \A j \in Key \X Provider : cache'[j] = cache[j] \/ cache'[j] = Missing
  BY DEF IInv, TypeOK
<1>2. TypeOK'
  BY DEF IInv, TypeOK
<1>3. EntriesFresh'
  BY <1>1 DEF IInv, EntriesFresh
<1> QED
  BY <1>2, <1>3 DEF IInv, Clocked, Valid, Timely, Running, StoresFresh, ServedOwnCredential

LEMMA TickInv ==
    ASSUME IInv, Tick
    PROVE  IInv'
<1> USE DEF Tick, tables
<1>1. now \in Nat /\ now' = now + 1 /\ lastValid \in [Lookup -> Int]
  BY DEF IInv, TypeOK
<1>2. \A l \in Lookup : lastValid'[l] = IF Valid(l) THEN now + 1 ELSE lastValid[l]
  OBVIOUS
<1>3. \A l \in Lookup :
        lastValid'[l] \in Int /\ lastValid[l] <= lastValid'[l] /\ lastValid'[l] <= now'
  BY <1>1, <1>2 DEF IInv, Clocked
<1>4. lastValid' \in [Lookup -> Int]
  BY <1>1
<1>5. TypeOK'
  BY <1>1, <1>4, KeyCacheAssumption DEF IInv, TypeOK
<1>6. Clocked'
  BY <1>1, <1>2, <1>3 DEF Clocked, Valid
<1>7. Timely'
  <2> SUFFICES ASSUME NEW c \in Conn, Running(c)
               PROVE  res[c].born <= now + 1 /\ now + 1 <= res[c].born + MaxDelay
    BY <1>1 DEF Timely, Running
  <2>1. res[c].born \in Nat
    BY SlotType DEF IInv, Running, Busy
  <2>2. res[c].born <= now /\ now < res[c].born + MaxDelay
    BY DEF IInv, Timely
  <2> QED
    BY <1>1, <2>1, <2>2, KeyCacheAssumption
<1>8. StoresFresh'
  <2> SUFFICES ASSUME NEW c \in Conn, res[c].at = "set"
               PROVE  res[c].born <= lastValid'[res[c].lookup]
    BY DEF IInv, StoresFresh
  <2>1. res[c].lookup \in Lookup /\ res[c].born \in Nat
    BY Places DEF IInv, Storing
  <2>2. res[c].born <= lastValid[res[c].lookup]
    BY DEF IInv, StoresFresh
  <2> QED
    BY <1>1, <1>3, <2>1, <2>2
<1>9. EntriesFresh'
  <2> SUFFICES ASSUME NEW k \in Key \X Provider, cache[k] # Missing
               PROVE  cache[k].until <= lastValid'[cache[k].lookup] + TTL + MaxDelay
    BY DEF IInv, EntriesFresh
  <2>1. cache[k] \in Entry
    BY DEF IInv, TypeOK
  <2>2. cache[k].lookup \in Lookup /\ cache[k].until \in Nat
    BY <2>1 DEF Entry
  <2>3. cache[k].until <= lastValid[cache[k].lookup] + TTL + MaxDelay
    BY DEF IInv, EntriesFresh
  <2> QED
    BY <1>1, <1>3, <2>2, <2>3, KeyCacheAssumption
<1>10. ServedOwnCredential'
  BY DEF IInv, ServedOwnCredential
<1> QED
  BY <1>5, <1>6, <1>7, <1>8, <1>9, <1>10 DEF IInv

LEMMA NextInv == IInv /\ [Next]_vars => IInv'
<1> SUFFICES ASSUME IInv, [Next]_vars PROVE IInv'
  OBVIOUS
<1>1. ASSUME NEW c \in Conn, Resolve(c) PROVE IInv'
  BY <1>1, StartInv, HitInv, MissInv, QueryInv, QueryFailsInv, SetInv DEF Resolve
<1>2. CASE Api
  BY <1>2, ApiInv
<1>3. ASSUME NEW k \in Key \X Provider, Forget(k) PROVE IInv'
  BY <1>3, ForgetInv
<1>4. CASE Tick
  BY <1>4, TickInv
<1>5. CASE UNCHANGED vars
  BY <1>5 DEF vars, tables, IInv, TypeOK, Clocked, Valid, Timely, Running,
              StoresFresh, EntriesFresh, ServedOwnCredential
<1> QED
  BY <1>1, <1>2, <1>3, <1>4, <1>5 DEF Next

\* The invariant of these proofs holds in every reachable state.
THEOREM Invariance == Spec => []IInv
  BY InitInv, NextInv, PTL DEF Spec

-----------------------------------------------------------------------------
\* The types of the resolver's state, its cache and the tables (proxy/auth.go).
THEOREM TypeCorrect == Spec => []TypeOK
<1>1. IInv => TypeOK
  BY DEF IInv
<1> QED
  BY <1>1, Invariance, PTL

\* For any keys, providers and requests, a request gets the credential of its
\* own key and provider (proxy/auth.go:60-75).
THEOREM OwnCredential == Spec => []ServedOwnCredential
<1>1. IInv => ServedOwnCredential
  BY DEF IInv
<1> QED
  BY <1>1, Invariance, PTL

\* For any lifetime and delay, a lookup that is no longer true is out of use
\* after keyCacheTTL and the time of one Resolve (proxy/auth.go:60-75).
THEOREM StaleUse == Spec => StaleUseBounded
<1>1. ASSUME IInv, Next, NEW c \in Conn, res'[c].at = "served", res[c] # res'[c]
      PROVE  now < lastValid[res'[c].lookup] + TTL + MaxDelay
  <2>1. Hit(c) \/ \E done \in BOOLEAN : Set(c, done)
    <3>1. ASSUME NEW d \in Conn, NEW st, Goto(d, st) PROVE d = c /\ st.at = "served"
      BY <1>1, <3>1 DEF IInv, TypeOK, Goto
    <3>2. ASSUME NEW d \in Conn, Resolve(d) PROVE Hit(c) \/ \E done \in BOOLEAN : Set(c, done)
      <4>1. ASSUME NEW k \in Key, NEW v \in Provider, Start(d, k, v) PROVE FALSE
        BY <4>1, <3>1 DEF Start
      <4>2. CASE Hit(d)
        BY <4>2, <3>1 DEF Hit
      <4>3. CASE Miss(d) \/ QueryFails(d)
        BY <4>3, <3>1 DEF Miss, QueryFails
      <4>4. CASE Query(d)
        BY <4>4, <3>1 DEF Query
      <4>5. ASSUME NEW done \in BOOLEAN, Set(d, done) PROVE Set(c, done)
        BY <4>5, <3>1 DEF Set
      <4> QED
        BY <3>2, <4>1, <4>2, <4>3, <4>4, <4>5 DEF Resolve
    <3>3. ~(Api \/ Tick \/ \E k \in Key \X Provider : Forget(k))
      BY <1>1 DEF Api, RevokeKey, AddCredential, RevokeCredential, DeleteProject, Tick, Forget
    <3> QED
      BY <1>1, <3>2, <3>3 DEF Next
  <2>2. CASE Hit(c)
    <3>1. Slot(c) \in Key \X Provider
      BY <1>1, <2>2, SlotType DEF IInv, Hit
    <3>2. cache[Slot(c)] # Missing /\ cache[Slot(c)] \in Entry
      BY <1>1, <2>2, <3>1, LiveEntry DEF IInv, Hit
    <3>3. res'[c].lookup = cache[Slot(c)].lookup
      BY <1>1, <2>2 DEF IInv, TypeOK, Hit, Goto, Served
    <3>4. /\ now < cache[Slot(c)].until
          /\ cache[Slot(c)].until <= lastValid[cache[Slot(c)].lookup] + TTL + MaxDelay
      BY <1>1, <2>2, <3>1, <3>2 DEF IInv, EntriesFresh, Hit
    <3>5. now \in Nat /\ cache[Slot(c)].until \in Nat /\ lastValid[cache[Slot(c)].lookup] \in Int
      BY <1>1, <3>2 DEF IInv, TypeOK, Entry
    <3> QED
      BY <3>3, <3>4, <3>5, KeyCacheAssumption
  <2>3. ASSUME NEW done \in BOOLEAN, Set(c, done)
        PROVE  now < lastValid[res'[c].lookup] + TTL + MaxDelay
    <3>1. res[c] \in Storing
      BY <1>1, <2>3, Places DEF IInv, Set
    <3>2. res'[c].lookup = res[c].lookup
      BY <1>1, <2>3 DEF IInv, TypeOK, Set, Goto, Served
    <3>3. now <= res[c].born + MaxDelay /\ res[c].born <= lastValid[res[c].lookup]
      BY <1>1, <2>3 DEF IInv, Timely, Running, Busy, StoresFresh, Set
    <3>4. now \in Nat /\ res[c].born \in Nat /\ lastValid[res[c].lookup] \in Int
      BY <1>1, <3>1 DEF IInv, TypeOK, Storing
    <3> QED
      BY <3>2, <3>3, <3>4, KeyCacheAssumption
  <2> QED
    BY <2>1, <2>2, <2>3
<1>2. IInv /\ [Next]_vars => [\A c \in Conn : res'[c].at = "served" /\ res[c] # res'[c] =>
        now < lastValid[res'[c].lookup] + TTL + MaxDelay]_vars
  BY <1>1
<1> QED
  BY <1>2, Invariance, PTL DEF Spec, StaleUseBounded
=============================================================================
