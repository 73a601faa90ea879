------------------------------ MODULE KeyCache -------------------------------
(***************************************************************************)
(* How the proxies turn an AIRelay key into a provider credential:         *)
(* KeyResolver.Resolve (proxy/auth.go) with its cache in Redis, against    *)
(* the management API that revokes keys and changes credentials            *)
(* (api/keys.go, api/credentials.go, api/projects.go).  Nothing removes a  *)
(* cache entry when the tables change; it only times out.                  *)
(*                                                                         *)
(* Every call to Redis or Postgres is one action.  Time passes in ticks;   *)
(* a Resolve takes MaxDelay ticks at most, which is an assumption on the   *)
(* stores and the client: the code sets no deadline of its own.            *)
(***************************************************************************)
EXTENDS Integers

CONSTANTS
    Key,        \* rows of api_keys
    Project,    \* rows of projects
    ProjectOf,  \* [Key -> Project]
    Provider,   \* provider slugs
    Secret,     \* provider keys in plain text
    NoSecret,   \* the provider has no active credential
    Conn,       \* requests that are resolved concurrently
    TTL,        \* keyCacheTTL
    MaxDelay,   \* longest duration of a Resolve
    MaxTime     \* bound: ticks

ASSUME KeyCacheAssumption ==
    /\ ProjectOf \in [Key -> Project]
    /\ NoSecret \notin Secret
    /\ TTL \in Nat \ {0}
    /\ MaxDelay \in Nat
    /\ MaxTime \in Nat

VARIABLES
    now,       \* time
    revoked,   \* keys with a revoked_at
    archived,  \* projects with an archived_at
    cred,      \* [Project -> [Provider -> active credential, or none]]
    cache,     \* [CacheKey -> what Redis holds, or Missing]
    res,       \* [Conn -> place and local variables of a Resolve]
    lastValid  \* history: [Lookup -> the last time it was true]

tables == <<revoked, archived, cred>>
vars == <<now, tables, cache, res, lastValid>>

\* KeyLookup: the key and project it stands for, and the decrypted credential.
Lookup == [key : Key, provider : Provider, secret : Secret]

Missing == [until |-> -1]
Never == -(TTL + MaxDelay + 1)

\* What the JOIN of resolveFromDB finds, for the key and provider of l.
Valid(l) == l.key \notin revoked /\ cred[ProjectOf[l.key]][l.provider] = l.secret

Busy == {"get", "query", "set"}
Running(c) == res[c].at \in Busy

\* The places of Resolve, with the variables that are live there.
Idle == [at : {"idle"}]
Asking == [at : {"get", "query"}, key : Key, provider : Provider, born : Nat]
Storing == [at : {"set"}, key : Key, provider : Provider, born : Nat, lookup : Lookup]
Done == [at : {"served"}, key : Key, provider : Provider, lookup : Lookup]
Place == Idle \cup Asking \cup Storing \cup Done

Entry == [lookup : Lookup, until : Nat]

TypeOK ==
    /\ now \in 0 .. MaxTime
    /\ revoked \subseteq Key
    /\ archived \subseteq Project
    /\ cred \in [Project -> [Provider -> Secret \cup {NoSecret}]]
    /\ cache \in [Key \X Provider -> {Missing} \cup Entry]
    /\ res \in [Conn -> Place]
    /\ lastValid \in [Lookup -> Int]

Init ==
    /\ now = 0
    /\ revoked = {}
    /\ archived = {}
    /\ cred = [p \in Project |-> [v \in Provider |-> NoSecret]]
    /\ cache = [k \in Key \X Provider |-> Missing]
    /\ res = [c \in Conn |-> [at |-> "idle"]]
    /\ lastValid = [l \in Lookup |-> Never]

-----------------------------------------------------------------------------
(***************************************************************************)
(* Deviations, used by PROJECT.json only.                                  *)
(***************************************************************************)
\* The cache key leaves the provider out.
CacheKeyByHash(k, v) == <<k, CHOOSE x \in Provider : TRUE>>

\* A hit prolongs the entry.
HitSliding(c) ==
    LET k == <<res[c].key, res[c].provider>> IN
    /\ res[c].at = "get"
    /\ now < cache[k].until
    /\ res' = [res EXCEPT ![c] = [at |-> "served", key |-> res[c].key,
                  provider |-> res[c].provider, lookup |-> cache[k].lookup]]
    /\ cache' = [cache EXCEPT ![k].until = now + TTL]
    /\ UNCHANGED <<now, tables, lastValid>>

\* A LEFT JOIN: a key without a credential is found.
QueryOuter(c) ==
    /\ res[c].at = "query"
    /\ res[c].key \notin revoked
    /\ res' = [res EXCEPT ![c] = [at |-> "set", key |-> res[c].key,
                  provider |-> res[c].provider, born |-> res[c].born,
                  lookup |-> [key |-> res[c].key, provider |-> res[c].provider,
                     secret |-> cred[ProjectOf[res[c].key]][res[c].provider]]]]
    /\ UNCHANGED <<now, tables, cache, lastValid>>

-----------------------------------------------------------------------------
(***************************************************************************)
(* Resolve.                                                                *)
(***************************************************************************)
\* keycache:{hash}:{provider}
CacheKey(k, v) == <<k, v>>
Slot(c) == CacheKey(res[c].key, res[c].provider)

Goto(c, st) == res' = [res EXCEPT ![c] = st]

\* A request enters Resolve, with a key that exists or existed.
Start(c, k, v) ==
    /\ ~Running(c)
    /\ Goto(c, [at |-> "get", key |-> k, provider |-> v, born |-> now])
    /\ UNCHANGED <<now, tables, cache, lastValid>>

Served(c, l) ==
    [at |-> "served", key |-> res[c].key, provider |-> res[c].provider, lookup |-> l]

Hit(c) ==
    /\ res[c].at = "get"
    /\ now < cache[Slot(c)].until
    /\ Goto(c, Served(c, cache[Slot(c)].lookup))
    /\ UNCHANGED <<now, tables, cache, lastValid>>

\* There is no entry, or Redis returned an error: both lead to Postgres.
Miss(c) ==
    /\ res[c].at = "get"
    /\ Goto(c, [at |-> "query", key |-> res[c].key, provider |-> res[c].provider,
                born |-> res[c].born])
    /\ UNCHANGED <<now, tables, cache, lastValid>>

Query(c) ==
    /\ res[c].at = "query"
    /\ \E l \in Lookup :
         /\ l.key = res[c].key /\ l.provider = res[c].provider /\ Valid(l)
         /\ Goto(c, [at |-> "set", key |-> res[c].key, provider |-> res[c].provider,
                     born |-> res[c].born, lookup |-> l])
    /\ UNCHANGED <<now, tables, cache, lastValid>>

\* No row, a failed query or an undecipherable credential: 401.
QueryFails(c) ==
    /\ res[c].at = "query"
    /\ Goto(c, [at |-> "idle"])
    /\ UNCHANGED <<now, tables, cache, lastValid>>

\* The outcome of the SET is not looked at.
Set(c, done) ==
    /\ res[c].at = "set"
    /\ cache' = IF done
                THEN [cache EXCEPT ![Slot(c)] = [lookup |-> res[c].lookup, until |-> now + TTL]]
                ELSE cache
    /\ Goto(c, Served(c, res[c].lookup))
    /\ UNCHANGED <<now, tables, lastValid>>

Resolve(c) ==
    \/ \E k \in Key, v \in Provider : Start(c, k, v)
    \/ Hit(c)
    \/ Miss(c)
    \/ Query(c)
    \/ QueryFails(c)
    \/ \E done \in BOOLEAN : Set(c, done)

-----------------------------------------------------------------------------
(***************************************************************************)
(* The management API.  projectFromPath refuses archived projects.         *)
(***************************************************************************)
RevokeKey(k) ==
    /\ ProjectOf[k] \notin archived
    /\ k \notin revoked
    /\ revoked' = revoked \cup {k}
    /\ UNCHANGED <<now, archived, cred, cache, res, lastValid>>

\* An INSERT, or an UPDATE of the active credential; lookups become true.
AddCredential(p, v, s) ==
    /\ p \notin archived
    /\ cred' = [cred EXCEPT ![p][v] = s]
    /\ UNCHANGED <<now, revoked, archived, cache, res>>
    /\ lastValid' = [l \in Lookup |-> IF Valid(l)' THEN now ELSE lastValid[l]]

RevokeCredential(p, v) ==
    /\ p \notin archived
    /\ cred[p][v] # NoSecret
    /\ cred' = [cred EXCEPT ![p][v] = NoSecret]
    /\ UNCHANGED <<now, revoked, archived, cache, res, lastValid>>

\* Keys and credentials keep their rows, and the keys keep resolving.
DeleteProject(p) ==
    /\ p \notin archived
    /\ archived' = archived \cup {p}
    /\ UNCHANGED <<now, revoked, cred, cache, res, lastValid>>

Api ==
    \/ \E k \in Key : RevokeKey(k)
    \/ \E p \in Project, v \in Provider :
         \/ \E s \in Secret : AddCredential(p, v, s)
         \/ RevokeCredential(p, v)
    \/ \E p \in Project : DeleteProject(p)

-----------------------------------------------------------------------------
\* Redis loses an entry: it timed out, or Redis was restarted.
Forget(k) ==
    /\ cache[k] # Missing
    /\ cache' = [cache EXCEPT ![k] = Missing]
    /\ UNCHANGED <<now, tables, res, lastValid>>

Tick ==
    /\ now < MaxTime
    /\ \A c \in Conn : Running(c) => now < res[c].born + MaxDelay
    /\ now' = now + 1
    /\ lastValid' = [l \in Lookup |-> IF Valid(l) THEN now + 1 ELSE lastValid[l]]
    /\ UNCHANGED <<tables, cache, res>>

Next ==
    \/ \E c \in Conn : Resolve(c)
    \/ Api
    \/ \E k \in Key \X Provider : Forget(k)
    \/ Tick

Spec == Init /\ [][Next]_vars

-----------------------------------------------------------------------------
(***************************************************************************)
(* Properties.                                                             *)
(***************************************************************************)
\* A request is served with the credential of its own key and provider, never
\* with one another request put into the cache (proxy/auth.go:62, 103-131):
\* its usage is then charged to the right key and project.
ServedOwnCredential ==
    \A c \in Conn : res[c].at = "served" =>
        /\ res[c].lookup.key = res[c].key
        /\ res[c].lookup.provider = res[c].provider

\* A revoked key, and a replaced or revoked credential, are out of use after
\* keyCacheTTL and the time of one Resolve, however the reads, stores and hits
\* of concurrent requests interleave with the revocation (proxy/auth.go:60-75).
StaleUseBounded ==
    [][\A c \in Conn : res'[c].at = "served" /\ res[c] # res'[c] =>
        now < lastValid[res'[c].lookup] + TTL + MaxDelay]_vars
=============================================================================
