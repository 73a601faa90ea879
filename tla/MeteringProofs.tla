---------------------------- MODULE MeteringProofs ----------------------------
(***************************************************************************)
(* Theorems about Metering: what is counted is what a stream told, and the *)
(* bounds on the age of a price, for any number of lookups, any lifetimes  *)
(* and any delays.                                                         *)
(***************************************************************************)
EXTENDS Metering, TLAPS

-----------------------------------------------------------------------------
(***************************************************************************)
(* Streams.                                                                *)
(***************************************************************************)
LEMMA UsageIsNotNone ==
    ASSUME NEW p, NEW c PROVE Tokens(p, c) # NoUsage
<1>1. DOMAIN Tokens(p, c) = {"prompt", "completion"}
  BY DEF Tokens
<1>2. DOMAIN NoUsage = {"prompt"}
  BY DEF NoUsage
<1>3. "completion" \notin {"prompt"}
  OBVIOUS
<1> QED BY <1>1, <1>2, <1>3

\* The only place of a set is its minimum.
LEMMA MinOfOne ==
    ASSUME NEW S \in SUBSET Nat, NEW i \in S, \A j \in S : j = i
    PROVE  Min(S) = i
<1>1. \E x \in S : \A y \in S : x =< y
  OBVIOUS
<1>2. Min(S) \in S
  BY <1>1 DEF Min
<1> QED BY <1>2

\* What the parsers find in a list with one line of counts, and without.
LEMMA ParseStart ==
    ASSUME NEW b \in Seq(Line("anthropic")), NEW i \in DOMAIN b,
           \A j \in DOMAIN b : b[j].kind = "start" => j = i
    PROVE  ParseAnthropicMessageStart(b) = IF b[i].kind = "start" THEN b[i].prompt ELSE 0
<1>1. Matches(b, "start") \in SUBSET Nat
  BY DEF Matches
<1>2. CASE b[i].kind = "start"
  <2>1. i \in Matches(b, "start") /\ \A j \in Matches(b, "start") : j = i
    BY <1>2 DEF Matches
  <2>2. Min(Matches(b, "start")) = i
    BY <1>1, <2>1, MinOfOne
  <2> QED BY <1>2, <2>1, <2>2 DEF ParseAnthropicMessageStart
<1>3. CASE b[i].kind # "start"
  <2>1. Matches(b, "start") = {}
    BY <1>3 DEF Matches
  <2> QED BY <1>3, <2>1 DEF ParseAnthropicMessageStart
<1> QED BY <1>2, <1>3

LEMMA ParseDelta ==
    ASSUME NEW b \in Seq(Line("anthropic")), NEW n, NEW i \in DOMAIN b,
           \A j \in DOMAIN b : b[j].kind = "delta" => j = i
    PROVE  ParseAnthropicEvent(b, n) =
              IF b[i].kind = "delta" THEN Tokens(n, b[i].completion) ELSE NoUsage
<1>1. Matches(b, "delta") \in SUBSET Nat
  BY DEF Matches
<1>2. CASE b[i].kind = "delta"
  <2>1. i \in Matches(b, "delta") /\ \A j \in Matches(b, "delta") : j = i
    BY <1>2 DEF Matches
  <2>2. Min(Matches(b, "delta")) = i
    BY <1>1, <2>1, MinOfOne
  <2> QED BY <1>2, <2>1, <2>2 DEF ParseAnthropicEvent
<1>3. CASE b[i].kind # "delta"
  <2>1. Matches(b, "delta") = {}
    BY <1>3 DEF Matches
  <2> QED BY <1>3, <2>1 DEF ParseAnthropicEvent
<1> QED BY <1>2, <1>3

LEMMA LineCases ==
    ASSUME NEW v \in Provider, NEW l \in Line(v)
    PROVE  \/ l = Blank /\ l.kind = "blank"
           \/ l = Other /\ l.kind = "other"
           \/ /\ l \in DataLine(v)
              /\ \/ l.kind = "start" /\ l.prompt \in Count /\ v = "anthropic"
                 \/ l.kind = "delta" /\ l.completion \in Count /\ v = "anthropic"
                 \/ /\ l.kind \in {"chunk", "bare"} /\ v # "anthropic"
                    /\ l.prompt \in Count /\ l.completion \in Count
                    /\ l.kind = "bare" => v = "google"
BY DEF Provider, Line, DataLine, Blank, Other, Chunk, MessageStart, MessageDelta

-----------------------------------------------------------------------------
(***************************************************************************)
(* The event of Anthropic that is being read has at most one line of       *)
(* counts, and what it said is what was told last.                         *)
(***************************************************************************)
EventTold ==
    /\ \A i \in DOMAIN buf : buf[i].kind = "start" => told.prompt = buf[i].prompt
    /\ \A i \in DOMAIN buf : buf[i].kind = "delta" =>
          told.usage = Tokens(told.prompt, buf[i].completion)
    /\ \A i, j \in DOMAIN buf : buf[i] # Other /\ buf[j] # Other => i = j

\* No line has been read.
Unread ==
    /\ buf = <<>> /\ input = 0 /\ usage = NoUsage
    /\ told = [prompt |-> 0, usage |-> NoUsage]

StreamInv ==
    /\ StreamTypeOK
    /\ UsageAsTold
    /\ provider = "anthropic" => input = told.prompt /\ EventTold
    /\ at = "closed" => Unread

LEMMA UnreadInv ==
    ASSUME Unread, provider \in Provider, at \in {"closed", "open"}
    PROVE  StreamInv
<1>1. buf \in Seq(Line(provider) \ {Blank}) /\ Len(buf) <= MaxLines
  BY StreamAssumption DEF Unread
<1>2. told \in [prompt : Nat, usage : Usage \cup {NoUsage}]
  BY DEF Unread
<1>3. StreamTypeOK
  BY <1>1, <1>2 DEF StreamTypeOK, Unread
<1>4. EventTold
  BY DEF EventTold, Unread
<1> QED BY <1>3, <1>4 DEF StreamInv, UsageAsTold, Unread

LEMMA UnreadNext ==
    ASSUME Unread', provider' \in Provider, at' \in {"closed", "open"}
    PROVE  StreamInv'
<1>1. buf' \in Seq(Line(provider') \ {Blank}) /\ Len(buf') <= MaxLines
  BY StreamAssumption DEF Unread
<1>2. told' \in [prompt : Nat, usage : Usage \cup {NoUsage}]
  BY DEF Unread
<1>3. StreamTypeOK'
  BY <1>1, <1>2 DEF StreamTypeOK, Unread
<1>4. EventTold'
  BY DEF EventTold, Unread
<1> QED BY <1>3, <1>4 DEF StreamInv, UsageAsTold, Unread

LEMMA StreamInitInv == StreamInit => StreamInv
BY UnreadInv DEF StreamInit, Unread, Provider

LEMMA StopInv ==
    ASSUME StreamInv, StopScan
    PROVE  StreamInv'
BY UnreadNext DEF StopScan, Unread, Provider

LEMMA OpenInv ==
    ASSUME StreamInv, NEW v \in Provider, Open(v)
    PROVE  StreamInv'
<1>1. Unread' /\ provider' \in Provider /\ at' = "open"
  BY DEF Open, Unread, StreamInv
<1> QED BY <1>1, UnreadNext

-----------------------------------------------------------------------------
(***************************************************************************)
(* A line is read.                                                         *)
(***************************************************************************)
LEMMA ReadInv ==
    ASSUME StreamInv, NEW l \in Line(provider), ReadLine(l)
    PROVE  StreamInv'
<1> DEFINE event == Append(buf, l)
           n == ParseAnthropicMessageStart(event)
<1>1. /\ at = "open" /\ at' = at /\ provider' = provider /\ provider \in Provider
      /\ buf \in Seq(Line(provider) \ {Blank}) /\ Len(buf) <= MaxLines
      /\ input \in Count \cup {0} /\ usage \in Usage \cup {NoUsage}
      /\ told \in [prompt : Nat, usage : Usage \cup {NoUsage}]
  BY DEF ReadLine, StreamInv, StreamTypeOK
<1>2. /\ Sendable(l) /\ Tell(l)
      /\ input' = IF provider = "anthropic" /\ n > 0 THEN n ELSE input
      /\ usage' = LastUsage(event, l, input')
      /\ buf' = IF l = Blank THEN <<>> ELSE event
  BY DEF ReadLine
<1>3. /\ event \in Seq(Line(provider)) /\ DOMAIN event = 1 .. Len(buf) + 1
      /\ DOMAIN buf = 1 .. Len(buf) /\ Len(buf) \in Nat
      /\ event[Len(buf) + 1] = l /\ \A i \in DOMAIN buf : event[i] = buf[i]
  BY <1>1
<1>4. buf' \in Seq(Line(provider') \ {Blank}) /\ Len(buf') <= MaxLines
  <2>1. CASE l = Blank
    BY <1>1, <1>2, <2>1, StreamAssumption
  <2>2. CASE l # Blank
    <3> DEFINE S == Line(provider) \ {Blank}
    <3>1. /\ buf' = Append(buf, l) /\ provider' = provider
          /\ l \in S /\ buf \in Seq(S) /\ Len(buf) < MaxLines /\ MaxLines \in Nat
      BY <1>1, <1>2, <2>2, StreamAssumption DEF Sendable
    <3>2. buf' \in Seq(S) /\ Len(buf') <= MaxLines
      <4> HIDE DEF S
      <4> QED BY <3>1
    <3> QED BY <3>1, <3>2
  <2> QED BY <2>1, <2>2
<1>5. \/ l.kind \in {"blank", "other"} /\ told' = told
      \/ /\ provider = "anthropic" /\ l.kind = "start" /\ l.prompt \in Nat
         /\ l.prompt \in Count
         /\ told.prompt = 0 /\ told.usage = NoUsage
         /\ told' = [told EXCEPT !.prompt = l.prompt]
         /\ \A i \in DOMAIN buf : buf[i] = Other
      \/ /\ provider = "anthropic" /\ l.kind = "delta" /\ l.completion \in Nat
         /\ told' = [told EXCEPT !.usage = Tokens(told.prompt, l.completion)]
         /\ \A i \in DOMAIN buf : buf[i] = Other
      \/ /\ provider # "anthropic" /\ l.kind \in {"chunk", "bare"}
         /\ l.kind = "bare" => provider = "google"
         /\ l.prompt \in Nat /\ l.completion \in Nat
         /\ told' = [told EXCEPT !.usage = Tokens(l.prompt, l.completion)]
  BY <1>1, <1>2, LineCases, StreamAssumption DEF Sendable, Tell
<1>6. told' \in [prompt : Nat, usage : Usage \cup {NoUsage}]
  BY <1>1, <1>5 DEF Usage, Tokens
<1>7. CASE provider # "anthropic"
  <2>1. input' = input
    BY <1>2, <1>7
  <2>2. CASE provider = "openai"
    <3>1. usage' = told'.usage
      <4>1. usage = told.usage
        BY <2>2 DEF StreamInv, UsageAsTold
      <4>2. CASE l.kind = "chunk"
        BY <1>1, <1>2, <1>5, <2>2, <4>2, UsageIsNotNone DEF LastUsage, ParseOpenAIChunk
      <4>3. CASE l.kind # "chunk"
        BY <1>1, <1>2, <1>5, <2>2, <4>1, <4>3 DEF LastUsage, ParseOpenAIChunk
      <4> QED BY <4>2, <4>3
    <3> QED BY <1>1, <1>4, <1>6, <2>1, <2>2, <3>1 DEF StreamInv, StreamTypeOK, UsageAsTold
  <2>3. CASE provider = "google"
    <3>1. usage' \in Usage \cup {NoUsage}
      BY <1>1, <1>2, <1>5, <2>3 DEF LastUsage, ParseGoogleChunk, Tokens, Usage
    <3> QED BY <1>1, <1>4, <1>6, <2>1, <2>3, <3>1 DEF StreamInv, StreamTypeOK, UsageAsTold
  <2> QED BY <1>1, <1>7, <2>2, <2>3 DEF Provider
<1>8. CASE provider = "anthropic"
  <2>1. EventTold /\ input = told.prompt /\ usage = told.usage
    BY <1>8 DEF StreamInv, UsageAsTold
  <2>2. PICK i \in DOMAIN event :
           \A j \in DOMAIN event : event[j].kind \in {"start", "delta"} => j = i
    <3>1. CASE l.kind \in {"start", "delta"}
      BY <1>3, <1>5, <3>1 DEF Other
    <3>2. CASE l.kind \notin {"start", "delta"} /\ \A j \in DOMAIN buf : buf[j] = Other
      BY <1>3, <3>2 DEF Other
    <3>3. CASE l.kind \notin {"start", "delta"} /\ \E j \in DOMAIN buf : buf[j] # Other
      BY <1>3, <2>1, <3>3, SMTT(20) DEF EventTold, Other
    <3> QED BY <3>1, <3>2, <3>3
  <2>3. n = IF event[i].kind = "start" THEN event[i].prompt ELSE 0
    BY <1>3, <1>8, <2>2, ParseStart
  <2>4. ParseAnthropicEvent(event, input') =
           IF event[i].kind = "delta" THEN Tokens(input', event[i].completion) ELSE NoUsage
    BY <1>3, <1>8, <2>2, ParseDelta
  <2>5. usage' = IF event[i].kind = "delta" THEN Tokens(input', event[i].completion)
                 ELSE usage
    BY <1>2, <1>8, <2>4, UsageIsNotNone DEF LastUsage
  <2>6. \/ i = Len(buf) + 1 /\ event[i] = l
        \/ i \in DOMAIN buf /\ event[i] = buf[i]
    BY <1>3
  <2>7. input' = told'.prompt /\ input' \in Count \cup {0}
    <3>1. CASE l.kind = "start"
      BY <1>1, <1>2, <1>3, <1>5, <1>8, <2>1, <2>2, <2>3, <3>1
    <3>2. CASE l.kind # "start"
      <4>1. told'.prompt = told.prompt
        BY <1>1, <1>5, <1>8, <3>2
      <4>2. n > 0 => n = told.prompt
        BY <2>1, <2>3, <2>6, <3>2 DEF EventTold
      <4> QED BY <1>1, <1>2, <2>1, <4>1, <4>2
    <3> QED BY <3>1, <3>2
  <2>8. usage' = told'.usage
    <3>1. CASE l.kind = "delta"
      <4>1. i = Len(buf) + 1
        BY <1>3, <2>2, <3>1
      <4>2. told'.prompt = told.prompt /\ told'.usage = Tokens(told.prompt, l.completion)
        BY <1>1, <1>5, <3>1
      <4> QED BY <1>3, <2>5, <2>7, <3>1, <4>1, <4>2
    <3>2. CASE l.kind # "delta"
      <4>1. told'.usage = told.usage
        BY <1>1, <1>5, <1>8, <3>2
      <4>2. CASE event[i].kind = "delta"
        <5>1. i \in DOMAIN buf /\ buf[i].kind = "delta" /\ event[i] = buf[i]
          BY <2>6, <3>2, <4>2
        <5>2. told'.prompt = told.prompt
          BY <1>1, <1>5, <1>8, <5>1 DEF Other
        <5> QED BY <2>1, <2>5, <2>7, <4>1, <4>2, <5>1, <5>2 DEF EventTold
      <4>3. CASE event[i].kind # "delta"
        BY <2>1, <2>5, <4>1, <4>3
      <4> QED BY <4>2, <4>3
    <3> QED BY <3>1, <3>2
  <2>9. EventTold'
    <3>1. CASE l = Blank
      BY <1>2, <3>1 DEF EventTold
    <3>2. CASE l = Other
      <4>1. told' = told /\ buf' = event
        BY <1>2, <1>5, <3>2 DEF Other, Blank
      <4> QED BY <1>3, <2>1, <3>2, <4>1 DEF EventTold, Other
    <3>3. CASE l # Blank /\ l # Other
      <4>1. buf' = event /\ l.kind \in {"start", "delta"}
        BY <1>1, <1>2, <1>8, <3>3, LineCases
      <4>2. \A j \in DOMAIN buf : buf[j] = Other
        BY <1>5, <4>1
      <4>3. l.kind = "start" => told'.prompt = l.prompt
        BY <1>1, <1>5
      <4>4. l.kind = "delta" => told'.usage = Tokens(told'.prompt, l.completion)
        BY <1>1, <1>5
      <4> QED BY <1>3, <4>1, <4>2, <4>3, <4>4 DEF EventTold, Other
    <3> QED BY <3>1, <3>2, <3>3
  <2> QED BY <1>1, <1>4, <1>6, <1>8, <2>7, <2>8, <2>9
          DEF StreamInv, StreamTypeOK, UsageAsTold
<1> QED BY <1>7, <1>8

-----------------------------------------------------------------------------
(***************************************************************************)
(* Prices.  An answer that was read before the price in force changed, or  *)
(* before the table followed the quote, is out of use in time.             *)
(***************************************************************************)
\* A row set by hand has the price that was set last.
Pinned == /\ row.manual <=> pin # NoPrice
          /\ row.manual => row.price = pin

\* What was read after the last change is the price of the row.
LookFresh ==
    \A r \in Req : look[r].at = "store" /\ calm > look[r].age
                      => look[r].price = row.price
CacheFresh ==
    cache.left > 0 /\ calm > TTL - cache.left + MaxDelay => cache.price = row.price

\* How long the table can be behind the quote.
Wait == Cycle + 2 * MaxSync
Quoted == pin = NoPrice /\ quote # NoPrice
Behind == Quoted /\ row.price # quote

\* A sync that fetched another quote did so before the last change.
FetchStale == sync.at = "upsert" /\ sync.price # quote => settled <= sync.age

CatchesUp ==
    Behind => /\ sync = Asleep => settled + due <= Cycle + MaxSync
              /\ sync.at \in {"fetch", "upsert"} => settled <= Cycle + MaxSync + sync.age
              /\ sync.at = "second" => settled <= sync.age

LookQuoted ==
    Quoted => \A r \in Req : look[r].at = "store" /\ settled > Wait + look[r].age
                                => look[r].price = quote
CacheQuoted ==
    /\ Quoted /\ cache.left > 0 /\ settled > TTL - cache.left + (Wait + MaxDelay)
    => cache.price = quote

PriceInv ==
    /\ PriceTypeOK
    /\ Pinned
    /\ LookFresh /\ CacheFresh
    /\ FetchStale /\ CatchesUp
    /\ LookQuoted /\ CacheQuoted

LEMMA Bounds ==
    /\ TTL \in Nat /\ TTL > 0 /\ MaxDelay \in Nat /\ MaxSync \in Nat /\ Cycle \in Nat
    /\ Calm = TTL + MaxDelay /\ Calm \in Nat
    /\ Wait = Cycle + 2 * MaxSync /\ Wait \in Nat
    /\ Settled = Wait + Calm /\ Settled \in Nat
    /\ NoPrice \notin Price
BY PricingAssumption DEF Calm, Wait, Settled

\* Sums of what is bounded, and a tick that makes one term larger and another
\* one smaller.
LEMMA SumBound ==
    ASSUME NEW x \in Int, NEW y \in Int, NEW m \in Int, NEW n \in Int, x <= m, y <= n
    PROVE  x + y <= n + m
OBVIOUS

LEMMA TickSum ==
    ASSUME NEW x \in Int, NEW y \in Int, NEW u \in Int, NEW v \in Int, NEW n \in Int,
           u <= x + 1, v = y - 1, x + y <= n
    PROVE  u + v <= n
OBVIOUS

LEMMA TickLeft ==
    ASSUME NEW c \in Int, NEW d \in Int, NEW l \in Int, NEW k \in Int,
           NEW n \in Int, NEW m \in Int, d <= c + 1, l = k + 1, d > n - k + m
    PROVE  c > n - l + m
OBVIOUS

\* The cases of the local variables of a sync and of a lookup.
LEMMA SyncCases ==
    ASSUME PriceTypeOK
    PROVE  \/ sync = Asleep /\ sync.at = "asleep"
           \/ /\ sync.at \in {"fetch", "second", "upsert"} /\ sync # Asleep
              /\ sync.age \in 0 .. MaxSync
              /\ sync.at = "upsert" => sync.price \in Price
BY DEF PriceTypeOK, Asleep

LEMMA LookCases ==
    ASSUME PriceTypeOK, NEW r \in Req
    PROVE  \/ look[r] = Idle /\ look[r].at = "idle"
           \/ /\ look[r].at \in {"query", "store"} /\ look[r] # Idle
              /\ look[r].age \in 0 .. MaxDelay
              /\ look[r].at = "store" => look[r].price \in Quote
BY DEF PriceTypeOK, Idle

LEMMA PriceConsequences ==
    ASSUME PriceInv PROVE PriceInForce /\ TwoCycles
<1> USE Bounds
<1>1. ASSUME calm = Calm PROVE Answers \subseteq {InForce}
  <2>1. InForce = row.price
    BY DEF PriceInv, Pinned, InForce
  <2>2. ASSUME NEW r \in Req, look[r].at = "store" PROVE look[r].price = row.price
    <3>1. look[r].age \in 0 .. MaxDelay
      BY <2>2, LookCases DEF PriceInv, Idle
    <3> QED BY <1>1, <2>2, <3>1 DEF PriceInv, LookFresh
  <2>3. cache.left > 0 => cache.price = row.price
    <3>1. cache.left \in 0 .. TTL
      BY DEF PriceInv, PriceTypeOK
    <3> QED BY <1>1, <3>1 DEF PriceInv, CacheFresh
  <2> QED BY <2>1, <2>2, <2>3 DEF Answers
<1>2. ASSUME settled = Settled, Quoted PROVE Answers \subseteq {quote}
  <2>1. ASSUME NEW r \in Req, look[r].at = "store" PROVE look[r].price = quote
    <3>1. look[r].age \in 0 .. MaxDelay
      BY <2>1, LookCases DEF PriceInv, Idle
    <3> QED BY <1>2, <2>1, <3>1 DEF PriceInv, LookQuoted
  <2>2. cache.left > 0 => cache.price = quote
    <3>1. cache.left \in 0 .. TTL
      BY DEF PriceInv, PriceTypeOK
    <3> QED BY <1>2, <3>1 DEF PriceInv, CacheQuoted
  <2> QED BY <2>1, <2>2 DEF Answers
<1> QED BY <1>1, <1>2 DEF PriceInForce, TwoCycles, Quoted

LEMMA PriceInitInv == PriceInit => PriceInv
<1> SUFFICES ASSUME PriceInit PROVE PriceInv
  OBVIOUS
<1> USE Bounds
<1>1. PriceTypeOK
  <2>1. row \in [price : Price, manual : BOOLEAN] \cup {NoRow}
    <3>1. PICK p \in Quote : row = [price |-> p, manual |-> FALSE]
      BY DEF PriceInit
    <3>2. p \in Price \/ p = NoPrice
      BY DEF Quote
    <3> QED BY <3>1, <3>2 DEF NoRow
  <2>2. look \in [Req -> {Idle}]
    BY DEF PriceInit
  <2>3. cache \in [price : Quote, left : 0 .. TTL]
    BY DEF PriceInit, NoEntry, Quote
  <2> QED BY <2>1, <2>2, <2>3, PricingAssumption DEF PriceInit, PriceTypeOK, Quote
<1>2. Pinned /\ FetchStale /\ CatchesUp
  BY <1>1 DEF PriceInit, Pinned, FetchStale, CatchesUp, Asleep
<1>3. LookFresh /\ CacheFresh /\ LookQuoted /\ CacheQuoted
  BY DEF PriceInit, LookFresh, CacheFresh, LookQuoted, CacheQuoted, Idle, NoEntry
<1> QED BY <1>1, <1>2, <1>3 DEF PriceInv

-----------------------------------------------------------------------------
(***************************************************************************)
(* One lemma for each action.                                              *)
(***************************************************************************)
LEMMA RequoteInv ==
    ASSUME PriceInv, NEW q \in Quote, Requote(q)
    PROVE  PriceInv'
<1> USE Bounds DEF PriceInv
<1>1. /\ quote' = q /\ settled' = 0 /\ changes < MaxChanges /\ changes' = changes + 1
      /\ UNCHANGED <<row, pin, sync, due, fresh, cache, look, faults, calm>>
  BY DEF Requote, Change, syncVars, lookVars
<1>2. PriceTypeOK'
  BY <1>1, PricingAssumption DEF PriceTypeOK
<1>3. Pinned' /\ LookFresh' /\ CacheFresh'
  BY <1>1 DEF Pinned, LookFresh, CacheFresh
<1>4. FetchStale' /\ CatchesUp'
  BY <1>1, SyncCases DEF PriceTypeOK, FetchStale, CatchesUp, Asleep
<1>5. LookQuoted' /\ CacheQuoted'
  <2>1. \A r \in Req : look[r].at = "store" => look[r].age \in Nat
    BY LookCases DEF Idle
  <2> QED BY <1>1, <2>1 DEF PriceTypeOK, LookQuoted, CacheQuoted
<1> QED BY <1>2, <1>3, <1>4, <1>5

LEMMA OverrideInv ==
    ASSUME PriceInv, NEW p \in Price, Override(p)
    PROVE  PriceInv'
<1> USE Bounds DEF PriceInv
<1>1. /\ row' = [price |-> p, manual |-> TRUE] /\ pin' = p /\ calm' = 0
      /\ changes < MaxChanges /\ changes' = changes + 1
      /\ UNCHANGED <<quote, sync, due, fresh, cache, look, faults, settled>>
  BY DEF Override, Change, syncVars, lookVars
<1>2. PriceTypeOK'
  BY <1>1, PricingAssumption DEF PriceTypeOK, Quote
<1>3. Pinned' /\ ~Quoted'
  BY <1>1 DEF Pinned, Quoted
<1>4. LookFresh' /\ CacheFresh'
  <2>1. \A r \in Req : look[r].at = "store" => look[r].age \in Nat
    BY LookCases DEF Idle
  <2> QED BY <1>1, <2>1 DEF PriceTypeOK, LookFresh, CacheFresh
<1> QED BY <1>1, <1>2, <1>3, <1>4 DEF FetchStale, CatchesUp, Behind, LookQuoted, CacheQuoted

LEMMA SyncStartsInv ==
    ASSUME PriceInv, SyncStarts
    PROVE  PriceInv'
<1> USE Bounds DEF PriceInv
<1>1. /\ sync = Asleep /\ due = 0 /\ sync' = [at |-> "fetch", age |-> 0]
      /\ due' \in {0, Cycle}
      /\ UNCHANGED <<quote, row, changes, pin, fresh, cache, look, faults, calm, settled>>
  BY DEF SyncStarts, tableVars, lookVars, history
<1>2. PriceTypeOK'
  BY <1>1 DEF PriceTypeOK
<1>3. Pinned' /\ LookFresh' /\ CacheFresh' /\ LookQuoted' /\ CacheQuoted'
  BY <1>1 DEF Pinned, LookFresh, CacheFresh, LookQuoted, CacheQuoted, Quoted
<1>4. FetchStale' /\ CatchesUp'
  <2>1. Behind' <=> Behind
    BY <1>1 DEF Behind, Quoted
  <2>2. sync'.at = "fetch" /\ sync'.age = 0 /\ sync' # Asleep /\ settled' = settled
    BY <1>1 DEF Asleep
  <2>3. Behind => settled <= Cycle + MaxSync
    BY <1>1 DEF CatchesUp, PriceTypeOK
  <2> QED BY <2>1, <2>2, <2>3 DEF FetchStale, CatchesUp, PriceTypeOK
<1> QED BY <1>2, <1>3, <1>4

\* A failure starts the count anew.
LEMMA SyncFetchInv ==
    ASSUME PriceInv, SyncFetch
    PROVE  PriceInv'
<1> USE Bounds DEF PriceInv
<1>1. /\ sync.at = "fetch" /\ sync.age \in 0 .. MaxSync
      /\ UNCHANGED <<quote, row, changes, pin, cache, look, calm>>
  BY SyncCases DEF SyncFetch, tableVars, lookVars
<1>2. CASE Works /\ quote = NoPrice /\ sync' = [at |-> "second", age |-> sync.age]
           /\ UNCHANGED <<due, fresh, settled>>
  <2>1. PriceTypeOK'
    BY <1>1, <1>2 DEF PriceTypeOK, Works
  <2>2. ~Quoted /\ ~Quoted'
    BY <1>1, <1>2 DEF Quoted
  <2> QED BY <1>1, <1>2, <2>1, <2>2
          DEF Pinned, LookFresh, CacheFresh, FetchStale, CatchesUp, Behind, LookQuoted, CacheQuoted
<1>3. CASE Works /\ quote # NoPrice
           /\ sync' = [at |-> "upsert", age |-> sync.age, price |-> quote]
           /\ UNCHANGED <<due, fresh, settled>>
  <2>1. PriceTypeOK'
    BY <1>1, <1>3 DEF PriceTypeOK, Works, Quote
  <2>2. FetchStale' /\ CatchesUp'
    BY <1>1, <1>3 DEF FetchStale, CatchesUp, Behind, Quoted, Asleep
  <2> QED BY <1>1, <1>3, <2>1, <2>2
          DEF Pinned, LookFresh, CacheFresh, LookQuoted, CacheQuoted, Quoted
<1>4. CASE Fails /\ SyncEnds /\ settled' = 0
  <2>1. sync' = Asleep /\ fresh' = FALSE /\ due' \in 0 .. Cycle
    BY <1>4 DEF SyncEnds, PriceTypeOK
  <2>2. PriceTypeOK'
    <3>1. faults' \in 0 .. MaxFaults /\ settled' \in 0 .. Settled
      BY <1>4, PricingAssumption DEF PriceTypeOK, Fails
    <3> QED BY <1>1, <2>1, <3>1 DEF PriceTypeOK
  <2>3. FetchStale' /\ CatchesUp'
    <3>1. settled' \in Int /\ settled' <= MaxSync
      BY <1>4
    <3>2. due' \in Int /\ due' <= Cycle
      BY <2>1
    <3>3. MaxSync \in Int /\ Cycle \in Int
      OBVIOUS
    <3>4. settled' + due' <= Cycle + MaxSync
      BY <3>1, <3>2, <3>3, SumBound, Zenon
    <3>5. sync'.at = "asleep"
      BY <2>1 DEF Asleep
    <3> QED BY <2>1, <3>4, <3>5 DEF FetchStale, CatchesUp
  <2>4. LookQuoted' /\ CacheQuoted'
    <3>1. \A r \in Req : look[r].at = "store" => look[r].age \in Nat
      BY LookCases DEF Idle
    <3> QED BY <1>1, <1>4, <3>1 DEF PriceTypeOK, LookQuoted, CacheQuoted
  <2> QED BY <1>1, <2>2, <2>3, <2>4 DEF Pinned, LookFresh, CacheFresh
<1> QED BY <1>2, <1>3, <1>4 DEF SyncFetch, SyncGoto

\* What was read stays fresh, or the count starts anew.
LEMMA WriteRowFresh ==
    ASSUME PriceInv, NEW p, WriteRow(p, FALSE), UNCHANGED <<cache, look>>
    PROVE  LookFresh' /\ CacheFresh' /\ calm' \in {0, calm} /\ row' = [price |-> p, manual |-> FALSE]
<1> USE Bounds DEF PriceInv
<1>1. row'.price = p /\ row' = [price |-> p, manual |-> FALSE]
  BY DEF WriteRow
<1>2. \A r \in Req : look[r].at = "store" => look[r].age \in Nat
  BY LookCases DEF Idle
<1>3. CASE p = row.price
  BY <1>1, <1>3 DEF WriteRow, LookFresh, CacheFresh
<1>4. CASE p # row.price
  BY <1>1, <1>2, <1>4 DEF WriteRow, LookFresh, CacheFresh, PriceTypeOK
<1> QED BY <1>1, <1>3, <1>4 DEF WriteRow

LEMMA SyncUpsertInv ==
    ASSUME PriceInv, SyncUpsert
    PROVE  PriceInv'
<1> USE Bounds DEF PriceInv
<1>1. /\ sync.at = "upsert" /\ sync.age \in 0 .. MaxSync /\ sync.price \in Price
      /\ sync' = [at |-> "second", age |-> sync.age]
      /\ UNCHANGED <<quote, changes, pin, due, fresh, cache, look>>
  BY SyncCases DEF SyncUpsert, SyncGoto, lookVars
<1>2. /\ settled' \in {settled, 0} /\ settled' \in 0 .. Settled
      /\ faults' \in 0 .. MaxFaults /\ calm' \in 0 .. Calm
      /\ row' \in {row, [price |-> sync.price, manual |-> FALSE]}
      /\ Pinned'
  <2>1. settled' \in {settled, 0} /\ faults' \in 0 .. MaxFaults
    <3>1. faults \in 0 .. MaxFaults /\ MaxFaults \in Nat
      BY PricingAssumption DEF PriceTypeOK
    <3>2. (faults' = faults \/ Fails) /\ (settled' = settled \/ settled' = 0)
      BY DEF SyncUpsert, Works
    <3> QED BY <3>1, <3>2 DEF Fails
  <2>2. calm' \in {0, calm} /\ row' \in {row, [price |-> sync.price, manual |-> FALSE]}
    BY DEF SyncUpsert, WriteRow
  <2>3. Pinned'
    BY <1>1 DEF SyncUpsert, WriteRow, Pinned
  <2> QED BY <2>1, <2>2, <2>3 DEF PriceTypeOK
<1>3. PriceTypeOK'
  <2>1. [price |-> sync.price, manual |-> FALSE] \in [price : Price, manual : BOOLEAN]
    BY <1>1
  <2>2. row' \in [price : Price, manual : BOOLEAN] \cup {NoRow}
    BY <1>2, <2>1 DEF PriceTypeOK
  <2>3. sync' \in [at : {"second"}, age : 0 .. MaxSync]
    BY <1>1
  <2>4. sync' \in [at : {"fetch", "second"}, age : 0 .. MaxSync]
    BY <2>3
  <2> QED BY <1>1, <1>2, <2>2, <2>4 DEF PriceTypeOK
<1>4. LookFresh' /\ CacheFresh'
  <2>1. CASE WriteRow(sync.price, FALSE)
    BY <1>1, <2>1, WriteRowFresh
  <2>2. CASE UNCHANGED <<row, calm>>
    BY <1>1, <2>2 DEF LookFresh, CacheFresh
  <2> QED BY <2>1, <2>2 DEF SyncUpsert
<1>5. FetchStale'
  BY <1>1 DEF FetchStale
<1>6. CatchesUp'
  <2>1. SUFFICES ASSUME Behind' PROVE settled' <= sync.age
    BY <1>1 DEF CatchesUp, Asleep
  <2>2. CASE settled' = 0
    BY <1>1, <2>2
  <2>3. CASE settled' = settled /\ sync.price # quote
    BY <1>1, <2>3 DEF FetchStale
  <2>4. CASE sync.price = quote /\ ~row.manual /\ WriteRow(sync.price, FALSE)
    BY <1>1, <2>1, <2>4 DEF Behind, WriteRow
  <2>5. CASE row.manual
    BY <1>1, <2>1, <2>5 DEF Behind, Quoted, Pinned
  <2> QED BY <2>2, <2>3, <2>4, <2>5 DEF SyncUpsert
<1>7. LookQuoted' /\ CacheQuoted'
  <2>1. \A r \in Req : look[r].at = "store" => look[r].age \in Nat
    BY LookCases DEF Idle
  <2> QED BY <1>1, <1>2, <2>1 DEF PriceTypeOK, LookQuoted, CacheQuoted, Quoted
<1> QED BY <1>2, <1>3, <1>4, <1>5, <1>6, <1>7

LEMMA SyncSecondInv ==
    ASSUME PriceInv, NEW p \in Quote, SyncSecond(p)
    PROVE  PriceInv'
<1> USE Bounds DEF PriceInv
<1>1. /\ sync.at = "second" /\ sync.age \in 0 .. MaxSync
      /\ sync' = Asleep /\ fresh' = FALSE /\ due' \in 0 .. Cycle
      /\ UNCHANGED <<quote, changes, pin, cache, look, faults, settled>>
  BY SyncCases DEF SyncSecond, SyncEnds, lookVars, PriceTypeOK
<1>2. \/ row = NoRow /\ p \in Price /\ WriteRow(p, FALSE)
      \/ UNCHANGED <<row, calm>>
  BY DEF SyncSecond, Quote
<1>3. /\ LookFresh' /\ CacheFresh' /\ Pinned'
      /\ row' \in [price : Price, manual : BOOLEAN] \cup {NoRow} /\ calm' \in 0 .. Calm
  <2>1. CASE row = NoRow /\ p \in Price /\ WriteRow(p, FALSE)
    <3>1. /\ LookFresh' /\ CacheFresh' /\ calm' \in {0, calm}
          /\ row' = [price |-> p, manual |-> FALSE]
      BY <1>1, <2>1, WriteRowFresh
    <3>2. row.manual = FALSE /\ row'.manual = FALSE
      BY <2>1, <3>1 DEF NoRow
    <3>3. Pinned'
      BY <1>1, <3>2 DEF Pinned
    <3>4. row' \in [price : Price, manual : BOOLEAN]
      BY <2>1, <3>1
    <3>5. calm' \in 0 .. Calm
      BY <3>1 DEF PriceTypeOK
    <3> QED BY <3>1, <3>3, <3>4, <3>5
  <2>2. CASE UNCHANGED <<row, calm>>
    BY <1>1, <2>2 DEF LookFresh, CacheFresh, Pinned, PriceTypeOK
  <2> QED BY <1>2, <2>1, <2>2
<1>4. PriceTypeOK'
  BY <1>1, <1>3 DEF PriceTypeOK
<1>5. FetchStale' /\ CatchesUp'
  <2>1. SUFFICES ASSUME Behind' PROVE settled' + due' <= Cycle + MaxSync
    BY <1>1 DEF FetchStale, CatchesUp, Asleep
  <2>2. Quoted /\ quote # NoPrice
    BY <1>1, <2>1 DEF Behind, Quoted
  <2>3. Behind
    <3>1. CASE row = NoRow
      BY <2>2, <3>1 DEF Behind, NoRow
    <3>2. CASE row' = row
      BY <1>1, <2>1, <2>2, <3>2 DEF Behind
    <3> QED BY <1>2, <3>1, <3>2
  <2>4. settled <= sync.age
    BY <1>1, <2>3 DEF CatchesUp
  <2>5. settled \in Nat
    BY DEF PriceTypeOK
  <2>6. settled' = settled /\ sync.age \in 0 .. MaxSync /\ due' \in 0 .. Cycle
    BY <1>1
  <2>7. settled' \in Int /\ settled' <= MaxSync
    BY <2>4, <2>5, <2>6
  <2>8. due' \in Int /\ due' <= Cycle
    BY <2>6
  <2>9. MaxSync \in Int /\ Cycle \in Int
    OBVIOUS
  <2> QED BY <2>7, <2>8, <2>9, SumBound, Zenon
<1>6. LookQuoted' /\ CacheQuoted'
  BY <1>1 DEF LookQuoted, CacheQuoted, Quoted
<1> QED BY <1>3, <1>4, <1>5, <1>6

LEMMA RestartApiInv ==
    ASSUME PriceInv, RestartApi
    PROVE  PriceInv'
<1> USE Bounds DEF PriceInv
<1>1. /\ sync' = Asleep /\ due' = 0 /\ fresh' = TRUE /\ settled' = 0
      /\ faults' \in 0 .. MaxFaults
      /\ UNCHANGED <<quote, row, changes, pin, cache, look, calm>>
  BY PricingAssumption DEF RestartApi, Fails, tableVars, lookVars, PriceTypeOK
<1>2. PriceTypeOK'
  BY <1>1 DEF PriceTypeOK
<1>3. Pinned' /\ LookFresh' /\ CacheFresh' /\ FetchStale' /\ CatchesUp'
  BY <1>1 DEF Pinned, LookFresh, CacheFresh, FetchStale, CatchesUp, Asleep
<1>4. LookQuoted' /\ CacheQuoted'
  <2>1. \A r \in Req : look[r].at = "store" => look[r].age \in Nat
    BY LookCases DEF Idle
  <2> QED BY <1>1, <2>1 DEF PriceTypeOK, LookQuoted, CacheQuoted
<1> QED BY <1>2, <1>3, <1>4

LEMMA LookupInv ==
    ASSUME PriceInv, NEW r \in Req, Lookup(r)
    PROVE  PriceInv'
<1> USE Bounds DEF PriceInv
<1>1. /\ look' = look \/ look' = [look EXCEPT ![r] = [at |-> "query", age |-> 0]]
      /\ UNCHANGED <<quote, row, changes, pin, sync, due, fresh, cache, faults, calm, settled>>
  BY DEF Lookup, Goto, tableVars, syncVars, history
<1>2. PriceTypeOK'
  BY <1>1 DEF PriceTypeOK
<1>3. Pinned' /\ CacheFresh' /\ FetchStale' /\ CatchesUp' /\ CacheQuoted'
  BY <1>1 DEF Pinned, CacheFresh, FetchStale, CatchesUp, Behind, Quoted, CacheQuoted
<1>4. LookFresh' /\ LookQuoted'
  BY <1>1 DEF LookFresh, LookQuoted, Quoted, PriceTypeOK
<1> QED BY <1>2, <1>3, <1>4

LEMMA QueryInv ==
    ASSUME PriceInv, NEW r \in Req, Query(r)
    PROVE  PriceInv'
<1> USE Bounds DEF PriceInv
<1>1. /\ look[r].age \in 0 .. MaxDelay
      /\ UNCHANGED <<quote, row, changes, pin, sync, due, fresh, cache>>
  BY LookCases DEF Query, Idle, tableVars, syncVars
<1>2. PICK q \in Quote :
         /\ look' = [look EXCEPT ![r] = [at |-> "store", age |-> look[r].age, price |-> q]]
         /\ \/ q = row.price /\ UNCHANGED <<calm, settled, faults>>
            \/ calm' = 0 /\ settled' = 0 /\ faults' \in 0 .. MaxFaults
  <2>1. row.price \in Quote /\ NoPrice \in Quote
    BY DEF PriceTypeOK, NoRow, Quote
  <2>2. Fails => faults' \in 0 .. MaxFaults
    BY PricingAssumption DEF Fails, PriceTypeOK
  <2> QED BY <2>1, <2>2 DEF Query, Goto, Works, history
<1>3. PriceTypeOK'
  <2>1. [at |-> "store", age |-> look[r].age, price |-> q] \in
           [at : {"store"}, age : 0 .. MaxDelay, price : Quote]
    BY <1>1
  <2> QED BY <1>1, <1>2, <2>1 DEF PriceTypeOK
<1>4. \A s \in Req : look[s].at = "store" => look[s].age \in Nat
  BY LookCases DEF Idle
<1>5. \A s \in Req : s # r => look'[s] = look[s]
  BY <1>2 DEF PriceTypeOK
<1>6. look'[r].price = q /\ look'[r].age = look[r].age /\ look'[r].at = "store"
  BY <1>2 DEF PriceTypeOK
<1>7. Pinned' /\ CacheFresh' /\ FetchStale' /\ CatchesUp' /\ CacheQuoted'
  <2>1. Pinned'
    BY <1>1 DEF Pinned
  <2>2. CASE UNCHANGED <<calm, settled>>
    BY <1>1, <2>1, <2>2 DEF CacheFresh, FetchStale, CatchesUp, Behind, Quoted, CacheQuoted
  <2>3. CASE calm' = 0 /\ settled' = 0
    <3>1. CacheFresh' /\ CacheQuoted'
      BY <1>1, <2>3 DEF PriceTypeOK, CacheFresh, CacheQuoted
    <3>2. FetchStale' /\ CatchesUp'
      BY <1>1, <2>3, SyncCases DEF PriceTypeOK, FetchStale, CatchesUp, Asleep
    <3> QED BY <2>1, <3>1, <3>2
  <2> QED BY <1>2, <2>2, <2>3
<1>8. LookFresh'
  BY <1>1, <1>2, <1>4, <1>5, <1>6 DEF LookFresh
<1>9. LookQuoted'
  <2>1. row.price # quote /\ Quoted => settled <= Wait
    BY SyncCases DEF CatchesUp, Behind, PriceTypeOK, Asleep
  <2>2. CASE q = row.price /\ UNCHANGED settled
    <3>1. Quoted' <=> Quoted
      BY <1>1 DEF Quoted
    <3> QED BY <1>1, <1>4, <1>5, <1>6, <2>1, <2>2, <3>1 DEF LookQuoted, PriceTypeOK
  <2>3. CASE settled' = 0
    BY <1>1, <1>4, <1>5, <1>6, <2>3 DEF LookQuoted
  <2> QED BY <1>2, <2>2, <2>3
<1> QED BY <1>3, <1>7, <1>8, <1>9

LEMMA StoreInv ==
    ASSUME PriceInv, NEW r \in Req, Store(r)
    PROVE  PriceInv'
<1> USE Bounds DEF PriceInv
<1>1. /\ look[r].at = "store" /\ look[r].age \in 0 .. MaxDelay /\ look[r].price \in Quote
      /\ cache' = [price |-> look[r].price, left |-> TTL]
      /\ look' = [look EXCEPT ![r] = Idle]
      /\ UNCHANGED <<quote, row, changes, pin, sync, due, fresh, faults, calm, settled>>
  BY LookCases DEF Store, Goto, Idle, tableVars, syncVars, history
<1>2. PriceTypeOK'
  <2>1. cache' \in [price : Quote, left : 0 .. TTL]
    BY <1>1
  <2> QED BY <1>1, <2>1 DEF PriceTypeOK
<1>3. Pinned' /\ FetchStale' /\ CatchesUp'
  BY <1>1 DEF Pinned, FetchStale, CatchesUp, Behind, Quoted
<1>4. \A s \in Req : look'[s].at = "store" => look'[s] = look[s]
  BY <1>1 DEF PriceTypeOK, Idle
<1>5. LookFresh' /\ LookQuoted'
  BY <1>1, <1>4 DEF LookFresh, LookQuoted, Quoted
<1>6. cache'.left = TTL /\ cache'.price = look[r].price
  BY <1>1
<1>7. CacheFresh'
  <2>1. calm > MaxDelay => look[r].price = row.price
    BY <1>1 DEF LookFresh, PriceTypeOK
  <2> QED BY <1>1, <1>6, <2>1 DEF CacheFresh
<1>8. CacheQuoted'
  <2>1. Quoted /\ settled > Wait + MaxDelay => look[r].price = quote
    BY <1>1 DEF LookQuoted, PriceTypeOK
  <2>2. Quoted' <=> Quoted
    BY <1>1 DEF Quoted
  <2> QED BY <1>1, <1>6, <2>1, <2>2 DEF CacheQuoted
<1> QED BY <1>2, <1>3, <1>5, <1>7, <1>8

\* Nothing ages slower than the counts.
LEMMA TickInv ==
    ASSUME PriceInv, Tick
    PROVE  PriceInv'
<1> USE Bounds DEF PriceInv
<1>1. UNCHANGED <<quote, row, changes, pin, fresh, faults>>
  BY DEF Tick, tableVars
<1>2. /\ calm \in 0 .. Calm /\ calm' \in 0 .. Calm /\ calm' <= calm + 1
      /\ settled \in 0 .. Settled /\ settled' \in 0 .. Settled /\ settled' <= settled + 1
  BY DEF Tick, UpTo, PriceTypeOK
<1>3. /\ due' \in 0 .. Cycle /\ due \in 0 .. Cycle
      /\ sync = Asleep => sync' = Asleep /\ due' = due - 1
  BY DEF Tick, Down, PriceTypeOK
<1>4. /\ cache' = [cache EXCEPT !.left = Down(@)]
      /\ cache'.price = cache.price /\ cache'.left = Down(cache.left)
      /\ cache.left \in 0 .. TTL /\ cache.price \in Quote
  BY DEF Tick, PriceTypeOK
<1>5. cache'.left > 0 => cache.left = cache'.left + 1
  BY <1>4 DEF Down
<1>6. ASSUME sync # Asleep
      PROVE  /\ sync' = [sync EXCEPT !.age = @ + 1]
             /\ sync.age \in Nat /\ sync.age < MaxSync
             /\ sync'.age = sync.age + 1 /\ sync'.at = sync.at /\ sync' # Asleep
             /\ sync.at = "upsert" => sync'.price = sync.price
  <2>2. sync.age < MaxSync /\ sync' = [sync EXCEPT !.age = @ + 1]
    BY <1>6 DEF Tick
  <2>3. CASE sync \in [at : {"fetch", "second"}, age : 0 .. MaxSync]
    BY <2>2, <2>3 DEF Asleep
  <2>4. CASE sync \in [at : {"upsert"}, age : 0 .. MaxSync, price : Price]
    BY <2>2, <2>4 DEF Asleep
  <2> QED BY <1>6, <2>3, <2>4 DEF PriceTypeOK
<1>7. ASSUME NEW r \in Req, look[r] # Idle
      PROVE  /\ look'[r] = [look[r] EXCEPT !.age = @ + 1]
             /\ look[r].age \in Nat /\ look[r].age < MaxDelay
             /\ look'[r].age = look[r].age + 1 /\ look'[r].at = look[r].at
             /\ look[r].at = "store" => look'[r].price = look[r].price
             /\ look'[r] \in [at : {"query"}, age : 0 .. MaxDelay]
                   \cup [at : {"store"}, age : 0 .. MaxDelay, price : Quote]
  <2>1. look[r].age < MaxDelay /\ look'[r] = [look[r] EXCEPT !.age = @ + 1]
    BY <1>7 DEF Tick
  <2>2. CASE look[r] \in [at : {"query"}, age : 0 .. MaxDelay]
    BY <2>1, <2>2
  <2>3. CASE look[r] \in [at : {"store"}, age : 0 .. MaxDelay, price : Quote]
    BY <2>1, <2>3
  <2> QED BY <1>7, <2>2, <2>3 DEF PriceTypeOK
<1>8. \A r \in Req : look[r] = Idle => look'[r] = Idle
  BY DEF Tick
<1>9. PriceTypeOK'
  <2>1. sync' \in {Asleep} \cup [at : {"fetch", "second"}, age : 0 .. MaxSync]
                  \cup [at : {"upsert"}, age : 0 .. MaxSync, price : Price]
    <3>1. CASE sync \in [at : {"fetch", "second"}, age : 0 .. MaxSync]
      BY <1>6, <3>1 DEF Asleep
    <3>2. CASE sync \in [at : {"upsert"}, age : 0 .. MaxSync, price : Price]
      BY <1>6, <3>2 DEF Asleep
    <3> QED BY <1>3, <3>1, <3>2 DEF PriceTypeOK
  <2>2. cache' \in [price : Quote, left : 0 .. TTL]
    <3>1. Down(cache.left) \in 0 .. TTL
      BY <1>4 DEF Down
    <3> QED BY <1>4, <3>1 DEF PriceTypeOK
  <2>3. look' \in [Req -> {Idle} \cup [at : {"query"}, age : 0 .. MaxDelay]
                        \cup [at : {"store"}, age : 0 .. MaxDelay, price : Quote]]
    <3>1. look' = [r \in Req |-> look'[r]]
      BY DEF Tick
    <3> QED BY <1>7, <1>8, <3>1
  <2> QED BY <1>1, <1>2, <1>3, <2>1, <2>2, <2>3 DEF PriceTypeOK
<1>10. Pinned' /\ (Quoted' <=> Quoted) /\ (Behind' <=> Behind)
  BY <1>1 DEF Pinned, Quoted, Behind
<1>11. \A r \in Req : look'[r].at = "store" =>
          /\ look[r].at = "store" /\ look'[r].price = look[r].price
          /\ look[r].age \in Nat /\ look'[r].age = look[r].age + 1
  <2> SUFFICES ASSUME NEW r \in Req, look'[r].at = "store"
               PROVE  /\ look[r].at = "store" /\ look'[r].price = look[r].price
                      /\ look[r].age \in Nat /\ look'[r].age = look[r].age + 1
    OBVIOUS
  <2>1. look[r] # Idle
    BY <1>8 DEF Idle
  <2> QED BY <1>7, <2>1
<1>12. LookFresh' /\ LookQuoted'
  <2>1. LookFresh'
    BY <1>1, <1>2, <1>11 DEF LookFresh
  <2>2. LookQuoted'
    BY <1>1, <1>2, <1>10, <1>11 DEF LookQuoted
  <2> QED BY <2>1, <2>2
<1>13. CacheFresh' /\ CacheQuoted'
  <2>1. CacheFresh'
    <3>1. SUFFICES ASSUME cache'.left > 0, calm' > TTL - cache'.left + MaxDelay
                   PROVE  cache'.price = row'.price
      BY DEF CacheFresh
    <3>2. cache.left > 0 /\ calm > TTL - cache.left + MaxDelay
      <4>1. /\ calm \in Int /\ calm' \in Int /\ cache.left \in Int /\ cache'.left \in Int
            /\ cache.left = cache'.left + 1
        BY <1>2, <1>4, <1>5, <3>1 DEF Down
      <4>2. TTL \in Int /\ MaxDelay \in Int /\ cache.left > 0
        BY <3>1, <4>1
      <4> QED BY <1>2, <3>1, <4>1, <4>2, TickLeft, Zenon
    <3> QED BY <1>1, <1>4, <3>2 DEF CacheFresh
  <2>2. CacheQuoted'
    <3>1. SUFFICES ASSUME Quoted', cache'.left > 0,
                          settled' > TTL - cache'.left + (Wait + MaxDelay)
                   PROVE  cache'.price = quote'
      BY DEF CacheQuoted
    <3>2. cache.left > 0 /\ settled > TTL - cache.left + (Wait + MaxDelay)
      <4>1. /\ settled \in Int /\ settled' \in Int /\ cache.left \in Int /\ cache'.left \in Int
            /\ cache.left = cache'.left + 1
        BY <1>2, <1>4, <1>5, <3>1 DEF Down
      <4>2. TTL \in Int /\ Wait + MaxDelay \in Int /\ cache.left > 0
        BY <3>1, <4>1
      <4> QED BY <1>2, <3>1, <4>1, <4>2, TickLeft, Zenon
    <3> QED BY <1>1, <1>4, <1>10, <3>1, <3>2 DEF CacheQuoted
  <2> QED BY <2>1, <2>2
<1>14. FetchStale'
  BY <1>1, <1>2, <1>3, <1>6 DEF FetchStale, Asleep
<1>15. CatchesUp'
  <2>1. CASE sync = Asleep
    <3>1. SUFFICES ASSUME Behind' PROVE settled' + due' <= Cycle + MaxSync
      BY <1>3, <2>1 DEF CatchesUp, Asleep
    <3>2. settled + due <= Cycle + MaxSync
      BY <1>10, <2>1, <3>1 DEF CatchesUp
    <3>3. settled \in Int /\ due \in Int /\ settled' \in Int /\ due' \in Int
      BY <1>2, <1>3
    <3>4. Cycle + MaxSync \in Int
      OBVIOUS
    <3> QED BY <1>2, <1>3, <2>1, <3>2, <3>3, <3>4, TickSum
  <2>2. CASE sync # Asleep
    BY <1>2, <1>6, <1>10, <2>2 DEF CatchesUp
  <2> QED BY <2>1, <2>2
<1> QED BY <1>9, <1>10, <1>12, <1>13, <1>14, <1>15

LEMMA PriceStutterInv ==
    ASSUME PriceInv, UNCHANGED priceVars
    PROVE  PriceInv'
BY DEF PriceInv, PriceTypeOK, Pinned, LookFresh, CacheFresh, FetchStale, CatchesUp, Behind,
       Quoted, LookQuoted, CacheQuoted, priceVars, tableVars, syncVars, lookVars, history

LEMMA PriceNextInv ==
    ASSUME PriceInv, PriceNext
    PROVE  PriceInv'
BY RequoteInv, OverrideInv, SyncStartsInv, SyncFetchInv, SyncUpsertInv, SyncSecondInv,
   RestartApiInv, QueryInv, StoreInv, TickInv DEF PriceNext, Sync

-----------------------------------------------------------------------------
(***************************************************************************)
(* The composition.                                                        *)
(***************************************************************************)
Inv == StreamInv /\ PriceInv

LEMMA InitInv == Init => Inv
BY StreamInitInv, PriceInitInv DEF Init, Inv

LEMMA StreamStutterInv ==
    ASSUME StreamInv, UNCHANGED streamVars
    PROVE  StreamInv'
<1> USE DEF streamVars
<1>1. StreamTypeOK'
  BY DEF StreamInv, StreamTypeOK, Line, DataLine
<1>2. UsageAsTold' /\ (EventTold => EventTold') /\ (Unread => Unread')
  BY DEF StreamInv, UsageAsTold, EventTold, Unread
<1> QED BY <1>1, <1>2 DEF StreamInv

LEMMA NextInv ==
    ASSUME Inv, [Next]_vars
    PROVE  Inv'
<1> USE DEF Inv
<1>1. CASE Stream /\ UNCHANGED priceVars
  <2>1. PriceInv'
    BY <1>1, PriceStutterInv
  <2>2. CASE \E v \in Provider : Open(v)
    BY <2>1, <2>2, OpenInv
  <2>3. CASE \E l \in Line(provider) : ReadLine(l)
    BY <2>1, <2>3, ReadInv
  <2> QED BY <1>1, <2>2, <2>3 DEF Stream, Provider
<1>2. CASE Settle
  <2>1. StreamInv'
    BY <1>2, StopInv DEF Settle
  <2>2. PriceInv'
    BY <1>2, LookupInv, PriceStutterInv DEF Settle
  <2> QED BY <2>1, <2>2
<1>3. CASE PriceNext /\ UNCHANGED streamVars
  BY <1>3, PriceNextInv, StreamStutterInv
<1>4. CASE UNCHANGED vars
  BY <1>4, PriceStutterInv, StreamStutterInv DEF vars
<1> QED BY <1>1, <1>2, <1>3, <1>4 DEF Next

THEOREM Invariant == Spec => []Inv
<1>1. Init => Inv
  BY InitInv
<1>2. Inv /\ [Next]_vars => Inv'
  BY NextInv
<1> QED BY <1>1, <1>2, PTL DEF Spec

\* Type correctness, of the streams and of the prices.
THEOREM TypeCorrect == Spec => []TypeOK
<1>1. Inv => TypeOK
  BY DEF Inv, StreamInv, PriceInv, TypeOK
<1> QED BY <1>1, Invariant, PTL

\* Whenever a stream stops, the usage that is charged is what its lines said,
\* for events of any length (proxy/forward.go:118-140).
THEOREM AsTold == Spec => []UsageAsTold
<1>1. Inv => UsageAsTold
  BY DEF Inv, StreamInv
<1> QED BY <1>1, Invariant, PTL

\* No lookup answers with a price that is out of force for longer than the cache
\* lives and a lookup lasts (proxy/handler.go:149-176).
THEOREM PriceBound == Spec => []PriceInForce
<1>1. Inv => PriceInForce
  BY PriceConsequences DEF Inv
<1> QED BY <1>1, Invariant, PTL

\* A new quote is charged after two cycles and the durations of the syncs and of
\* a lookup (proxy/handler.go:153-155, jobs/pricingsync.go:74-106).
THEOREM StalenessBound == Spec => []TwoCycles
<1>1. Inv => TwoCycles
  BY PriceConsequences DEF Inv
<1> QED BY <1>1, Invariant, PTL
=============================================================================
