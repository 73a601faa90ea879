----------------------------- MODULE TokenStream -----------------------------
(***************************************************************************)
(* How the proxy reads the token counts of a response while it forwards    *)
(* it: Forward and streamSSE (proxy/forward.go) with the parsers of        *)
(* internal/tokens.  A stream is any sequence of lines a provider sends; a *)
(* line is what the parsers tell apart.  Streams share no state, so one    *)
(* at a time is modelled.                                                  *)
(***************************************************************************)
EXTENDS Integers, Sequences, FiniteSetsExt

CONSTANTS
    Count,    \* token counts a provider reports
    MaxLines  \* bound: lines of one event before its blank line

ASSUME StreamAssumption == Count \subseteq Nat /\ MaxLines \in Nat \ {0}

VARIABLES
    provider,  \* of the response
    at,        \* "closed" or "open": the stream
    buf,       \* eventBuf: the lines since the last blank one
    input,     \* *anthropicInput
    usage,     \* lastUsage
    told       \* history: what the lines so far say, were they read one by one

streamVars == <<provider, at, buf, input, usage, told>>

Provider == {"openai", "anthropic", "google"}

\* tokens.Usage.
Usage == [prompt : Nat, completion : Nat]
NoUsage == [prompt |-> 0]
Tokens(p, c) == [prompt |-> p, completion |-> c]

(***************************************************************************)
(* Lines.  "other" carries no counts: event names, comments, content,      *)
(* [DONE].  A line with counts is a "chunk" of OpenAI or Google, or a      *)
(* message_start or message_delta of Anthropic, and begins with "data: ".  *)
(* A "bare" chunk lacks that field name, as in the tests of the parser of  *)
(* Google.                                                                 *)
(***************************************************************************)
Blank == [kind |-> "blank"]
Other == [kind |-> "other"]
Chunk(kind) == [kind : {kind}, prompt : Count, completion : Count]
MessageStart == [kind : {"start"}, prompt : Count]
MessageDelta == [kind : {"delta"}, completion : Count]
DataLine(v) == CASE v = "openai" -> Chunk("chunk")
                 [] v = "google" -> Chunk("chunk") \cup Chunk("bare")
                 [] v = "anthropic" -> MessageStart \cup MessageDelta
Line(v) == {Blank, Other} \cup DataLine(v)

StreamTypeOK ==
    /\ provider \in Provider
    /\ at \in {"closed", "open"}
    /\ buf \in Seq(Line(provider) \ {Blank}) /\ Len(buf) <= MaxLines
    /\ input \in Count \cup {0}
    /\ usage \in Usage \cup {NoUsage}
    /\ told \in [prompt : Nat, usage : Usage \cup {NoUsage}]

StreamInit ==
    /\ provider = "openai"
    /\ at = "closed"
    /\ buf = <<>> /\ input = 0 /\ usage = NoUsage
    /\ told = [prompt |-> 0, usage |-> NoUsage]

-----------------------------------------------------------------------------
(***************************************************************************)
(* The parsers.  Those of Anthropic are given the event so far and return  *)
(* the first match in it; the others are given a line.                     *)
(***************************************************************************)
Matches(b, kind) == {i \in DOMAIN b : b[i].kind = kind}

ParseAnthropicMessageStart(b) ==
    LET found == Matches(b, "start") IN IF found = {} THEN 0 ELSE b[Min(found)].prompt

ParseAnthropicEvent(b, n) ==
    LET found == Matches(b, "delta") IN
    IF found = {} THEN NoUsage ELSE Tokens(n, b[Min(found)].completion)

ParseOpenAIChunk(l) ==
    IF l.kind = "chunk" THEN Tokens(l.prompt, l.completion) ELSE NoUsage

\* The field name is not cut off, so a chunk behind one is not JSON.
ParseGoogleChunk(l) ==
    IF l.kind = "bare" THEN Tokens(l.prompt, l.completion) ELSE NoUsage

-----------------------------------------------------------------------------
\* The response is a stream.  (Anything else is copied, and has no usage.)
Open(v) ==
    /\ at = "closed"
    /\ at' = "open"
    /\ provider' = v
    /\ UNCHANGED <<buf, input, usage, told>>

\* What a line says by itself.
Tell(l) ==
    told' = CASE l.kind = "start" -> [told EXCEPT !.prompt = l.prompt]
              [] l.kind = "delta" -> [told EXCEPT !.usage = Tokens(told.prompt, l.completion)]
              [] l.kind \in {"chunk", "bare"} ->
                    [told EXCEPT !.usage = Tokens(l.prompt, l.completion)]
              [] OTHER -> told

\* An event has one line of data, and a message starts once, before its deltas.
Sendable(l) ==
    /\ l # Blank => Len(buf) < MaxLines
    /\ l \in DataLine(provider) => \A i \in DOMAIN buf : buf[i] = Other
    /\ l.kind = "start" => told = [prompt |-> 0, usage |-> NoUsage]

\* The switch over the provider: what is parsed replaces the usage so far.
LastUsage(event, l, n) ==
    LET u == CASE provider = "openai" -> ParseOpenAIChunk(l)
               [] provider = "anthropic" -> ParseAnthropicEvent(event, n)
               [] provider = "google" -> ParseGoogleChunk(l)
    IN IF u # NoUsage THEN u ELSE usage

\* Deviations used by PROJECT.json only: the input tokens are forgotten with the
\* event that told them; the buffer is never reset.
ReadLineForgetting(l) ==
    LET event == Append(buf, l)
        n == ParseAnthropicMessageStart(event) IN
    /\ at = "open"
    /\ l \in Line(provider) /\ Sendable(l)
    /\ input' = IF provider = "anthropic" THEN n ELSE input
    /\ usage' = LastUsage(event, l, input')
    /\ buf' = IF l = Blank THEN <<>> ELSE event
    /\ Tell(l)
    /\ UNCHANGED <<provider, at>>

ReadLineNoReset(l) ==
    LET event == Append(buf, l)
        n == ParseAnthropicMessageStart(event) IN
    /\ at = "open"
    /\ l \in Line(provider) /\ Sendable(l)
    /\ input' = IF provider = "anthropic" /\ n > 0 THEN n ELSE input
    /\ usage' = LastUsage(event, l, input')
    /\ buf' = event
    /\ Tell(l)
    /\ UNCHANGED <<provider, at>>

\* One round of the loop of streamSSE.
ReadLine(l) ==
    LET event == Append(buf, l)
        n == ParseAnthropicMessageStart(event) IN
    /\ at = "open"
    /\ l \in Line(provider) /\ Sendable(l)
    /\ input' = IF provider = "anthropic" /\ n > 0 THEN n ELSE input
    /\ usage' = LastUsage(event, l, input')
    /\ buf' = IF l = Blank THEN <<>> ELSE event
    /\ Tell(l)
    /\ UNCHANGED <<provider, at>>

\* The scanner stops: end of the stream, a broken connection, a client that
\* left, or a line of more than 64 KiB.  streamSSE returns usage.
StopScan ==
    /\ at = "open"
    /\ at' = "closed"
    /\ provider' = "openai"
    /\ buf' = <<>> /\ input' = 0 /\ usage' = NoUsage
    /\ told' = [prompt |-> 0, usage |-> NoUsage]

Stream == Open("openai") \/ Open("anthropic") \/ Open("google")
          \/ \E l \in Line(provider) : ReadLine(l)

-----------------------------------------------------------------------------
(***************************************************************************)
(* Properties.                                                             *)
(***************************************************************************)
\* Whenever the stream stops, the usage is what its lines said last, though
\* the parsers of Anthropic see the prompt and the completion in different
\* events, and every line several times (proxy/forward.go:118-140).  Chunks of
\* Google count only without a field name (internal/tokens/google.go:17-20).
UsageAsTold == provider # "google" => usage = told.usage
=============================================================================
