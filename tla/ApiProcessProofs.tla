--------------------------- MODULE ApiProcessProofs ---------------------------
(***************************************************************************)
(* Theorems about ApiProcess: the limiter of addresses keeps its rate, and *)
(* the partitions are made in time, for any number of addresses, requests  *)
(* and restarts and for any calendar.                                      *)
(***************************************************************************)
EXTENDS ApiProcess, SequenceTheorems, TLAPS

-----------------------------------------------------------------------------
(***************************************************************************)
(* Arithmetic of the limiter.                                              *)
(***************************************************************************)
LEMMA RateBounds ==
    /\ Refill \in Nat /\ Refill > 0 /\ Burst \in Nat
    /\ Full \in Nat /\ Cleanup \in Nat /\ Cleanup > 0 /\ MaxStall \in Nat
    /\ 2 * Cleanup \in Nat /\ Full + MaxStall <= 2 * Cleanup
    /\ NoIp \notin Ip /\ NoLim \notin Lim
<1>1. \A a, b \in Nat : a * b \in Nat
  OBVIOUS
<1> QED BY <1>1, RateAssumption DEF Full

LEMMA TakeToken ==
    ASSUME NEW full \in Nat, NEW n \in Nat, NEW d \in Nat, NEW l \in Nat, l = full - d, l >= n
    PROVE  /\ l - n = full - (d + n) /\ l - n \in 0 .. full
           /\ d + n \in Nat /\ d + n <= full
OBVIOUS

LEMMA TickToken ==
    ASSUME NEW full \in Nat, NEW d \in Nat, NEW l \in Nat, l = full - d
    PROVE  /\ UpTo(l, full) = full - Less(d, 1) /\ UpTo(l, full) \in 0 .. full
           /\ Less(d, 1) \in Nat
BY DEF UpTo, Less

LEMMA TickAge ==
    ASSUME NEW d \in Nat, NEW n \in Nat, NEW c \in Nat, n < c,
           NEW a \in 0 .. c, d = 0 \/ d + a <= n
    PROVE  /\ Less(d, 1) = 0 \/ Less(d, 1) + UpTo(a, c) <= n
           /\ UpTo(a, c) \in 0 .. c /\ UpTo(a, c) <= a + 1
BY DEF UpTo, Less

-----------------------------------------------------------------------------
(***************************************************************************)
(* What an address owes is what its limiter lacks; an address without an   *)
(* entry owes nothing, since an entry is thrown away only when it is full. *)
(***************************************************************************)
Owes(ip) ==
    IF visitors[ip] = NoEntry THEN debt[ip] = 0
    ELSE /\ level[visitors[ip].lim] = Full - debt[ip]
         /\ debt[ip] = 0 \/ debt[ip] + visitors[ip].age <= Full + MaxStall

OwnLimiter ==
    \A ip, jp \in Ip : visitors[ip] # NoEntry /\ visitors[jp] # NoEntry
                          /\ visitors[ip].lim = visitors[jp].lim => ip = jp

\* A request in progress keeps the entry of its address.
Seen(r) ==
    call[r] # Idle =>
        LET e == visitors[call[r].ip] IN
        e # NoEntry /\ e.lim = call[r].lim /\ e.age <= call[r].age

RateInv ==
    /\ RateTypeOK
    /\ \A ip \in Ip : Owes(ip)
    /\ OwnLimiter
    /\ \A r \in Req : Seen(r)

LEMMA EntryCases ==
    ASSUME RateTypeOK, NEW ip \in Ip
    PROVE  \/ visitors[ip] = NoEntry
           \/ /\ visitors[ip] # NoEntry
              /\ visitors[ip] \in [lim : Lim, age : 0 .. 2 * Cleanup + 1]
              /\ visitors[ip].lim \in Lim
              /\ visitors[ip].age \in 0 .. 2 * Cleanup + 1
BY RateBounds DEF RateTypeOK, NoEntry

LEMMA CallCases ==
    ASSUME RateTypeOK, NEW r \in Req, call[r] # Idle
    PROVE  /\ call[r] \in [ip : Ip, lim : Lim, age : 0 .. MaxStall]
           /\ call[r].ip \in Ip /\ call[r].lim \in Lim /\ call[r].age \in 0 .. MaxStall
BY DEF RateTypeOK

LEMMA RateConsequences ==
    ASSUME RateInv PROVE RateHolds /\ RefusedAtLimitOnly
<1> USE RateBounds DEF RateInv
<1>1. ASSUME NEW ip \in Ip PROVE debt[ip] <= Full
  <2>1. CASE visitors[ip] = NoEntry
    BY <2>1 DEF Owes
  <2>2. CASE visitors[ip] # NoEntry
    <3>1. level[visitors[ip].lim] \in 0 .. Full /\ debt[ip] \in Nat
      BY <2>2, EntryCases DEF RateTypeOK
    <3>2. level[visitors[ip].lim] = Full - debt[ip]
      BY <2>2 DEF Owes
    <3> QED BY <3>1, <3>2
  <2> QED BY <2>1, <2>2
<1>2. ASSUME NEW r \in Req, call[r] # Idle, level[call[r].lim] < Refill
      PROVE  debt[call[r].ip] + Refill > Full
  <2>1. call[r].ip \in Ip /\ debt[call[r].ip] \in Nat
    BY <1>2, CallCases DEF RateTypeOK
  <2>2. level[call[r].lim] = Full - debt[call[r].ip]
    BY <1>2, <2>1 DEF Seen, Owes
  <2> QED BY <1>2, <2>1, <2>2
<1> QED BY <1>1, <1>2 DEF RateHolds, RefusedAtLimitOnly

\* The burst that a restart may give is as much as an address owes at most.
LEMMA ForgetInv ==
    ASSUME RateInv, ForgetLimiters
    PROVE  RateInv'
<1> USE RateBounds
<1>1. /\ visitors' = [ip \in Ip |-> NoEntry] /\ level' = [l \in Lim |-> Full]
      /\ call' = [r \in Req |-> Idle] /\ sweepIn' = Cleanup
      /\ debt' = [ip \in Ip |-> Less(debt[ip], Full)]
  BY DEF ForgetLimiters
<1>2. \A ip \in Ip : debt'[ip] = 0
  <2> TAKE ip \in Ip
  <2>1. debt[ip] \in Nat /\ debt[ip] <= Full
    BY RateConsequences DEF RateHolds, RateInv, RateTypeOK
  <2>2. Less(debt[ip], Full) = 0
    BY <2>1 DEF Less
  <2> QED BY <1>1, <2>2
<1>3. RateTypeOK'
  BY <1>1, <1>2 DEF RateTypeOK
<1> QED BY <1>1, <1>2, <1>3 DEF RateInv, Owes, OwnLimiter, Seen

LEMMA RateInitInv == RateInit => RateInv
<1> USE RateBounds
<1>1. RateInit => RateTypeOK
  BY DEF RateInit, RateTypeOK
<1> QED BY <1>1 DEF RateInit, RateInv, Owes, OwnLimiter, Seen

LEMMA LimiterForInv ==
    ASSUME RateInv, NEW r \in Req, NEW ip \in Ip, LimiterFor(r, ip)
    PROVE  RateInv'
<1> USE RateBounds DEF RateInv
<1>1. PICK l \in Lim :
         /\ IF visitors[ip] = NoEntry
            THEN l \notin InUse /\ level' = [level EXCEPT ![l] = Full]
            ELSE l = visitors[ip].lim /\ level' = level
         /\ visitors' = [visitors EXCEPT ![ip] = [lim |-> l, age |-> 0]]
         /\ call' = [call EXCEPT ![r] = [ip |-> ip, lim |-> l, age |-> 0]]
         /\ UNCHANGED <<sweepIn, debt>>
  BY DEF LimiterFor
<1>2. visitors'[ip] = [lim |-> l, age |-> 0] /\ visitors'[ip] # NoEntry
  BY <1>1 DEF RateTypeOK, NoEntry
<1>3. \A jp \in Ip : jp # ip => visitors'[jp] = visitors[jp]
  BY <1>1 DEF RateTypeOK
<1>4. \A jp \in Ip : jp # ip /\ visitors[jp] # NoEntry => visitors[jp].lim # l
  BY <1>1 DEF InUse, OwnLimiter
<1>5. RateTypeOK'
  <2>1. [lim |-> l, age |-> 0] \in [lim : Lim, age : 0 .. 2 * Cleanup + 1]
    OBVIOUS
  <2>2. [ip |-> ip, lim |-> l, age |-> 0] \in [ip : Ip, lim : Lim, age : 0 .. MaxStall]
    OBVIOUS
  <2> QED BY <1>1, <2>1, <2>2 DEF RateTypeOK
<1>6. ASSUME NEW jp \in Ip PROVE Owes(jp)'
  <2>1. CASE jp = ip
    <3>1. level'[l] = Full - debt[ip] /\ debt[ip] \in Nat
      BY <1>1 DEF Owes, RateTypeOK
    <3>2. debt[ip] <= Full
      BY RateConsequences DEF RateHolds
    <3> QED BY <1>1, <1>2, <2>1, <3>1, <3>2 DEF Owes
  <2>2. CASE jp # ip /\ visitors[jp] = NoEntry
    BY <1>1, <1>3, <2>2 DEF Owes
  <2>3. CASE jp # ip /\ visitors[jp] # NoEntry
    <3>1. level'[visitors[jp].lim] = level[visitors[jp].lim]
      BY <1>1, <1>4, <2>3, EntryCases DEF RateTypeOK
    <3> QED BY <1>1, <1>3, <2>3, <3>1 DEF Owes
  <2> QED BY <2>1, <2>2, <2>3
<1>7. OwnLimiter'
  BY <1>2, <1>3, <1>4 DEF OwnLimiter
<1>8. ASSUME NEW s \in Req PROVE Seen(s)'
  <2>1. CASE s = r
    <3>1. call'[s] = [ip |-> ip, lim |-> l, age |-> 0]
      BY <1>1, <2>1 DEF RateTypeOK
    <3> QED BY <1>2, <3>1 DEF Seen
  <2>2. CASE s # r /\ call[s] # Idle
    <3>1. call'[s] = call[s] /\ call[s].ip \in Ip /\ call[s].age \in Nat
      BY <1>1, <2>2, CallCases DEF RateTypeOK
    <3>2. CASE call[s].ip = ip
      <4>1. visitors[ip] # NoEntry /\ visitors[ip].lim = call[s].lim
        BY <2>2, <3>2 DEF Seen
      <4> QED BY <1>1, <1>2, <3>1, <3>2, <4>1 DEF Seen
    <3>3. CASE call[s].ip # ip
      BY <1>3, <2>2, <3>1, <3>3 DEF Seen
    <3> QED BY <3>2, <3>3
  <2>3. CASE s # r /\ call[s] = Idle
    BY <1>1, <2>3 DEF Seen, RateTypeOK
  <2> QED BY <2>1, <2>2, <2>3
<1> QED BY <1>5, <1>6, <1>7, <1>8

\* The entry of a request in progress is younger than the request.
LEMMA AllowInv ==
    ASSUME RateInv, NEW r \in Req, Allow(r)
    PROVE  RateInv'
<1> USE RateBounds DEF RateInv
<1> DEFINE l == call[r].lim
           ip == call[r].ip
<1>1. /\ call[r] # Idle /\ ip \in Ip /\ l \in Lim /\ call[r].age \in 0 .. MaxStall
      /\ call' = [call EXCEPT ![r] = Idle]
      /\ UNCHANGED <<visitors, sweepIn>>
  BY CallCases DEF Allow
<1>2. /\ visitors[ip] # NoEntry /\ visitors[ip].lim = l /\ visitors[ip].age \in Nat
      /\ visitors[ip].age <= MaxStall
  BY <1>1, EntryCases DEF Seen
<1>3. /\ level[l] = Full - debt[ip] /\ level[l] \in Nat /\ debt[ip] \in Nat
  BY <1>1, <1>2 DEF Owes, RateTypeOK
<1>4. \A s \in Req : Seen(s)'
  <2>1. \A s \in Req : call'[s] = call[s] \/ call'[s] = Idle
    BY <1>1 DEF RateTypeOK
  <2> QED BY <1>1, <2>1 DEF Seen
<1>5. OwnLimiter'
  BY <1>1 DEF OwnLimiter
<1>6. call' \in [Req -> [ip : Ip, lim : Lim, age : 0 .. MaxStall] \cup {Idle}]
  BY <1>1 DEF RateTypeOK
<1>7. CASE level[l] >= Refill
  <2>1. /\ level' = [level EXCEPT ![l] = @ - Refill]
        /\ debt' = [debt EXCEPT ![ip] = @ + Refill]
    BY <1>7 DEF Allow
  <2>2. /\ level[l] - Refill = Full - (debt[ip] + Refill) /\ level[l] - Refill \in 0 .. Full
        /\ debt[ip] + Refill \in Nat /\ debt[ip] + Refill <= Full
    BY <1>3, <1>7, TakeToken
  <2>3. level'[l] = level[l] - Refill /\ debt'[ip] = debt[ip] + Refill
    BY <1>1, <2>1 DEF RateTypeOK
  <2>4. RateTypeOK'
    BY <1>1, <1>6, <2>1, <2>2 DEF RateTypeOK
  <2>5. ASSUME NEW jp \in Ip PROVE Owes(jp)'
    <3>1. CASE jp = ip
      <4>1. debt'[ip] \in Nat /\ debt'[ip] <= Full
        BY <2>2, <2>3
      <4>2. debt'[ip] + visitors[ip].age <= Full + MaxStall
        BY <1>2, <4>1
      <4> QED BY <1>1, <1>2, <2>2, <2>3, <3>1, <4>2 DEF Owes
    <3>2. CASE jp # ip /\ visitors[jp] = NoEntry
      BY <1>1, <2>1, <3>2 DEF Owes, RateTypeOK
    <3>3. CASE jp # ip /\ visitors[jp] # NoEntry
      <4>1. visitors[jp].lim \in Lim /\ visitors[jp].lim # l
        BY <1>1, <1>2, <3>3, EntryCases DEF OwnLimiter
      <4> QED BY <1>1, <2>1, <3>3, <4>1 DEF Owes, RateTypeOK
    <3> QED BY <3>1, <3>2, <3>3
  <2> QED BY <1>4, <1>5, <2>4, <2>5
<1>8. CASE ~(level[l] >= Refill)
  <2>1. UNCHANGED <<level, debt>>
    BY <1>8 DEF Allow
  <2> QED BY <1>1, <1>4, <1>5, <1>6, <2>1 DEF RateTypeOK, Owes
<1> QED BY <1>7, <1>8

\* An entry that is old enough belongs to an address that owes nothing, and to
\* no request in progress.
LEMMA SweepInv ==
    ASSUME RateInv, SweepDue
    PROVE  RateInv'
<1> USE RateBounds DEF RateInv
<1>1. /\ visitors' = [ip \in Ip |-> IF visitors[ip].age > 2 * Cleanup THEN NoEntry
                                    ELSE visitors[ip]]
      /\ sweepIn' = Cleanup
      /\ UNCHANGED <<level, call, debt>>
  BY DEF SweepDue
<1>2. \A ip \in Ip : \/ visitors'[ip] = visitors[ip]
                     \/ visitors'[ip] = NoEntry /\ visitors[ip].age > 2 * Cleanup
  <2> TAKE ip \in Ip
  <2>1. visitors'[ip] = IF visitors[ip].age > 2 * Cleanup THEN NoEntry ELSE visitors[ip]
    BY <1>1
  <2> QED BY <2>1
<1>3. RateTypeOK'
  <2>1. visitors' \in [Ip -> [lim : Lim, age : 0 .. 2 * Cleanup + 1] \cup {NoEntry}]
    BY <1>1 DEF RateTypeOK
  <2> QED BY <1>1, <2>1 DEF RateTypeOK
<1>4. ASSUME NEW ip \in Ip PROVE Owes(ip)'
  <2>1. CASE visitors'[ip] = visitors[ip]
    BY <1>1, <2>1 DEF Owes
  <2>2. CASE visitors'[ip] = NoEntry /\ visitors[ip].age > 2 * Cleanup /\ visitors[ip] # NoEntry
    <3>1. debt[ip] \in Nat /\ visitors[ip].age \in Nat
      BY <2>2, EntryCases DEF RateTypeOK
    <3>2. debt[ip] = 0 \/ debt[ip] + visitors[ip].age <= Full + MaxStall
      BY <2>2 DEF Owes
    <3>3. debt[ip] = 0
      BY <2>2, <3>1, <3>2
    <3> QED BY <1>1, <2>2, <3>3 DEF Owes
  <2> QED BY <1>2, <2>1, <2>2
<1>5. OwnLimiter'
  BY <1>2 DEF OwnLimiter
<1>6. ASSUME NEW r \in Req PROVE Seen(r)'
  <2>1. SUFFICES ASSUME call[r] # Idle PROVE visitors'[call[r].ip] = visitors[call[r].ip]
    BY <1>1 DEF Seen
  <2>2. call[r].ip \in Ip /\ call[r].age \in 0 .. MaxStall
    BY <2>1, CallCases
  <2>3. visitors[call[r].ip].age \in Nat /\ visitors[call[r].ip].age <= call[r].age
    BY <2>1, <2>2, EntryCases DEF Seen
  <2> QED BY <1>2, <2>2, <2>3
<1> QED BY <1>3, <1>4, <1>5, <1>6

LEMMA RateTickInv ==
    ASSUME RateInv, Tick
    PROVE  RateInv'
<1> USE RateBounds DEF RateInv
<1>1. \A ip \in Ip :
         /\ visitors[ip] = NoEntry => visitors'[ip] = NoEntry
         /\ visitors[ip] # NoEntry =>
               visitors'[ip] = [visitors[ip] EXCEPT !.age = UpTo(@, 2 * Cleanup + 1)]
         /\ debt'[ip] = Less(debt[ip], 1)
  BY DEF Tick
<1>2. ASSUME NEW ip \in Ip, visitors[ip] # NoEntry
      PROVE  /\ visitors'[ip] # NoEntry /\ visitors'[ip].lim = visitors[ip].lim
             /\ visitors[ip].lim \in Lim
             /\ visitors'[ip].age = UpTo(visitors[ip].age, 2 * Cleanup + 1)
             /\ visitors[ip].age \in 0 .. 2 * Cleanup + 1
             /\ visitors'[ip].age \in 0 .. 2 * Cleanup + 1
             /\ visitors'[ip].age <= visitors[ip].age + 1
             /\ visitors'[ip] \in [lim : Lim, age : 0 .. 2 * Cleanup + 1]
  <2>1. /\ visitors[ip] \in [lim : Lim, age : 0 .. 2 * Cleanup + 1]
        /\ visitors[ip].lim \in Lim /\ visitors[ip].age \in 0 .. 2 * Cleanup + 1
    BY <1>2, EntryCases
  <2>2. visitors'[ip] = [visitors[ip] EXCEPT !.age = UpTo(@, 2 * Cleanup + 1)]
    BY <1>1, <1>2
  <2>3. /\ visitors'[ip].lim = visitors[ip].lim
        /\ visitors'[ip].age = UpTo(visitors[ip].age, 2 * Cleanup + 1)
    BY <2>1, <2>2
  <2>4. /\ UpTo(visitors[ip].age, 2 * Cleanup + 1) \in 0 .. 2 * Cleanup + 1
        /\ UpTo(visitors[ip].age, 2 * Cleanup + 1) <= visitors[ip].age + 1
    BY <2>1 DEF UpTo
  <2>5. visitors'[ip] \in [lim : Lim, age : 0 .. 2 * Cleanup + 1]
    BY <2>1, <2>2, <2>4
  <2>6. visitors'[ip] # NoEntry
    BY <2>1, <2>3 DEF NoEntry
  <2> QED BY <2>1, <2>3, <2>4, <2>5, <2>6
<1>3. ASSUME NEW r \in Req, call[r] # Idle
      PROVE  /\ call'[r] = [call[r] EXCEPT !.age = @ + 1]
             /\ call[r].age \in Nat /\ call[r].age < MaxStall
             /\ call'[r].ip = call[r].ip /\ call'[r].lim = call[r].lim
             /\ call'[r].age = call[r].age + 1 /\ call[r].ip \in Ip
             /\ call'[r] \in [ip : Ip, lim : Lim, age : 0 .. MaxStall]
  BY <1>3, CallCases DEF Tick
<1>4. \A r \in Req : call[r] = Idle => call'[r] = Idle
  BY DEF Tick
<1>5. RateTypeOK'
  <2>1. visitors' = [ip \in Ip |-> visitors'[ip]] /\ call' = [r \in Req |-> call'[r]]
    BY DEF Tick
  <2>2. visitors' \in [Ip -> [lim : Lim, age : 0 .. 2 * Cleanup + 1] \cup {NoEntry}]
    BY <1>1, <1>2, <2>1
  <2>3. call' \in [Req -> [ip : Ip, lim : Lim, age : 0 .. MaxStall] \cup {Idle}]
    BY <1>3, <1>4, <2>1
  <2>4. level' \in [Lim -> 0 .. Full] /\ debt' \in [Ip -> Nat] /\ sweepIn' \in 0 .. Cleanup
    BY DEF Tick, UpTo, Less, RateTypeOK
  <2> QED BY <2>2, <2>3, <2>4 DEF RateTypeOK
<1>6. ASSUME NEW ip \in Ip PROVE Owes(ip)'
  <2>1. CASE visitors[ip] = NoEntry
    <3>1. debt[ip] = 0 /\ debt'[ip] = Less(debt[ip], 1)
      BY <1>1, <2>1 DEF Owes
    <3>2. Less(0, 1) = 0
      BY DEF Less
    <3> QED BY <1>1, <2>1, <3>1, <3>2 DEF Owes
  <2>2. CASE visitors[ip] # NoEntry
    <3> DEFINE l == visitors[ip].lim
    <3>1. /\ level[l] = Full - debt[ip] /\ level[l] \in Nat /\ debt[ip] \in Nat
          /\ debt[ip] = 0 \/ debt[ip] + visitors[ip].age <= Full + MaxStall
      BY <1>2, <2>2 DEF Owes, RateTypeOK
    <3>2. level'[l] = UpTo(level[l], Full)
      BY <1>2, <2>2 DEF Tick
    <3>3. level'[l] = Full - debt'[ip]
      <4>1. UpTo(level[l], Full) = Full - Less(debt[ip], 1)
        BY <3>1, TickToken
      <4> QED BY <1>1, <3>2, <4>1
    <3>4. Full + MaxStall \in Nat /\ 2 * Cleanup + 1 \in Nat /\ Full + MaxStall < 2 * Cleanup + 1
      OBVIOUS
    <3>5. /\ visitors[ip].age \in 0 .. 2 * Cleanup + 1
          /\ visitors'[ip].age = UpTo(visitors[ip].age, 2 * Cleanup + 1)
          /\ debt'[ip] = Less(debt[ip], 1)
      BY <1>1, <1>2, <2>2
    <3>6. \/ Less(debt[ip], 1) = 0
          \/ Less(debt[ip], 1) + UpTo(visitors[ip].age, 2 * Cleanup + 1) <= Full + MaxStall
      BY <3>1, <3>4, <3>5, TickAge, Zenon
    <3>7. debt'[ip] = 0 \/ debt'[ip] + visitors'[ip].age <= Full + MaxStall
      BY <3>5, <3>6
    <3> QED BY <1>2, <2>2, <3>3, <3>7 DEF Owes
  <2> QED BY <2>1, <2>2
<1>7. OwnLimiter'
  <2>1. SUFFICES ASSUME NEW ip \in Ip, NEW jp \in Ip, visitors'[ip] # NoEntry,
                        visitors'[jp] # NoEntry, visitors'[ip].lim = visitors'[jp].lim
                 PROVE  ip = jp
    BY DEF OwnLimiter
  <2>2. visitors[ip] # NoEntry /\ visitors[jp] # NoEntry
    BY <1>1, <2>1
  <2>3. visitors'[ip].lim = visitors[ip].lim /\ visitors'[jp].lim = visitors[jp].lim
    BY <1>2, <2>2
  <2> QED BY <2>1, <2>2, <2>3 DEF OwnLimiter
<1>8. ASSUME NEW r \in Req PROVE Seen(r)'
  <2>1. CASE call[r] = Idle
    BY <1>4, <2>1 DEF Seen
  <2>2. CASE call[r] # Idle
    <3>1. visitors[call[r].ip] # NoEntry /\ visitors[call[r].ip].lim = call[r].lim
          /\ visitors[call[r].ip].age <= call[r].age
      BY <2>2 DEF Seen
    <3> DEFINE v == visitors[call[r].ip]
    <3>2. /\ visitors'[call[r].ip] # NoEntry /\ visitors'[call[r].ip].lim = v.lim
          /\ v.age \in 0 .. 2 * Cleanup + 1
          /\ visitors'[call[r].ip].age = UpTo(v.age, 2 * Cleanup + 1)
      BY <1>2, <1>3, <2>2, <3>1
    <3>3. call[r].age \in Nat /\ call'[r].age = call[r].age + 1
      BY <1>3, <2>2
    <3>4. UpTo(v.age, 2 * Cleanup + 1) <= call[r].age + 1
      BY <3>1, <3>2, <3>3 DEF UpTo
    <3> QED BY <1>3, <2>2, <3>1, <3>2, <3>3, <3>4 DEF Seen
  <2> QED BY <2>1, <2>2
<1> QED BY <1>5, <1>6, <1>7, <1>8

LEMMA RateStutterInv ==
    ASSUME RateInv, UNCHANGED rateVars
    PROVE  RateInv'
BY DEF RateInv, RateTypeOK, Owes, OwnLimiter, Seen, rateVars

LEMMA RateNextInv ==
    ASSUME RateInv, RateNext
    PROVE  RateInv'
BY AllowInv, LimiterForInv, SweepInv, RateTickInv DEF RateNext

-----------------------------------------------------------------------------
(***************************************************************************)
(* Partitions.  A run that comes to its end cleanly has made the partition *)
(* of the next month, unless the next month lacks that day; no month that  *)
(* is still to come has rows.                                              *)
(***************************************************************************)
\* What a run that is clean so far will do last.
Ends ==
    job.at = "create" /\ job.clean
        => job.todo[Len(job.todo)] = AddMonth(month, day)

\* A run that the history tells of is past, and its work is kept.
Kept ==
    \A m \in 1 .. MaxMonth :
        ran[m] # 0 => m <= month /\ (ran[m] <= Length[m + 1] => m + 1 \in parts)

PartInv ==
    /\ PartTypeOK
    /\ stray \subseteq 1 .. month
    /\ Ends /\ Kept
    /\ MadeInTime

LEMMA CalendarBounds ==
    ASSUME PartTypeOK
    PROVE  /\ MaxMonth \in Nat /\ month \in Nat /\ month >= 1 /\ month <= MaxMonth
           /\ day \in Nat /\ day >= 1 /\ day <= Length[month]
           /\ Length[month] \in Nat \ {0} /\ Length[month + 1] \in Nat \ {0}
           /\ month \in Month /\ month + 1 \in Month /\ AddMonth(month, day) \in Month
<1>1. MaxMonth \in Nat /\ month \in 1 .. MaxMonth /\ day \in 1 .. Length[month]
  BY CalendarAssumption DEF PartTypeOK
<1>2. month \in 1 .. MaxMonth + 1 /\ month + 1 \in 1 .. MaxMonth + 1
  BY <1>1
<1>3. Length[month] \in Nat \ {0} /\ Length[month + 1] \in Nat \ {0}
  BY <1>2, CalendarAssumption
<1>4. /\ month \in Month /\ month + 1 \in Month /\ month + 2 \in Month
  BY <1>1 DEF Month
<1> QED BY <1>1, <1>3, <1>4 DEF AddMonth

\* The run in time of the month before has made the partition of this one.
LEMMA MadeBefore ==
    ASSUME PartTypeOK, Kept, RanInTime
    PROVE  month \in parts
<1> USE CalendarBounds
<1>1. /\ month - 1 \in 1 .. MaxMonth /\ (month - 1) + 1 = month
      /\ ran[month - 1] \in 1 .. Length[month]
  BY DEF RanInTime
<1>2. ran[month - 1] # 0 /\ ran[month - 1] <= Length[(month - 1) + 1]
  BY <1>1
<1> QED BY <1>1, <1>2 DEF Kept

LEMMA PartInitInv == PartInit => PartInv
<1> SUFFICES ASSUME PartInit PROVE PartInv
  OBVIOUS
<1>1. /\ month = 1 /\ day \in 1 .. Length[1] /\ parts = {} /\ stray = {} /\ job = Asleep
      /\ due = TRUE /\ faults = 0 /\ ran = [m \in 1 .. MaxMonth |-> 0]
  BY DEF PartInit
<1>2. 1 \in 1 .. MaxMonth /\ MaxFaults \in Nat
  BY CalendarAssumption
<1>3. PartTypeOK
  BY <1>1, <1>2 DEF PartTypeOK, Asleep
<1>4. Ends /\ Kept
  BY <1>1 DEF Ends, Kept, Asleep
<1>5. MadeInTime
  BY <1>1 DEF MadeInTime, RanInTime
<1> QED BY <1>1, <1>3, <1>4, <1>5 DEF PartInv

LEMMA RunStartsInv ==
    ASSUME PartInv, RunStarts
    PROVE  PartInv'
<1> USE CalendarBounds DEF PartInv
<1>1. /\ job' = [at |-> "create", todo |-> <<month, AddMonth(month, day)>>, clean |-> TRUE]
      /\ due' = FALSE
      /\ UNCHANGED <<month, day, parts, stray, faults, ran>>
  BY DEF RunStarts, Targets
<1>2. <<month, AddMonth(month, day)>> \in Seq(Month)
  OBVIOUS
<1>3. job' \in [at : {"create"}, todo : Seq(Month), clean : BOOLEAN] /\ Len(job'.todo) = 2
  BY <1>1, <1>2
<1>4. PartTypeOK'
  BY <1>1, <1>3 DEF PartTypeOK
<1>5. MadeInTime' /\ Kept'
  BY <1>1 DEF MadeInTime, RanInTime, Kept
<1>6. Ends'
  BY <1>1 DEF Ends, AddMonth
<1> QED BY <1>1, <1>4, <1>5, <1>6

\* A row goes to the default partition only if nothing was made in time.
LEMMA InsertRowInv ==
    ASSUME PartInv, InsertRow
    PROVE  PartInv'
<1> USE CalendarBounds DEF PartInv
<1>1. /\ month \notin parts /\ stray' = stray \cup {month}
      /\ UNCHANGED <<month, day, parts, job, due, faults, ran>>
  BY DEF InsertRow
<1>2. PartTypeOK'
  BY <1>1 DEF PartTypeOK
<1>3. Ends' /\ Kept'
  BY <1>1 DEF Ends, Kept, AddMonth
<1>4. ~RanInTime
  BY <1>1, MadeBefore
<1>5. MadeInTime'
  BY <1>1, <1>4 DEF MadeInTime, RanInTime
<1>6. stray' \subseteq 1 .. month'
  <2>1. month \in 1 .. month /\ stray \subseteq 1 .. month
    OBVIOUS
  <2>2. (1 .. month)' = 1 .. month
    BY <1>1
  <2> QED BY <1>1, <2>1, <2>2, Zenon
<1> QED BY <1>2, <1>3, <1>5, <1>6

LEMMA KillJobInv ==
    ASSUME PartInv, KillJob
    PROVE  PartInv'
<1> USE CalendarBounds DEF PartInv
<1>1. /\ job' = Stopped /\ faults' \in 0 .. MaxFaults
      /\ UNCHANGED <<month, day, parts, stray, due, ran>>
  BY CalendarAssumption DEF KillJob, PartTypeOK
<1>2. PartTypeOK'
  BY <1>1 DEF PartTypeOK, Stopped
<1>3. Ends' /\ Kept' /\ MadeInTime'
  BY <1>1 DEF Ends, Kept, MadeInTime, RanInTime, Stopped
<1> QED BY <1>1, <1>2, <1>3

LEMMA StartJobInv ==
    ASSUME PartInv, StartJob
    PROVE  PartInv'
<1> USE CalendarBounds DEF PartInv
<1>1. /\ job' = Asleep /\ due' = TRUE
      /\ UNCHANGED <<month, day, parts, stray, faults, ran>>
  BY DEF StartJob
<1>2. PartTypeOK'
  BY <1>1 DEF PartTypeOK, Asleep
<1>3. Ends' /\ Kept' /\ MadeInTime'
  BY <1>1 DEF Ends, Kept, MadeInTime, RanInTime, Asleep
<1> QED BY <1>1, <1>2, <1>3

LEMMA TodoCases ==
    ASSUME NEW s \in Seq(Month), Len(s) \in {1, 2}
    PROVE  /\ Head(s) \in Month /\ Head(s) = s[1] /\ Tail(s) \in Seq(Month)
           /\ Len(s) = 1 => Tail(s) = <<>>
           /\ Len(s) = 2 => Tail(s) # <<>> /\ Len(Tail(s)) = 1 /\ Tail(s)[1] = s[2]
<1>1. s # <<>>
  OBVIOUS
<1>2. /\ Head(s) \in Month /\ Head(s) = s[1] /\ Tail(s) \in Seq(Month)
      /\ Len(Tail(s)) = Len(s) - 1
      /\ \A i \in 1 .. Len(Tail(s)) : Tail(s)[i] = s[i + 1]
  BY <1>1, HeadTailProperties
<1>3. ASSUME Len(s) = 1 PROVE Tail(s) = <<>>
  <2>1. Len(Tail(s)) = 0
    BY <1>2, <1>3
  <2>2. \A q \in Seq(Month) : q # <<>> => Len(q) \in Nat \ {0}
    BY EmptySeq
  <2>3. Tail(s) # <<>> => Len(Tail(s)) \in Nat \ {0}
    BY <1>2, <2>2
  <2> QED BY <2>1, <2>3
<1>4. ASSUME Len(s) = 2 PROVE Tail(s) # <<>> /\ Len(Tail(s)) = 1 /\ Tail(s)[1] = s[2]
  <2>1. Len(Tail(s)) = 1 /\ 1 \in 1 .. 1 /\ 1 + 1 = 2
    BY <1>2, <1>4
  <2>2. Tail(s)[1] = s[2]
    BY <1>2, <2>1
  <2> QED BY <1>2, <2>1, <2>2, EmptySeq, SMTT(20)
<1> QED BY <1>2, <1>3, <1>4

\* The last statement of a clean run makes the partition of next month.
LEMMA EnsurePartitionInv ==
    ASSUME PartInv, EnsurePartition
    PROVE  PartInv'
<1> USE CalendarBounds DEF PartInv
<1> DEFINE t == Head(job.todo)
<1>1. PICK ok \in BOOLEAN :
         /\ job.at = "create" /\ NextTarget(ok)
         /\ parts' = IF ok /\ t \notin stray THEN parts \cup {t} ELSE parts
         /\ faults' \in 0 .. MaxFaults
         /\ UNCHANGED <<month, day, stray, due>>
  <2>1. faults \in 0 .. MaxFaults /\ MaxFaults \in Nat
    BY CalendarAssumption DEF PartTypeOK
  <2>2. CASE parts' = (IF t \in stray THEN parts ELSE parts \cup {t}) /\ NextTarget(TRUE)
             /\ UNCHANGED faults
    BY <2>1, <2>2 DEF EnsurePartition
  <2>3. CASE faults < MaxFaults /\ faults' = faults + 1 /\ NextTarget(FALSE) /\ UNCHANGED parts
    <3>1. faults' \in 0 .. MaxFaults
      BY <2>1, <2>3
    <3>2. job.at = "create" /\ UNCHANGED <<month, day, stray, due>>
      BY DEF EnsurePartition
    <3>3. parts' = IF FALSE /\ t \notin stray THEN parts \cup {t} ELSE parts
      BY <2>3
    <3> QED BY <2>3, <3>1, <3>2, <3>3, Zenon
  <2> QED BY <2>2, <2>3 DEF EnsurePartition
<1>2. /\ job \in [at : {"create"}, todo : Seq(Month), clean : BOOLEAN]
      /\ job.todo \in Seq(Month) /\ Len(job.todo) \in {1, 2} /\ job.clean \in BOOLEAN
  BY <1>1 DEF PartTypeOK, Stopped, Asleep
<1>3. /\ t \in Month /\ t = job.todo[1] /\ Tail(job.todo) \in Seq(Month)
      /\ Len(job.todo) = 1 => Tail(job.todo) = <<>>
      /\ Len(job.todo) = 2 => /\ Tail(job.todo) # <<>> /\ Len(Tail(job.todo)) = 1
                              /\ Tail(job.todo)[1] = job.todo[2]
  BY <1>2, TodoCases
<1>4. parts \subseteq parts' /\ parts' \subseteq Month
  BY <1>1, <1>3 DEF PartTypeOK
<1>5. CASE Len(job.todo) = 2
  <2>1. /\ job' = [at |-> "create", todo |-> Tail(job.todo), clean |-> job.clean /\ ok]
        /\ ran' = ran
    BY <1>1, <1>3, <1>5 DEF NextTarget
  <2>2. job' \in [at : {"create"}, todo : Seq(Month), clean : BOOLEAN] /\ Len(job'.todo) = 1
    BY <1>2, <1>3, <1>5, <2>1
  <2>3. PartTypeOK'
    BY <1>1, <1>4, <2>1, <2>2 DEF PartTypeOK
  <2>4. Ends'
    <3>1. SUFFICES ASSUME job'.clean PROVE job'.todo[1] = AddMonth(month, day)
      BY <1>1, <2>2 DEF Ends, AddMonth
    <3>2. job.clean /\ job'.todo[1] = job.todo[2]
      BY <1>3, <1>5, <2>1, <3>1
    <3> QED BY <1>1, <1>5, <3>2 DEF Ends
  <2>5. Kept' /\ MadeInTime'
    BY <1>1, <1>4, <2>1 DEF Kept, MadeInTime, RanInTime
  <2> QED BY <1>1, <2>3, <2>4, <2>5
<1>6. CASE Len(job.todo) = 1
  <2>1. /\ job' = Asleep
        /\ ran' = IF job.clean /\ ok /\ ran[month] = 0 THEN [ran EXCEPT ![month] = day] ELSE ran
    BY <1>1, <1>3, <1>6 DEF NextTarget
  <2>2. PartTypeOK' /\ Ends'
    <3>1. ran' \in [1 .. MaxMonth -> Nat]
      BY <2>1 DEF PartTypeOK
    <3> QED BY <1>1, <1>4, <2>1, <3>1 DEF PartTypeOK, Ends, Asleep
  <2>3. CASE ran' = ran
    BY <1>1, <1>4, <2>2, <2>3 DEF Kept, MadeInTime, RanInTime
  <2>4. CASE job.clean /\ ok /\ ran' = [ran EXCEPT ![month] = day]
    <3>1. t = AddMonth(month, day)
      BY <1>1, <1>3, <1>6, <2>4 DEF Ends
    <3>2. day <= Length[month + 1] => month + 1 \in parts'
      <4>1. SUFFICES ASSUME day <= Length[month + 1] PROVE month + 1 \in parts'
        OBVIOUS
      <4>2. t = month + 1
        BY <3>1, <4>1 DEF AddMonth
      <4>3. t \notin stray
        BY <4>2
      <4> QED BY <1>1, <2>4, <4>2, <4>3
    <3>3. Kept'
      <4>1. ASSUME NEW m \in 1 .. MaxMonth, ran'[m] # 0
            PROVE  m <= month /\ (ran'[m] <= Length[m + 1] => m + 1 \in parts')
        <5>1. CASE m = month
          BY <2>4, <3>2, <5>1 DEF PartTypeOK
        <5>2. CASE m # month
          BY <1>4, <2>4, <4>1, <5>2 DEF PartTypeOK, Kept
        <5> QED BY <5>1, <5>2
      <4> QED BY <1>1, <4>1 DEF Kept
    <3>4. month > 1 => ran'[month - 1] = ran[month - 1]
      BY <2>4 DEF PartTypeOK
    <3>5. MadeInTime'
      BY <1>1, <1>4, <3>4 DEF MadeInTime, RanInTime
    <3> QED BY <1>1, <2>2, <3>3, <3>5
  <2> QED BY <2>1, <2>3, <2>4
<1> QED BY <1>2, <1>5, <1>6

\* A run that goes on over midnight is not clean; a month that begins has no rows.
LEMMA NextDayInv ==
    ASSUME PartInv, NextDay
    PROVE  PartInv'
<1> USE CalendarBounds DEF PartInv
<1>1. /\ due' = TRUE
      /\ job' = IF job.at = "create" THEN [job EXCEPT !.clean = FALSE] ELSE job
      /\ UNCHANGED <<parts, stray, faults, ran>>
  BY DEF NextDay
<1>2. /\ job' \in {Stopped, Asleep} \cup [at : {"create"}, todo : Seq(Month), clean : BOOLEAN]
      /\ job'.at = "create" => Len(job'.todo) \in {1, 2} /\ ~job'.clean
  <2>1. CASE job.at = "create"
    <3>1. job \in [at : {"create"}, todo : Seq(Month), clean : BOOLEAN]
      BY <2>1 DEF PartTypeOK, Stopped, Asleep
    <3> QED BY <1>1, <2>1, <3>1 DEF PartTypeOK
  <2>2. CASE job.at # "create"
    BY <1>1, <2>2 DEF PartTypeOK
  <2> QED BY <2>1, <2>2
<1>3. Ends'
  BY <1>2 DEF Ends
<1>4. /\ month' \in 1 .. MaxMonth /\ day' \in 1 .. Length[month'] /\ month' \in {month, month + 1}
      /\ month' = month + 1 \/ month' = month
  <2>1. CASE day < Length[month] /\ day' = day + 1 /\ month' = month
    BY <2>1
  <2>2. CASE month < MaxMonth /\ month' = month + 1 /\ day' = 1
    <3>1. month' \in 1 .. MaxMonth /\ Length[month'] \in Nat \ {0}
      BY <2>2
    <3> QED BY <2>2, <3>1
  <2> QED BY <2>1, <2>2 DEF NextDay
<1>5. PartTypeOK'
  BY <1>1, <1>2, <1>4 DEF PartTypeOK
<1>6. Kept'
  BY <1>1, <1>4 DEF Kept
<1>7. stray' \subseteq 1 .. month'
  BY <1>1, <1>4
<1>8. MadeInTime'
  <2>1. CASE month' = month
    BY <1>1, <2>1 DEF MadeInTime, RanInTime
  <2>2. CASE month' = month + 1
    <3>1. month' \notin stray'
      BY <1>1, <2>2
    <3>2. ASSUME RanInTime' PROVE month' \in parts'
      <4>1. month' - 1 = month /\ ran[month] \in 1 .. Length[month + 1]
        BY <1>1, <2>2, <3>2 DEF RanInTime
      <4>2. month \in 1 .. MaxMonth /\ ran[month] # 0 /\ ran[month] <= Length[month + 1]
        BY <4>1
      <4> QED BY <1>1, <2>2, <4>2 DEF Kept
    <3> QED BY <3>1, <3>2 DEF MadeInTime
  <2> QED BY <1>4, <2>1, <2>2
<1> QED BY <1>3, <1>5, <1>6, <1>7, <1>8

LEMMA PartStutterInv ==
    ASSUME PartInv, UNCHANGED partVars
    PROVE  PartInv'
BY DEF PartInv, PartTypeOK, Ends, Kept, AddMonth, MadeInTime, RanInTime, partVars

-----------------------------------------------------------------------------
(***************************************************************************)
(* The process.                                                            *)
(***************************************************************************)
Inv == RateInv /\ PartInv

LEMMA InitInv == Init => Inv
BY RateInitInv, PartInitInv DEF Init, Inv

LEMMA NextInv ==
    ASSUME Inv, [Next]_vars
    PROVE  Inv'
<1> USE DEF Inv
<1>1. CASE RateNext /\ UNCHANGED partVars
  BY <1>1, RateNextInv, PartStutterInv
<1>2. CASE PartNext /\ UNCHANGED rateVars
  <2>1. PartInv'
    BY <1>2, RunStartsInv, EnsurePartitionInv, InsertRowInv, NextDayInv DEF PartNext
  <2> QED BY <1>2, <2>1, RateStutterInv
<1>3. CASE Kill
  BY <1>3, KillJobInv, ForgetInv DEF Kill
<1>4. CASE Start
  BY <1>4, StartJobInv, RateStutterInv DEF Start
<1>5. CASE UNCHANGED vars
  BY <1>5, RateStutterInv, PartStutterInv DEF vars
<1> QED BY <1>1, <1>2, <1>3, <1>4, <1>5 DEF Next

THEOREM Invariant == Spec => []Inv
<1>1. Init => Inv
  BY InitInv
<1>2. Inv /\ [Next]_vars => Inv'
  BY NextInv
<1> QED BY <1>1, <1>2, PTL DEF Spec

\* Type correctness, of the limiters and of the partitions.
THEOREM TypeCorrect == Spec => []TypeOK
<1>1. Inv => TypeOK
  BY DEF Inv, RateInv, PartInv, TypeOK
<1> QED BY <1>1, Invariant, PTL

\* In no period, restarts in it or not, does an address get more requests through
\* than a burst, what is refilled and a burst for each restart, though entries
\* are thrown away and made anew (api/middleware.go:119-143, api/server.go:26-33).
THEOREM RateBound == Spec => []RateHolds
<1>1. Inv => RateHolds
  BY RateConsequences DEF Inv
<1> QED BY <1>1, Invariant, PTL

\* An address is refused only at that limit (api/middleware.go:134-156).
THEOREM RefusalJustified == Spec => []RefusedAtLimitOnly
<1>1. Inv => RefusedAtLimitOnly
  BY RateConsequences DEF Inv
<1> QED BY <1>1, Invariant, PTL

\* One day of a month, not beyond the end of the next month, on which the job
\* runs to its end keeps all rows of the next month out of the default partition,
\* whatever fails or is killed on all the other days
\* (internal/jobs/partition.go:14-22).
THEOREM PartitionsInTime == Spec => []MadeInTime
<1>1. Inv => MadeInTime
  BY DEF Inv, PartInv
<1> QED BY <1>1, Invariant, PTL

-----------------------------------------------------------------------------
(***************************************************************************)
(* One bucket per address.  An entry is thrown away when it is full, so    *)
(* only grants, ticks and the end of the process change a bucket.          *)
(***************************************************************************)
BStep == [Buckets!BucketNext]_(Buckets!bucketVars)

LEMMA SameMost == Buckets!Most = Full
BY DEF Buckets!Most, Full

LEMMA NobodyAsks ==
    ASSUME RateTypeOK, NEW r \in Req PROVE call[r] = Idle <=> call[r].ip = NoIp
<1>1. CASE call[r] = Idle
  BY <1>1 DEF Idle
<1>2. CASE call[r] # Idle
  <2>1. call[r].ip \in Ip
    BY <1>2, CallCases
  <2> QED BY <1>2, <2>1, RateBounds
<1> QED BY <1>1, <1>2

LEMMA BucketType ==
    ASSUME RateTypeOK, NEW ip \in Ip PROVE Bucket(ip) \in 0 .. Full
<1>1. CASE visitors[ip] = NoEntry
  BY <1>1, RateBounds DEF Bucket
<1>2. CASE visitors[ip] # NoEntry
  BY <1>2, EntryCases DEF Bucket, RateTypeOK
<1> QED BY <1>1, <1>2

LEMMA BucketsStill ==
    ASSUME \A ip \in Ip : Bucket(ip)' = Bucket(ip), \A r \in Req : call'[r].ip = call[r].ip,
           (job # Stopped)' = (job # Stopped)
    PROVE  UNCHANGED Buckets!bucketVars
BY DEF Buckets!bucketVars

LEMMA BucketsFull ==
    ASSUME visitors = [ip \in Ip |-> NoEntry], call = [r \in Req |-> Idle]
    PROVE  Buckets!AllFull
<1>1. \A ip \in Ip : Bucket(ip) = Full
  BY DEF Bucket
<1>2. \A r \in Req : call[r].ip = NoIp
  BY DEF Idle
<1> QED BY <1>1, <1>2, SameMost DEF Buckets!AllFull

LEMMA AskStep ==
    ASSUME RateInv, NEW r \in Req, NEW ip \in Ip, LimiterFor(r, ip),
           job # Stopped, UNCHANGED partVars
    PROVE  BStep
<1> USE DEF RateInv
<1>1. PICK l \in Lim :
         /\ IF visitors[ip] = NoEntry
            THEN l \notin InUse /\ level' = [level EXCEPT ![l] = Full]
            ELSE l = visitors[ip].lim /\ level' = level
         /\ visitors' = [visitors EXCEPT ![ip] = [lim |-> l, age |-> 0]]
         /\ call' = [call EXCEPT ![r] = [ip |-> ip, lim |-> l, age |-> 0]]
         /\ call[r] = Idle
  BY DEF LimiterFor
<1>2. visitors'[ip] = [lim |-> l, age |-> 0] /\ visitors'[ip] # NoEntry
  BY <1>1, RateBounds DEF RateTypeOK, NoEntry
<1>3. ASSUME NEW jp \in Ip PROVE Bucket(jp)' = Bucket(jp)
  <2>1. CASE jp = ip /\ visitors[ip] = NoEntry
    <3>1. level'[l] = Full
      BY <1>1, <2>1 DEF RateTypeOK
    <3> QED BY <1>2, <2>1, <3>1 DEF Bucket
  <2>2. CASE jp = ip /\ visitors[ip] # NoEntry
    BY <1>1, <1>2, <2>2 DEF Bucket
  <2>3. CASE jp # ip /\ visitors[jp] = NoEntry
    BY <1>1, <2>3 DEF Bucket, RateTypeOK
  <2>4. CASE jp # ip /\ visitors[jp] # NoEntry
    <3>1. visitors'[jp] = visitors[jp] /\ visitors[jp].lim \in Lim
      BY <1>1, <2>4, EntryCases DEF RateTypeOK
    <3>2. level'[visitors[jp].lim] = level[visitors[jp].lim]
      BY <1>1, <2>4, <3>1 DEF InUse, RateTypeOK
    <3> QED BY <2>4, <3>1, <3>2 DEF Bucket
  <2> QED BY <2>1, <2>2, <2>3, <2>4
<1>4. call[r].ip = NoIp
  BY <1>1 DEF Idle
<1>5. \A s \in Req : call'[s].ip = IF s = r THEN ip ELSE call[s].ip
  BY <1>1 DEF RateTypeOK
<1>6. Buckets!Ask(r, ip)
  BY <1>3, <1>4, <1>5 DEF Buckets!Ask, partVars
<1> QED BY <1>6 DEF BStep, Buckets!BucketNext

LEMMA AnswerStep ==
    ASSUME RateInv, NEW r \in Req, Allow(r),
           job # Stopped, UNCHANGED partVars
    PROVE  BStep
<1> USE DEF RateInv
<1>1. PICK l \in Lim, ip \in Ip :
         /\ call[r] # Idle /\ l = call[r].lim /\ ip = call[r].ip
         /\ call' = [call EXCEPT ![r] = Idle] /\ visitors' = visitors
  BY CallCases DEF Allow
<1>2. visitors[ip] # NoEntry /\ visitors[ip].lim = l
  BY <1>1 DEF Seen
<1>3. Bucket(ip) = level[l]
  BY <1>2 DEF Bucket
<1>4. \A s \in Req : call'[s].ip = IF s = r THEN NoIp ELSE call[s].ip
  BY <1>1 DEF RateTypeOK, Idle
<1>5. ASSUME NEW jp \in Ip, jp # ip PROVE Bucket(jp)' = Bucket(jp)
  <2>1. CASE visitors[jp] = NoEntry
    BY <1>1, <2>1 DEF Bucket
  <2>2. CASE visitors[jp] # NoEntry
    <3>1. visitors[jp].lim \in Lim /\ visitors[jp].lim # l
      BY <1>1, <1>2, <1>5, <2>2, EntryCases DEF OwnLimiter
    <3>2. level'[visitors[jp].lim] = level[visitors[jp].lim]
      BY <1>1, <3>1 DEF Allow, RateTypeOK
    <3> QED BY <1>1, <2>2, <3>2 DEF Bucket
  <2> QED BY <2>1, <2>2
<1>6. CASE level[l] >= Refill
  <2>1. level'[l] = level[l] - Refill
    BY <1>1, <1>6 DEF Allow, RateTypeOK
  <2>2. Bucket(ip)' = Bucket(ip) - Refill
    BY <1>1, <1>2, <1>3, <2>1 DEF Bucket
  <2>3. Buckets!Grant(r, ip)
    BY <1>1, <1>3, <1>4, <1>5, <1>6, <2>2 DEF Buckets!Grant, partVars
  <2> QED BY <1>1, <2>3 DEF BStep, Buckets!BucketNext
<1>7. CASE ~(level[l] >= Refill)
  <2>1. level' = level
    BY <1>1, <1>7 DEF Allow
  <2>2. \A jp \in Ip : Bucket(jp)' = Bucket(jp)
    BY <1>1, <2>1 DEF Bucket
  <2>3. Bucket(ip) < Refill
    BY <1>1, <1>3, <1>7, RateBounds DEF RateTypeOK
  <2>4. Buckets!Deny(r, ip)
    BY <1>1, <1>4, <2>2, <2>3 DEF Buckets!Deny, partVars
  <2> QED BY <1>1, <2>4 DEF BStep, Buckets!BucketNext
<1> QED BY <1>6, <1>7

LEMMA EvictStep ==
    ASSUME RateInv, SweepDue,
           job # Stopped, UNCHANGED partVars
    PROVE  BStep
<1> USE RateBounds DEF RateInv
<1>1. /\ \A ip \in Ip : visitors'[ip] = IF visitors[ip].age > 2 * Cleanup THEN NoEntry
                                        ELSE visitors[ip]
      /\ UNCHANGED <<level, call>>
  BY DEF SweepDue
<1>2. ASSUME NEW ip \in Ip PROVE Bucket(ip)' = Bucket(ip)
  <2>1. CASE visitors'[ip] = visitors[ip]
    BY <1>1, <2>1 DEF Bucket
  <2>2. CASE visitors'[ip] = NoEntry /\ visitors[ip].age > 2 * Cleanup /\ visitors[ip] # NoEntry
    <3>1. debt[ip] \in Nat /\ visitors[ip].age \in Nat
      BY <2>2, EntryCases DEF RateTypeOK
    <3>2. debt[ip] = 0 \/ debt[ip] + visitors[ip].age <= Full + MaxStall
      BY <2>2 DEF Owes
    <3>3. debt[ip] = 0
      BY <2>2, <3>1, <3>2
    <3>4. level[visitors[ip].lim] = Full
      BY <2>2, <3>3 DEF Owes
    <3> QED BY <2>2, <3>4 DEF Bucket
  <2> QED BY <1>1, <2>1, <2>2
<1> QED BY <1>1, <1>2, BucketsStill DEF BStep, partVars

LEMMA GatherStep ==
    ASSUME RateInv, Tick,
           job # Stopped, UNCHANGED partVars
    PROVE  BStep
<1> USE RateBounds DEF RateInv
<1>1. ASSUME NEW ip \in Ip
      PROVE  Bucket(ip)' = IF Bucket(ip) < Full THEN Bucket(ip) + 1 ELSE Full
  <2>1. CASE visitors[ip] = NoEntry
    <3>1. visitors'[ip] = NoEntry
      BY <2>1 DEF Tick
    <3> QED BY <2>1, <3>1 DEF Bucket
  <2>2. CASE visitors[ip] # NoEntry
    <3>1. visitors[ip] \in [lim : Lim, age : 0 .. 2 * Cleanup + 1] /\ visitors[ip].lim \in Lim
      BY <2>2, EntryCases
    <3>2. visitors'[ip] = [visitors[ip] EXCEPT !.age = UpTo(@, 2 * Cleanup + 1)]
      BY <2>2 DEF Tick
    <3>3. visitors'[ip].lim = visitors[ip].lim
      BY <3>1, <3>2
    <3>4. visitors'[ip] # NoEntry
      BY <3>1, <3>3 DEF NoEntry
    <3>5. level'[visitors[ip].lim] = UpTo(level[visitors[ip].lim], Full)
      BY <3>1 DEF Tick
    <3> QED BY <2>2, <3>3, <3>4, <3>5 DEF Bucket, UpTo
  <2> QED BY <2>1, <2>2
<1>2. ASSUME NEW r \in Req PROVE call'[r].ip = call[r].ip
  <2>1. CASE call[r] = Idle
    BY <2>1 DEF Tick
  <2>2. CASE call[r] # Idle
    BY <2>2, CallCases DEF Tick
  <2> QED BY <2>1, <2>2
<1>3. Buckets!Gather
  BY <1>1, <1>2, SameMost DEF Buckets!Gather, partVars
<1> QED BY <1>3 DEF BStep, Buckets!BucketNext

LEMMA RateStillStep ==
    ASSUME UNCHANGED rateVars, (job # Stopped)' = (job # Stopped) PROVE BStep
<1>1. \A ip \in Ip : Bucket(ip)' = Bucket(ip)
  BY DEF rateVars, Bucket
<1>2. \A r \in Req : call'[r].ip = call[r].ip
  BY DEF rateVars
<1> QED BY <1>1, <1>2, BucketsStill DEF BStep

\* The job neither starts nor ends its process.
LEMMA JobStep == ASSUME Inv, PartNext PROVE job # Stopped <=> job' # Stopped
<1> USE DEF Inv, PartInv, Stopped, Asleep
<1>1. CASE RunStarts
  BY <1>1 DEF RunStarts
<1>2. CASE EnsurePartition
  BY <1>2 DEF EnsurePartition, NextTarget
<1>3. CASE InsertRow
  BY <1>3 DEF InsertRow
<1>4. CASE NextDay
  <2>1. CASE job.at = "create"
    <3>1. job \in [at : {"create"}, todo : Seq(Month), clean : BOOLEAN]
      BY <2>1 DEF PartTypeOK
    <3>2. job' = [job EXCEPT !.clean = FALSE]
      BY <1>4, <2>1 DEF NextDay
    <3>3. job.at = "create" /\ job'.at = "create"
      BY <3>1, <3>2
    <3> QED BY <3>3
  <2>2. CASE job.at # "create"
    BY <1>4, <2>2 DEF NextDay
  <2> QED BY <2>1, <2>2
<1> QED BY <1>1, <1>2, <1>3, <1>4 DEF PartNext

LEMMA NextBuckets == Inv /\ [Next]_vars => BStep
<1> SUFFICES ASSUME Inv, [Next]_vars PROVE BStep
  OBVIOUS
<1> USE DEF Inv
<1>1. CASE job # Stopped /\ RateNext /\ UNCHANGED partVars
  BY <1>1, AskStep, AnswerStep, EvictStep, GatherStep DEF RateNext
<1>2. CASE PartNext /\ UNCHANGED rateVars
  BY <1>2, JobStep, RateStillStep
<1>3. CASE Kill
  <2>1. /\ visitors' = [ip \in Ip |-> NoEntry] /\ call' = [r \in Req |-> Idle]
        /\ job # Stopped /\ job' = Stopped
    BY <1>3 DEF Kill, ForgetLimiters, KillJob
  <2>2. \A ip \in Ip : Bucket(ip)' = Full
    BY <2>1 DEF Bucket
  <2>3. \A r \in Req : call'[r].ip = NoIp
    BY <2>1 DEF Idle
  <2>4. Buckets!AllFull'
    BY <2>2, <2>3, SameMost DEF Buckets!AllFull
  <2>5. Buckets!End
    BY <2>1, <2>4 DEF Buckets!End
  <2> QED BY <2>5 DEF BStep, Buckets!BucketNext
<1>4. CASE Start
  <2>1. job = Stopped /\ job' # Stopped /\ UNCHANGED rateVars
    BY <1>4 DEF Start, StartJob, Stopped, Asleep
  <2>2. \A ip \in Ip : Bucket(ip)' = Bucket(ip)
    BY <2>1 DEF rateVars, Bucket
  <2>3. \A r \in Req : call'[r].ip = call[r].ip
    BY <2>1 DEF rateVars
  <2>4. Buckets!Begin
    BY <2>1, <2>2, <2>3 DEF Buckets!Begin
  <2> QED BY <2>4 DEF BStep, Buckets!BucketNext
<1>5. CASE UNCHANGED vars
  BY <1>5, RateStillStep DEF vars, partVars
<1> QED BY <1>1, <1>2, <1>3, <1>4, <1>5 DEF Next

\* The limiters implement one bucket per address that is filled at once only when
\* the process ends: a limiter of the map is the bucket of its address, an address
\* without one has a full bucket, however many limiters were evicted
\* (api/middleware.go:117-161).
THEOREM Implements == Spec => KeepsBuckets
<1>1. Init => Buckets!AllFull /\ (job # Stopped) = TRUE
  BY BucketsFull DEF Init, RateInit, PartInit, Stopped, Asleep
<1>2. Spec => [][Buckets!BucketNext]_(Buckets!bucketVars)
  BY Invariant, NextBuckets, PTL DEF Spec, BStep
<1> QED BY <1>1, <1>2, PTL DEF Spec, KeepsBuckets, Buckets!BucketSpec
=============================================================================
