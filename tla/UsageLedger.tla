---------------------------- MODULE UsageLedger -----------------------------
(***************************************************************************)
(* What the proxy promises about usage events, without its buffers.        *)
(*                                                                         *)
(* An event is pending once it is accepted; it is stored when it has its   *)
(* first row.  "stored" and "lost" are final: nothing removes a row, and   *)
(* nothing lost comes back.  A pending event is lost only in a crash or    *)
(* because a full queue gave a warning: each warning costs one event at    *)
(* most, at once or, while a retry is running, when that retry ends.       *)
(***************************************************************************)
EXTENDS Naturals, FiniteSets

CONSTANT Event

VARIABLES
    ledger,    \* [Event -> Status]
    warnings,  \* "dropping oldest event" warnings since the last restart
    owed       \* those of them whose event has not been lost yet

ledgerVars == <<ledger, warnings, owed>>

Status == {"none", "pending", "stored", "lost"}

In(st) == {e \in Event : ledger[e] = st}

Move(S, st) == ledger' = [e \in Event |-> IF e \in S THEN st ELSE ledger[e]]

LedgerInit ==
    /\ ledger = [e \in Event |-> "none"]
    /\ warnings = 0
    /\ owed = 0

Accept(e) ==
    /\ ledger[e] = "none"
    /\ Move({e}, "pending")
    /\ UNCHANGED <<warnings, owed>>

\* Lost at the door: the channel is full, or the direct write failed.
Refuse(e) ==
    /\ ledger[e] = "none"
    /\ Move({e}, "lost")
    /\ UNCHANGED <<warnings, owed>>

Store(e) ==
    /\ ledger[e] \in {"none", "pending"}
    /\ Move({e}, "stored")
    /\ UNCHANGED <<warnings, owed>>

\* A warning that costs a pending event at once.
Displace(e) ==
    /\ ledger[e] = "pending"
    /\ Move({e}, "lost")
    /\ warnings' = warnings + 1
    /\ UNCHANGED owed

\* A warning that costs nothing yet; at rest it never will.
Warn(later) ==
    /\ warnings' = warnings + 1
    /\ owed' = IF later THEN owed + 1 ELSE owed
    /\ UNCHANGED ledger

\* The end of a retry settles what is owed.
Settle(S) ==
    /\ S \subseteq In("pending")
    /\ Cardinality(S) <= owed
    /\ Move(S, "lost")
    /\ owed' = 0
    /\ UNCHANGED warnings

\* A restart loses everything pending, and requests not yet logged.
Restart(S) ==
    /\ S \subseteq In("none")
    /\ Move(S \cup In("pending"), "lost")
    /\ warnings' = 0
    /\ owed' = 0

LedgerNext ==
    \/ \E e \in Event : Accept(e) \/ Refuse(e) \/ Store(e) \/ Displace(e)
    \/ \E later \in BOOLEAN : Warn(later)
    \/ \E S \in SUBSET Event : Settle(S) \/ Restart(S)

LedgerSpec == LedgerInit /\ [][LedgerNext]_ledgerVars
=============================================================================
