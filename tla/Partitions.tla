----------------------------- MODULE Partitions ------------------------------
(***************************************************************************)
(* RunPartition (internal/jobs/partition.go): every day the API process    *)
(* makes the partitions of usage_events for this month and for the month   *)
(* that AddDate(0, 1, 0) finds, while rows arrive.  A row of a month       *)
(* without a partition goes to usage_events_default                        *)
(* (db/migrations/010), and Postgres refuses to make the partition of a    *)
(* month that has rows there.                                              *)
(***************************************************************************)
EXTENDS Integers, Sequences

CONSTANTS
    MaxMonth,  \* bound: months that are entered
    Length,    \* [1 .. MaxMonth + 1 -> days of the month]
    MaxFaults  \* bound: failed statements and crashes

Month == 1 .. MaxMonth + 2

ASSUME CalendarAssumption ==
    /\ MaxMonth \in Nat \ {0} /\ MaxFaults \in Nat
    /\ Length \in [1 .. MaxMonth + 1 -> Nat \ {0}]

VARIABLES
    month, day,
    parts,      \* months that have a partition
    stray,      \* months that have rows in the default partition
    job,        \* the process and its partition job
    due,        \* the job has not begun today
    faults,
    ran         \* history: [month -> the first day on which the job ran to its
                \* end, without a failed statement, before midnight; 0 if none]

partVars == <<month, day, parts, stray, job, due, faults, ran>>

Stopped == [at |-> "down"]
Asleep == [at |-> "asleep"]

PartTypeOK ==
    /\ month \in 1 .. MaxMonth /\ day \in 1 .. Length[month]
    /\ parts \subseteq Month /\ stray \subseteq 1 .. MaxMonth
    /\ job \in {Stopped, Asleep} \cup [at : {"create"}, todo : Seq(Month), clean : BOOLEAN]
    /\ job.at = "create" => Len(job.todo) \in {1, 2}
    /\ due \in BOOLEAN
    /\ faults \in 0 .. MaxFaults
    /\ ran \in [1 .. MaxMonth -> Nat]

\* The process starts on some day.
PartInit ==
    /\ month = 1 /\ day \in 1 .. Length[1]
    /\ parts = {} /\ stray = {}
    /\ job = Asleep /\ due = TRUE
    /\ faults = 0
    /\ ran = [m \in 1 .. MaxMonth |-> 0]

-----------------------------------------------------------------------------
\* AddDate(0, 1, 0): a day that the next month lacks is one of the month after.
AddMonth(m, d) == IF d <= Length[m + 1] THEN m + 1 ELSE m + 2

\* A deviation used by PROJECT.json only: the next month is not looked after.
TargetsNow(m, d) == <<m, m>>

\* The times for which RunPartition calls ensurePartition, on a day.
Targets(m, d) == <<m, AddMonth(m, d)>>

RunStarts ==
    /\ job = Asleep /\ due
    /\ job' = [at |-> "create", todo |-> Targets(month, day), clean |-> TRUE]
    /\ due' = FALSE
    /\ UNCHANGED <<month, day, parts, stray, faults, ran>>

\* The job is done with a month; "ok" says that the statement did not fail.
NextTarget(ok) ==
    LET clean == job.clean /\ ok IN
    IF Tail(job.todo) # <<>>
    THEN /\ job' = [at |-> "create", todo |-> Tail(job.todo), clean |-> clean]
         /\ UNCHANGED ran
    ELSE /\ job' = Asleep
         /\ ran' = IF clean /\ ran[month] = 0 THEN [ran EXCEPT ![month] = day] ELSE ran

\* ensurePartition of the next month in the loop.  An error is only logged.
EnsurePartition ==
    /\ job.at = "create"
    /\ LET t == Head(job.todo) IN
       \/ /\ parts' = IF t \in stray THEN parts ELSE parts \cup {t}
          /\ NextTarget(TRUE)
          /\ UNCHANGED faults
       \/ /\ faults < MaxFaults /\ faults' = faults + 1
          /\ NextTarget(FALSE)
          /\ UNCHANGED parts
    /\ UNCHANGED <<month, day, stray, due>>

\* writeUsageEvent: created_at is now.
InsertRow ==
    /\ month \notin parts
    /\ stray' = stray \cup {month}
    /\ UNCHANGED <<month, day, parts, job, due, faults, ran>>

\* The ticker of a process that is up has its tick within the day.
NextDay ==
    /\ job # Stopped => ~due
    /\ IF day < Length[month] THEN day' = day + 1 /\ UNCHANGED month
       ELSE month < MaxMonth /\ month' = month + 1 /\ day' = 1
    /\ due' = TRUE
    /\ job' = IF job.at = "create" THEN [job EXCEPT !.clean = FALSE] ELSE job
    /\ UNCHANGED <<parts, stray, faults, ran>>

KillJob ==
    /\ job # Stopped
    /\ faults < MaxFaults /\ faults' = faults + 1
    /\ job' = Stopped
    /\ UNCHANGED <<month, day, parts, stray, due, ran>>

StartJob ==
    /\ job = Stopped
    /\ job' = Asleep
    /\ due' = TRUE
    /\ UNCHANGED <<month, day, parts, stray, faults, ran>>

PartNext == RunStarts \/ EnsurePartition \/ InsertRow \/ NextDay

-----------------------------------------------------------------------------
(***************************************************************************)
(* Properties.                                                             *)
(***************************************************************************)
\* A day of the month before on which the job ran, and which this month has too.
RanInTime == month > 1 /\ ran[month - 1] \in 1 .. Length[month]

\* "The partition job creates named partitions before month start"
\* (db/migrations/010_usage_events_index_and_default_partition.sql:9): if the job
\* ran to its end on one day of the month before that is not beyond the end of
\* this month, then no row of this month is ever in the default partition, where
\* it would keep the partition from being made for good, whatever failed or was
\* killed before that run and after it, the turn of the month included
\* (internal/jobs/partition.go:14-22).
MadeInTime == RanInTime => month \in parts /\ month \notin stray
=============================================================================
