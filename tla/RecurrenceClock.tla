--------------------------- MODULE RecurrenceClock ---------------------------
(***************************************************************************)
(* The dates of one recurring task: which date each occurrence is created  *)
(* for, and when.  Handlers are atomic here (RecurringTasks interleaves    *)
(* them); what matters is the arithmetic of syncRecurringTaskSchedule,     *)
(* enqueue and setTimeout, and a process that may sleep through dates.     *)
(*                                                                         *)
(* A cron expression is the set of dates it matches.  A tick of the clock  *)
(* is far longer than the millisecond setTimeout falls back to.            *)
(***************************************************************************)
EXTENDS Naturals, FiniteSets

CONSTANTS
    Crons,     \* cron expressions
    Dates,     \* Dates[c]: the dates cron expression c matches
    MaxDelay,  \* the longest delay setTimeout can wait (2^31 - 1 ms)
    MaxTime,   \* bound on the clock
    NoCron,    \* recurring = null
    None       \* no date, no timer

ASSUME ClockConstants ==
    /\ Dates \in [Crons -> SUBSET Nat]
    /\ MaxDelay \in Nat
    /\ MaxTime \in Nat
    /\ NoCron \notin Crons
    /\ None \notin Nat

AllDates == UNION {Dates[c] : c \in Crons}

VARIABLES
    now,
    recurring,          \* the row's cron
    recurringJobId,     \* whether the row names a run
    recurringNextDate,  \* the date that run is for
    timer,              \* when the armed timer fires
    created,            \* created[d]: occurrences created for date d
    since               \* when the recurrence was last set (history)

vars == <<now, recurring, recurringJobId, recurringNextDate, timer, created, since>>

TypeOK ==
    /\ now \in 0..MaxTime
    /\ recurring \in Crons \cup {NoCron}
    /\ recurringJobId \in BOOLEAN
    /\ recurringNextDate \in AllDates \cup {None}
    /\ timer \in Nat \cup {None}
    /\ created \in [AllDates -> Nat]
    /\ since \in 0..MaxTime

Init ==
    /\ now = 0
    /\ recurring = NoCron
    /\ recurringJobId = FALSE
    /\ recurringNextDate = None
    /\ timer = None
    /\ created = [d \in AllDates |-> 0]
    /\ since = 0

-----------------------------------------------------------------------------
Later(c, ref) == {d \in Dates[c] : d > ref}

\* getNextTaskRecurrenceDate: the first matching date strictly after ref.
NextDate(c, ref) ==
    CHOOSE d \in Later(c, ref) : \A e \in Later(c, ref) : d <= e

\* resolveDelayMs: a date in the past is a delay of 0.
Delay(date) == IF date > now THEN date - now ELSE 0

\* setTimeout: a delay that does not fit in 31 bits becomes 1 ms.
FiresAt(date) == IF Delay(date) > MaxDelay THEN now ELSE now + Delay(date)

\* Mutant of Sync: the reference date itself matches again.
SyncSameDate(c, ref) ==
    IF Later(c, ref) # {}
    THEN /\ recurringNextDate' = IF ref \in Dates[c] THEN ref ELSE NextDate(c, ref)
         /\ timer' = FiresAt(recurringNextDate')
         /\ recurringJobId' = TRUE
    ELSE /\ timer' = None
         /\ UNCHANGED <<recurringJobId, recurringNextDate>>

\* Mutant of Sync: the run is enqueued without its delay.
SyncAtOnce(c, ref) ==
    IF Later(c, ref) # {}
    THEN /\ timer' = now
         /\ recurringJobId' = TRUE
         /\ recurringNextDate' = NextDate(c, ref)
    ELSE /\ timer' = None
         /\ UNCHANGED <<recurringJobId, recurringNextDate>>

\* Mutant of Sync: nothing is armed when the row already names a run.
SyncReadsRow(c, ref) ==
    IF Later(c, ref) # {} /\ (timer = None => ~recurringJobId)
    THEN /\ timer' = FiresAt(NextDate(c, ref))
         /\ recurringJobId' = TRUE
         /\ recurringNextDate' = NextDate(c, ref)
    ELSE /\ timer' = None
         /\ UNCHANGED <<recurringJobId, recurringNextDate>>

\* syncRecurringTaskSchedule for cron c, the old timer being cancelled or fired.
\* A cron with no further date throws after the cancel: the row keeps its old link.
Sync(c, ref) ==
    IF Later(c, ref) # {}
    THEN /\ timer' = FiresAt(NextDate(c, ref))
         /\ recurringJobId' = TRUE
         /\ recurringNextDate' = NextDate(c, ref)
    ELSE /\ timer' = None
         /\ UNCHANGED <<recurringJobId, recurringNextDate>>

-----------------------------------------------------------------------------
\* tasks.create or tasks.update with a new cron, or one whose run is missing.
SetRecurrence(c) ==
    /\ recurring # c \/ ~recurringJobId
    /\ recurring' = c
    /\ since' = now
    /\ Sync(c, now)
    /\ UNCHANGED <<now, created>>

\* tasks.update with recurring = null.
ClearRecurrence ==
    /\ recurring # NoCron
    /\ recurring' = NoCron
    /\ recurringJobId' = FALSE
    /\ recurringNextDate' = None
    /\ timer' = None
    /\ UNCHANGED <<now, created, since>>

\* Mutant of Run: the reference date is the time of the run.
RunFromNow ==
    /\ timer # None
    /\ timer <= now
    /\ created' = [created EXCEPT ![recurringNextDate] = @ + 1]
    /\ Sync(recurring, now)
    /\ UNCHANGED <<now, recurring, since>>

\* The timer fires and create-recurring-task-job runs.
Run ==
    /\ timer # None
    /\ timer <= now
    /\ created' = [created EXCEPT ![recurringNextDate] = @ + 1]
    /\ Sync(recurring, recurringNextDate)
    /\ UNCHANGED <<now, recurring, since>>

\* Time passes; a sleeping or busy process may let a timer be late.
Tick ==
    /\ now < MaxTime
    /\ now' = now + 1
    /\ UNCHANGED <<recurring, recurringJobId, recurringNextDate, timer, created, since>>

Next == (\E c \in Crons : SetRecurrence(c)) \/ ClearRecurrence \/ Run \/ Tick

Spec == Init /\ [][Next]_vars

-----------------------------------------------------------------------------
\* An occurrence is created on or after the date it is for, never before
\* (syncRecurringTaskSchedule delays the run until nextDate).
NeverEarly == \A d \in AllDates : created[d] > 0 => d <= now

\* No date gets two occurrences, however late the process is, however often the
\* user changes the recurrence to and fro.
NeverTwice == \A d \in AllDates : created[d] <= 1

\* A process that slept catches up: since the recurrence was set, no date the
\* schedule has passed is skipped.
NoneSkipped ==
    recurring # NoCron /\ timer # None =>
        \A d \in Dates[recurring] :
            since < d /\ d < recurringNextDate => created[d] >= 1

\* A change that fails half-way (a cron that never matches throws after the old
\* timer is cancelled) does not keep a later one from arming its timer.
ArmedWhileRecurring ==
    recurring # NoCron /\ Later(recurring, MaxTime) # {} => timer # None
=============================================================================
