------------------------ MODULE MCRecurringSchedules ------------------------
(***************************************************************************)
(* Two regimes of RecurringTasks in one state space.  Handlers of a task   *)
(* one after the other, on the constants of the configuration; or one      *)
(* task, t1, with one cron, whose requests overlap each other and whose    *)
(* timers fire before they are linked.  The regime never changes.          *)
(***************************************************************************)
EXTENDS MCRecurringTasks

CONSTANTS t1, c1

VARIABLE regime

Overlapping ==
    INSTANCE RecurringTasks WITH
        Overlap <- {"edit/edit", "fire/link"}, Crons <- {c1}, MaxAlive <- 1

regimeVars == <<vars, regime>>

RegimeInit == regime \in {"serial", "overlapping"} /\ Init

SerialStep == regime = "serial" /\ Next /\ UNCHANGED regime

OverlappingStep ==
    /\ regime = "overlapping"
    /\ Overlapping!Next
    /\ \A t \in Tasks \ {t1} : UNCHANGED task[t]
    /\ UNCHANGED regime

\* What the serial regime owes to the handlers it owes to the overlapping one,
\* whose guards are weaker.
RegimeSpec ==
    RegimeInit /\ [][SerialStep \/ OverlappingStep]_regimeVars /\ Fairness

-----------------------------------------------------------------------------
\* ScheduleMatchesRow, where handlers of one task do not overlap.
SerialScheduleMatchesRow == regime = "serial" => ScheduleMatchesRow

\* KeepsRecurring, where handlers of one task do not overlap.
SerialKeepsRecurring == (regime = "serial") => KeepsRecurring
=============================================================================
