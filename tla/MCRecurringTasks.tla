-------------------------- MODULE MCRecurringTasks --------------------------
(* RecurringTasks on small sets; the ids of runs and requests are           *)
(* interchangeable, which the runs without temporal formulas use.          *)
EXTENDS RecurringTasks, TLC

Symmetry == Permutations(Runs) \cup Permutations(Edits) \cup Permutations(Crons)
=============================================================================
