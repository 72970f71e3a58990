SPECIFICATION RegimeSpec
CONSTANTS
    Tasks = {t1, t2}
    Runs = {r1, r2, r3, r4}
    Crons = {c1, c2}
    Edits = {e1, e2}
    NoCron = NoCron
    NoRun = NoRun
    NoTask = NoTask
    Unchanged = Unchanged
    Overlap = {}
    Faults = {}
    MaxFaults = 0
    MaxAlive = 2
    t1 = t1
    c1 = c1
INVARIANT SerialScheduleMatchesRow
INVARIANT OneChain
PROPERTY SerialKeepsRecurring
CHECK_DEADLOCK FALSE
