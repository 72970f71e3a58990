SPECIFICATION FairSpec
CONSTANTS
    Tasks = {t1}
    Runs = {r1, r2, r3, r4, r5}
    Crons = {c1}
    Edits = {e1}
    NoCron = NoCron
    NoRun = NoRun
    NoTask = NoTask
    Unchanged = Unchanged
    Overlap = {}
    Faults = {"restart"}
    MaxFaults = 1
    MaxAlive = 1
PROPERTY KeepsRecurring
CHECK_DEADLOCK FALSE
