SPECIFICATION FairSpec
CONSTANTS
    Tasks = {t1}
    Runs = {r1, r2, r3, r4, r5}
    Crons = {c1, c2}
    Edits = {e1}
    NoCron = NoCron
    NoRun = NoRun
    NoTask = NoTask
    Unchanged = Unchanged
    Overlap = {"edit/run", "fire/link"}
    Faults = {"failure", "restart"}
    MaxFaults = 1
    MaxAlive = 1
PROPERTY StoppedTaskDrains
PROPERTY LastCronWins
CHECK_DEADLOCK FALSE
