SPECIFICATION FairSpec
CONSTANTS
    a = a
    b = b
    c = c
    d = d
    Nodes = {a, b, c, d}
    Docs <- MCEdited
    Workers = {w1, w2}
    None = None
    Faults = {"crash", "append", "sink", "torn", "edit"}
    MaxFaults = 2
INVARIANT ReturnedComplete
PROPERTY RunFinishes
CHECK_DEADLOCK FALSE
