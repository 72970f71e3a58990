SPECIFICATION Spec
CONSTANTS
    a = a
    b = b
    c = c
    d = d
    Nodes = {a, b, c, d}
    Docs <- MCDags
    Workers = {w1, w2}
    None = None
    Faults = {"crash", "torn"}
    MaxFaults = 2
INVARIANT ResultsDurable
CHECK_DEADLOCK FALSE
