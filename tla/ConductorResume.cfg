SPECIFICATION Spec
CONSTANTS
    a = a
    b = b
    c = c
    d = d
    Nodes = {a, b, c, d}
    Docs <- MCDags
    Workers = {w1, w2, w3}
    None = None
    Faults = {"crash", "append", "sink"}
    MaxFaults = 2
SYMMETRY Symmetry
INVARIANT ResultsDurable
INVARIANT NeverRedispatched
INVARIANT DispatchedAfterDeps
PROPERTY ExecutesDag
CHECK_DEADLOCK FALSE
