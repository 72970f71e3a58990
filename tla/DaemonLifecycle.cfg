SPECIFICATION FairSpec
CONSTANTS
    Daemons = {d0, d1, d2}
    Legacy = {d0}
    Clients = {c1, c2}
    Nobody = Nobody
    Faults = {"kill", "hang", "upgrade", "idle", "launch"}
    MaxFaults = 2
INVARIANT HolderIsNamed
INVARIANT LoneEnsureSucceeds
PROPERTY ExitSparesOthers
PROPERTY EnsureReturns
CHECK_DEADLOCK FALSE
