SPECIFICATION ServicesSpec
CONSTANTS
    a = a
    b = b
    c = c
    d = d
    e1 = e1
    e2 = e2
    e3 = e3
    e4 = e4
    e5 = e5
    k1 = k1
    k2 = k2
    x = x
    y = y
    Crons <- MCCrons
    Dates <- MCDates
    MaxDelay = 10
    MaxTime = 8
    NoCron = NoCron
    None = None
    DecisionIds = {1}
    Texts = {x}
    DecisionStates = {"accepted", "proposed"}
    EmbedModels = {1, 2}
    Writers = {w1, w2}
    MaxWrites = 3
    MaxFailures = 1
    NoWork = NoWork
    s1 = s1
    s2 = s2
    Subscribers = {s1, s2}
    Kinds = {k1, k2}
    Interest <- MCInterest
    QueueSize = 2
    MaxPublished = 3
    NodeOrder <- MCOrder
    Plans <- MCPlans
    NoNode = NoNode
    Rows = {r1, r2}
    MaxAttempts = 2
    MaxTrouble = 1
    EventIds = {e1, e2, e3, e4, e5}
    Catalogs <- MCCatalogs
    MaxRestarts = 2
    Jobs = {j1, j2, j3}
    Drainers = {w1, w2}
    NoJob = NoJob
    MaxCrashes = 1
    ContractNodes = {a, b, c, d}
    Documents <- MCDocuments
INVARIANT NeverEarly
INVARIANT NeverTwice
INVARIANT NoneSkipped
INVARIANT ArmedWhileRecurring
INVARIANT ServicesTypeOK
INVARIANT ChainWalkable
INVARIANT NoSilentGap
INVARIANT RowsConserved
INVARIANT ParityHolds
INVARIANT EventLogDense
INVARIANT ReplayIsLive
INVARIANT InFlightOwned
INVARIANT EffectOnce
INVARIANT VerdictExact
INVARIANT BusKeepsItsWord
PROPERTY VersionsKept
PROPERTY SameSequence
PROPERTY ExecutesPlan
PROPERTY PlanFinishes
PROPERTY AcceptedIsStored
PROPERTY QueuedIsClaimed
CHECK_DEADLOCK FALSE
