SPECIFICATION Spec
CONSTANTS
    Crons <- MCCrons
    Dates <- MCDates
    MaxDelay = 3
    MaxTime = 8
    NoCron = NoCron
    None = None
INVARIANT NeverEarly
CHECK_DEADLOCK FALSE
