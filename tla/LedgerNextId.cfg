SPECIFICATION LedgerSpec
CONSTANTS
    DecisionIds = {1, 2}
    Texts = {x, y}
    DecisionStates = {"accepted", "proposed"}
    EmbedModels = {1}
    Writers = {w1}
    MaxWrites = 2
    MaxFailures = 1
    NoWork = NoWork
INVARIANT NextIdFree
CHECK_DEADLOCK FALSE
