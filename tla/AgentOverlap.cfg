SPECIFICATION FairSpec
CONSTANTS
    Jobs = {j1, j2}
    Team = Team
    NoTeam = NoTeam
    Recent = 2
    ChatPage = 3
    Faults = {"context", "starting", "tools", "model", "timeout", "closing", "catch", "restart"}
    MaxRemarks = 1
INVARIANT NoSilentLoss
INVARIANT ExecutingHasOwner
INVARIANT AnswersItsTrigger
PROPERTY RunEnds
CHECK_DEADLOCK FALSE
