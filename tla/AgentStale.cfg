SPECIFICATION FairSpec
CONSTANTS
    Jobs = {j1, j2}
    Team = Team
    NoTeam = NoTeam
    Recent = 2
    ChatPage = 3
    Faults = {}
    MaxRemarks = 0
PROPERTY StaleIsRefreshed
CHECK_DEADLOCK FALSE
