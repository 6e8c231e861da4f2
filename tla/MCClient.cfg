CONSTANTS
    Limits <- MCLimits
    Deployments <- MCDeployments
    MaxCalls = 1
    MaxTurns = 1
    PanelTasks = {1, 2}
    PanelPage = 1
    PanelActs = 3
    Notices = {1, 2}
    NoticePage = 1
    Attempts = 2
    NoticeActs = 3
    Spaces = {1, 2}
    MaxSwitches = 1
SPECIFICATION ClientsSpec
INVARIANTS ClientsTypeOK GuestsOnlyRead ReadsStayHome MissingIsAnAnswer InvitationNotLost QueueIsOfActiveSpace
PROPERTIES PanelSettles BadgeSettles
CHECK_DEADLOCK FALSE
