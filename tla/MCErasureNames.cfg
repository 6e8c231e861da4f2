CONSTANTS
    Persons = {"p", "q"}
    TeamOwners = {"r"}
    StartRemarks <- MCTwoNames
    RedactionPage = 2
    RemarkIds = {}
    MaxErasureActs = 2
SPECIFICATION ErasureSpec
INVARIANTS NamesStayGone
CHECK_DEADLOCK FALSE
