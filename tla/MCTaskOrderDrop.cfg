CONSTANTS
    Gap = 2
    MinGap = 2
    Clients = {k1, k2}
    Tasks = {1, 2}
    A = A
    B = B
    Columns <- TwoColumns
    Unborn = Unborn
    Gone = Gone
    StartBoards <- OneEmpty
    Offered = {"create", "move", "remove", "drop"}
    MaxRequests = 2
SPECIFICATION Spec
PROPERTIES
    ColumnsLeaveEmpty
CHECK_DEADLOCK FALSE
