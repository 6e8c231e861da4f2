CONSTANTS
    Gap = 2
    MinGap = 2
    Clients = {k1, k2}
    Tasks = {1, 2, 3, 4}
    A = A
    B = B
    Columns <- TwoColumns
    Unborn = Unborn
    Gone = Gone
    StartBoards <- TightPairs
    Offered = {"create", "move", "remove", "drop"}
    MaxRequests = 2
SPECIFICATION FairSpec
INVARIANTS
    TypeOK
    DistinctPositions
PROPERTIES
    ListsImplemented
    NeighboursAreKept
    EveryRequestEnds
CHECK_DEADLOCK FALSE
