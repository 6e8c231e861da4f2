CONSTANTS
    Ids = {1, 2, 3, 4}
    Reach = 8
    Gap = 2
    MinGap = 2
    Editors = {k1, k2}
    ColumnIds = {1, 2, 3, 4, 5, 6, 7}
    StartColumns <- MCStartColumns
    Stages = 2
    ColumnOps = {"create", "defaults", "update", "remove", "move", "task", "drop", "found", "rename"}
    MaxColumnOps = 2
    Writers = {w1, w2}
    ListRows = {1, 2, 3, 4, 5, 6, 7}
    StartLists <- MCStartLists
    MaxChecklistOps = 2
    Agents = {a1, a2}
    People = {u1, u2}
    Admins = {u1}
    Labels = {l1}
    NoteIds = {1, 2, 3, 4}
    MaxLinkOps = 2
    TaskIds = {1, 2}
    BoardLanes = {"a", "b"}
    StartBoards <- MCStartBoards
    TaskPage = 1
    MaxActs = 2
SPECIFICATION BoardsSpec
INVARIANTS BoardsTypeOK ReadsBackAsAsked PositionsDistinct WatchersCatchUp BadgesCatchUp FeedMatchesRows LinksCatchUp BoardCatchesUp
PROPERTIES ColumnsLandBeside MovesLandBehind EveryColumnRequestEnds JoinsAreAnswered
CHECK_DEADLOCK FALSE
