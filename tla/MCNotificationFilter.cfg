CONSTANTS
    Notices = {1, 2}
    NoticePage = 1
    Attempts = 2
    NoticeActs = 3
SPECIFICATION NoticeSpec
INVARIANTS ListIsOfItsFilter
CHECK_DEADLOCK FALSE
