CONSTANTS
    Scanners = {s1, s2}
    DueTasks = {1, 2}
    Assignees = {u1}
    Window = 1
    PageSize = 1
    Attempts = 2
    LastTick = 2
    MaxFaults = 1
    MaxDueEdits = 2
    Visitors = {"v1", "v2", "v3"}
    Lanes = {"l1"}
    DayTicks = 2
    WeekDays = 1
    ThroughputDays = 2
    ActivityDays = {0, 1, 2}
    NoticeDays = 1
    RowBatch = 1
    MaxBatches = 2
    CleanupAttempts = 2
    StartHistory <- MCHistory
    StartOddments <- MCOddments
    LastHour = 2
    MaxDeeds = 1
    MaxSweepFaults = 1
    Inviters = {"a1", "a2"}
    Addresses = {"e1"}
    InviteRoles = {"MEMBER", "ADMIN"}
    InviteIds = {1, 2}
    SmtpHost = TRUE
    Lifetime = 1
    LastInviteTick = 1
    MaxInviteFaults = 1
    MaxOffers = 2
    Files = {f1, f2}
    BackupInterval = 0
    BackupKeep = 0
    DumpTime = 0
    MinGrace = 2
    UploadTime = 1
    BatchSize = 1
    Ceiling = 1
    AcksLost = FALSE
    BackupsFail = TRUE
    MaxCrashes = 1
    Exports <- MCExports
    ChunkSize = 2
    Spacing = 1
    MaxImports = 2
    Persons = {"p", "q"}
    TeamOwners = {"p"}
    StartRemarks <- MCRemarks
    RedactionPage = 1
    RemarkIds = {3}
    MaxErasureActs = 3
    Teams = {t1, t2}
    Mates = {m1}
    MaxStirs = 2
SPECIFICATION ServicesSpec
INVARIANTS ServicesTypeOK RemindersSpaced OffersAreAsRecorded RowsHaveBytes ImportsAreWhole EveryTeamIsSettled
PROPERTIES SweepKeepsFigures OrphansAreSwept RedactionMissesNone EveryErasureEnds
CHECK_DEADLOCK FALSE
