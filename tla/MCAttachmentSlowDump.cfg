CONSTANTS
    Files = {f1, f2}
    BackupInterval = 1
    BackupKeep = 2
    DumpTime = 1
    MinGrace = 2
    UploadTime = 0
    BatchSize = 2
    Ceiling = 4
    AcksLost = FALSE
    BackupsFail = FALSE
    MaxCrashes = 0
SPECIFICATION Spec
SYMMETRY AlikeFiles
PROPERTIES
    NoKeptDumpDisowns
CHECK_DEADLOCK FALSE
