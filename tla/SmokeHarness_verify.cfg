SPECIFICATION Spec
CONSTANTS
    Dirs <- VerifyDirs
    SmokeDirs <- VerifyOrder
    Kind <- VerifyKind
    Unsupported = {}
    LibraryFirst = {}
    Leftovers = {}
    GrepMatches <- VerifyGrep
    NrunFile <- VerifyNrun
    SmokeLrun = 1
    SmokeNrun = 1
    MaxNrun = 1
    JobThreads = 2
    RunJobs = 2
    Modes = {"plain"}
    NoFile = NoFile
    NoJob = NoJob
CHECK_DEADLOCK FALSE
INVARIANT VerifyRunsReported
