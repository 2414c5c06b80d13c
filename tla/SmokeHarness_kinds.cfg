SPECIFICATION FairSpec
CONSTANTS
    Dirs <- KindDirs
    SmokeDirs <- KindOrder
    Kind <- KindKind
    Unsupported <- KindUnsupported
    LibraryFirst <- KindLib
    Leftovers = {}
    GrepMatches <- KindGrep
    NrunFile <- KindNrun
    SmokeLrun = 1
    SmokeNrun = 1
    MaxNrun = 1
    JobThreads = 2
    RunJobs = 2
    Modes = {"plain"}
    NoFile = NoFile
    NoJob = NoJob
CHECK_DEADLOCK FALSE
INVARIANTS VerifiesOwnLog EveryRunReported
PROPERTIES ReportsUnlessRunHangs
