SPECIFICATION FairSpec
CONSTANTS
    Dirs <- RerunDirs
    SmokeDirs <- RerunOrder
    Kind <- RerunKind
    Unsupported = {}
    LibraryFirst <- RerunLib
    Leftovers <- RerunDirs
    GrepMatches <- RerunGrep
    NrunFile <- RerunNrun
    SmokeLrun = 1
    SmokeNrun = 2
    MaxNrun = 2
    JobThreads = 2
    RunJobs = 2
    Modes <- AllModes
    NoFile = NoFile
    NoJob = NoJob
CHECK_DEADLOCK FALSE
INVARIANTS TypeOK StatusMatchesReport PhasesSeparate EveryRunReported
PROPERTIES IsResultBook GivesUpOnlyTimeouts
