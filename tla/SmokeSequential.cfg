SPECIFICATION FairSpec
CONSTANTS
    Dirs <- AllDirs
    SmokeDirs <- AllOrder
    Kind <- AllKind
    Unsupported <- AllUnsupported
    LibraryFirst <- AllLib
    NoPrereq <- AllNoPrereq
    Leftovers <- AllDirs
    FlagOptions = 2
    NrunFile <- AllNrun
    Environments <- AllEnvironments
    KeepResults = FALSE
    NoFile = NoFile
CHECK_DEADLOCK FALSE
INVARIANTS TypeOK OneLinePerRound TimeoutsNotRerun
PROPERTIES IsResultBook GivesUpOnlyTimeouts EndsUnlessRunHangs
