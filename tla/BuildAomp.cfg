SPECIFICATION FairSpec
CONSTANTS
    Order <- ThreeComponents
    Selections <- SomeSelections
    Modes = {"fresh", "cmake", "nocmake", "install"}
    MaxCommit = 2
    MaxFaults = 2
INVARIANTS TypeOK BannerIsTrue
PROPERTIES SuccessIsComplete BuildsInOrder Completes
