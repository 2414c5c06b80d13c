SPECIFICATION Spec
CONSTANTS
    SuiteLists <- FlagsLists
    Tests <- FlagsTests
    Words <- FlagsWords
    Worlds <- FlagsWorlds
INVARIANTS TakesBackOnlyExcused
