SPECIFICATION Spec
CONSTANTS
    SuiteLists <- PlainLists
    Tests <- PlainTests
    Words <- PlainWords
    Worlds <- PlainWorlds
INVARIANTS TypeOK GreenIsClean RedHasReason TakesBackNoMore CountsOnce
