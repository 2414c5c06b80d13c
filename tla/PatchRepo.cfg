SPECIFICATION FairSpec
CONSTANTS
    Regions <- Files
    PatchList <- TwoPatches
    From <- TwoFrom
    To <- TwoTo
    MissingSets <- AnyMissing
    Upstreams <- AllCommits
    FirstUpstream <- FirstCommit
    ApplyPatches = TRUE
    MaxFaults = 3
INVARIANTS TypeOK BuildsPatched CleanUnlessMerged
PROPERTIES RefusesOnlyAtOdds PullRecovers
