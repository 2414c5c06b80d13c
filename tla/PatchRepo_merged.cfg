SPECIFICATION Spec
CONSTANTS
    Regions <- Files
    PatchList <- TwoPatches
    From <- TwoFrom
    To <- TwoTo
    MissingSets <- NoneMissing
    Upstreams <- MergedCommits
    FirstUpstream <- FirstCommit
    ApplyPatches = TRUE
    MaxFaults = 0
INVARIANT CleanAfterInstall
