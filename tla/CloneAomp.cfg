SPECIFICATION FairSpec
CONSTANTS
    Repos = {"llvm-project", "clr"}
    Branches = {"amd-staging", "rocm-6.3.x"}
    Tags = {"aomp-20.0-2", "rel"}
    Hashes = {"c35e312", "b43b3f4"}
    Missing = {"b43b3f4"}
    Remotes = {"roc", "gerritgit", "hwloc", "githubemu-lightning"}
    Manifests <- AllManifests
    Options <- AnyOption
    MaxChanges = 1
    MaxFaults = 1
    Edited = {"clr"}
    MaxEdits = 2
INVARIANTS TypeOK
PROPERTIES UpToDateOnSuccess KeepsLocalWork BranchesCanBePulled Converges
