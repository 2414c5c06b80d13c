SPECIFICATION Spec
CONSTANTS
    Repos = {"llvm-project", "clr"}
    Branches = {"amd-staging", "rocm-6.3.x"}
    Tags = {"aomp-20.0-2", "rel"}
    Hashes = {"c35e312", "b43b3f4"}
    Missing = {"b43b3f4"}
    Remotes = {"roc", "gerritgit", "hwloc", "githubemu-lightning"}
    Manifests <- Releases
    Options <- Plain
    MaxChanges = 0
    MaxFaults = 0
    Edited = {}
    MaxEdits = 0
PROPERTIES SubsequentCallsPull
