---------------------------- MODULE MC_PatchRepo ----------------------------
(* Small instances of PatchRepo for TLC. *)
EXTENDS PatchRepo

Files == {"numa", "isa", "cmake", "docs"}
Commit(n) == [r \in Files |-> n]

\* Two patches without a common region, one of them over two files.
TwoPatches == <<"numa.patch", "rpath.patch">>
TwoFrom == [p \in Patches |-> IF p = "numa.patch" THEN [r \in {"numa", "isa"} |-> 1]
                                                 ELSE [r \in {"cmake"} |-> 1]]
TwoTo   == [p \in Patches |-> IF p = "numa.patch" THEN [r \in {"numa", "isa"} |-> 2]
                                                 ELSE [r \in {"cmake"} |-> 3]]
FirstCommit == Commit(1)
NoneMissing == {{}}
AnyMissing == SUBSET Patches

\* Upstream takes over a patch of the list.
MergedCommit == [Commit(1) EXCEPT !["numa"] = 2, !["isa"] = 2]
MergedCommits == {Commit(1), MergedCommit}

\* Upstream changes what no patch touches, takes over a patch, or half of it, or
\* conflicts with one.
AllCommits == MergedCommits \cup
    {[Commit(1) EXCEPT !["docs"] = 4], [Commit(1) EXCEPT !["numa"] = 2],
     [Commit(1) EXCEPT !["cmake"] = 5]}
=============================================================================
