---------------------------- MODULE MC_CloneAomp ----------------------------
(* Small instances of CloneAomp for TLC: a project the script skips, and two *)
(* it clones, as in manifests/aomp_21.0.xml, aomp_20.0-2.xml (tags) and       *)
(* aomp_17.0-3.xml (a pinned hash).                                          *)
EXTENDS CloneAomp

Line(remote, path, refs) == [remote |-> remote, path |-> path, refs |-> refs]
Rev(b) == <<"revision", b>>

OnBranch(b) ==
    <<Line("roc", "llvm-project", <<Rev("amd-staging")>>),
      Line("roc", "aomp", <<Rev("amd-staging")>>),
      Line("roc", "clr", <<Rev(b)>>)>>

Release ==
    <<Line("roctools", "aomp", <<Rev("rel")>>),
      Line("roc", "llvm-project", <<<<"upstream", "amd-staging">>, Rev("c35e312")>>),
      Line("roc", "clr", <<Rev("amd-staging")>>)>>

\* The hash of the last line is gone, and its branch is not that of the line before.
Outdated ==
    <<Line("roc", "llvm-project", <<<<"upstream", "amd-staging">>, Rev("c35e312")>>),
      Line("roc", "clr", <<<<"upstream", "rocm-6.3.x">>, Rev("b43b3f4")>>)>>

Tagged == <<Line("roc", "clr", <<Rev("aomp-20.0-2")>>)>>

NewBranch == {OnBranch("amd-staging"), OnBranch("rocm-6.3.x")}
AllManifests == NewBranch \cup {Release, Outdated}
Releases == {Release, Tagged}

Env(ignore, single) == [ignore |-> ignore, single |-> single]
Plain == {Env(FALSE, FALSE)}
AnyOption == {Env(FALSE, FALSE), Env(TRUE, FALSE), Env(FALSE, TRUE)}
=============================================================================
