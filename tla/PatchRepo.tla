----------------------------- MODULE PatchRepo ------------------------------
(***************************************************************************)
(* patchrepo, removepatch and getpatchlist of bin/aomp_common_vars as the   *)
(* component build scripts use them (bin/build_rocr.sh is the pattern):     *)
(* every invocation patches the component's repository first, then builds,  *)
(* and an invocation with the argument "install" reverses the patches after *)
(* it has installed.  The working tree survives failures and kills, and     *)
(* clone_aomp.sh stashes local changes before it pulls.                     *)
(*                                                                         *)
(* A region is what one patch changes in one file, a tree has a version     *)
(* number per region.  A patch rewrites its regions from one version to     *)
(* another; patch goes from file to file, so a kill or a failure leaves each *)
(* region as it was or as it shall be.                                      *)
(***************************************************************************)
EXTENDS Integers, Sequences

CONSTANTS
    Regions,       \* the regions of the source tree the patches touch
    PatchList,     \* the repository's line of the patch control file
    From, To,      \* From[p], To[p]: functions from regions of p to versions
    MissingSets,   \* sets of patches whose file may be missing in bin/patches
    Upstreams,     \* contents the upstream branch may have
    FirstUpstream, \* its content when the repository was cloned
    ApplyPatches,  \* AOMP_APPLY_ROCM_PATCHES == 1
    MaxFaults      \* bound: kills, failing builds and failing patch commands

Patches == {PatchList[n] : n \in 1..Len(PatchList)}
Written(side) == UNION {{side[p][r] : r \in DOMAIN side[p]} : p \in Patches}
VersionNumbers == {u[r] : u \in Upstreams, r \in Regions} \cup Written(From) \cup Written(To)

ASSUME PatchAssumption ==
    /\ PatchList \in Seq(STRING)
    /\ \A p \in Patches : DOMAIN From[p] = DOMAIN To[p] /\ DOMAIN To[p] \subseteq Regions
    /\ \A p \in Patches : \A r \in DOMAIN To[p] : From[p][r] # To[p][r]
    /\ {} \in MissingSets /\ MissingSets \subseteq SUBSET Patches
    /\ FirstUpstream \in Upstreams
    /\ Upstreams \subseteq [Regions -> VersionNumbers]
    /\ ApplyPatches \in BOOLEAN /\ MaxFaults \in Nat

VARIABLES
    tree,      \* the working tree
    upstream,  \* HEAD of the branch the tree has checked out
    missing,   \* the listed patches without a file
    step,      \* "idle", "patch", "build", "install" or "unpatch"
    mode,      \* "build" or "install"
    next,      \* position of the next patch in the list
    status,    \* exit status of the last invocation
    cut,       \* history: patches whose last rewriting failed or was killed,
               \* and which have not been pulled over since
    faults

vars == <<tree, upstream, missing, step, mode, next, status, cut, faults>>

Running == -1
Killed == 137
Steps == {"idle", "patch", "build", "install", "unpatch"}

Init ==
    /\ tree = FirstUpstream /\ upstream = FirstUpstream /\ missing = {}
    /\ step = "idle" /\ mode = "build" /\ next = 1
    /\ status = 0 /\ cut = {} /\ faults = 0

\* getpatchlist, and the guard both functions start with.
Listed == IF ApplyPatches THEN PatchList ELSE <<>>
This == Listed[next]

Touched(p) == DOMAIN To[p]
AppliesForward(p) == \A r \in Touched(p) : tree[r] = From[p][r]
AppliesReverse(p) == \A r \in Touched(p) : tree[r] = To[p][r]

\* patch -R --dry-run -t: a file that looks unreversed is checked forward, so
\* each file may be on either side.
PassesReverseTest(p) == \A r \in Touched(p) : tree[r] \in {From[p][r], To[p][r]}

\* tree with the regions in R of patch p rewritten to the versions of side.
Rewrite(side, p, R) == [r \in Regions |-> IF r \in R THEN side[p][r] ELSE tree[r]]

Exit(rc) == step' = "idle" /\ status' = rc /\ UNCHANGED mode

\* Mutant: the loop starts one before the first patch.
InvokeFromZero ==
    /\ step = "idle"
    /\ mode' \in {"build", "install"}
    /\ step' = "patch" /\ next' = 0 /\ status' = Running
    /\ UNCHANGED <<tree, upstream, missing, cut, faults>>

Invoke ==
    /\ step = "idle"
    /\ mode' \in {"build", "install"}
    /\ step' = "patch" /\ next' = 1 /\ status' = Running
    /\ UNCHANGED <<tree, upstream, missing, cut, faults>>

-----------------------------------------------------------------------------
(* patchrepo                                                               *)

PatchStep == step = "patch" /\ next <= Len(Listed)

PatchFileMissing ==
    /\ PatchStep /\ This \in missing
    /\ Exit(1)
    /\ UNCHANGED <<tree, upstream, missing, next, cut, faults>>

Appliable == PatchStep /\ This \notin missing /\ AppliesForward(This)

ApplyPatch ==
    /\ Appliable
    /\ tree' = Rewrite(To, This, Touched(This))
    /\ next' = next + 1 /\ cut' = cut \ {This}
    /\ UNCHANGED <<upstream, missing, step, mode, status, faults>>

\* Mutant: whatever does not apply is taken for applied.
SkipUnlessForward ==
    /\ PatchStep /\ This \notin missing
    /\ ~AppliesForward(This)
    /\ next' = next + 1
    /\ UNCHANGED <<tree, upstream, missing, step, mode, status, cut, faults>>

\* A torn tree counts as patched, too.
AlreadyApplied ==
    /\ PatchStep /\ This \notin missing
    /\ ~AppliesForward(This) /\ PassesReverseTest(This)
    /\ next' = next + 1
    /\ UNCHANGED <<tree, upstream, missing, step, mode, status, cut, faults>>

\* Mutant: there is no test whether the patch is already in.
RefuseUnlessForward ==
    /\ PatchStep /\ This \notin missing
    /\ ~AppliesForward(This)
    /\ Exit(1)
    /\ UNCHANGED <<tree, upstream, missing, next, cut, faults>>

WillNotApply ==
    /\ PatchStep /\ This \notin missing
    /\ ~AppliesForward(This) /\ ~PassesReverseTest(This)
    /\ Exit(1)
    /\ UNCHANGED <<tree, upstream, missing, next, cut, faults>>

PatchDone ==
    /\ step = "patch" /\ next > Len(Listed)
    /\ step' = "build"
    /\ UNCHANGED <<tree, upstream, missing, mode, next, status, cut, faults>>

-----------------------------------------------------------------------------
(* The build script.                                                       *)

\* cmake and make.
Build ==
    /\ step = "build"
    /\ IF mode = "install" THEN step' = "install" /\ UNCHANGED <<mode, status>>
                           ELSE Exit(0)
    /\ UNCHANGED <<tree, upstream, missing, next, cut, faults>>

\* Mutant: the first patch of the list is never reversed.
InstallForgetsFirst ==
    /\ step = "install"
    /\ step' = "unpatch" /\ next' = 2
    /\ UNCHANGED <<tree, upstream, missing, mode, status, cut, faults>>

Install ==
    /\ step = "install"
    /\ step' = "unpatch" /\ next' = 1
    /\ UNCHANGED <<tree, upstream, missing, mode, status, cut, faults>>

\* removepatch walks the list in the order patchrepo does.  Its test has -f
\* instead of -t: every file must be patched.
UnpatchStep == step = "unpatch" /\ next <= Len(Listed)
Reversible == UnpatchStep /\ This \notin missing /\ AppliesReverse(This)

ReversePatch ==
    /\ Reversible
    /\ tree' = Rewrite(From, This, Touched(This))
    /\ next' = next + 1 /\ cut' = cut \ {This}
    /\ UNCHANGED <<upstream, missing, step, mode, status, faults>>

\* No file, or not reversible: the loop goes on.
PassOver ==
    /\ UnpatchStep /\ ~Reversible
    /\ next' = next + 1
    /\ UNCHANGED <<tree, upstream, missing, step, mode, status, cut, faults>>

UnpatchDone ==
    /\ step = "unpatch" /\ next > Len(Listed)
    /\ Exit(0)
    /\ UNCHANGED <<tree, upstream, missing, next, cut, faults>>

-----------------------------------------------------------------------------
(* Faults.                                                                 *)

AFault == step # "idle" /\ faults < MaxFaults /\ faults' = faults + 1

\* Some regions of the patch in work are rewritten, some are not.
CutShort ==
    /\ \/ Appliable /\ \E R \in SUBSET Touched(This) \ {Touched(This)} :
                           tree' = Rewrite(To, This, R)
       \/ Reversible /\ \E R \in SUBSET Touched(This) \ {Touched(This)} :
                           tree' = Rewrite(From, This, R)
    /\ cut' = cut \cup {This}

\* patch passes its dry run and then cannot write a file: its status is not
\* tested and the script goes on.
PatchCommandFails ==
    /\ AFault /\ CutShort
    /\ next' = next + 1
    /\ UNCHANGED <<upstream, missing, step, mode, status>>

\* cmake, make or make install fails.
BuildFails ==
    /\ AFault /\ step \in {"build", "install"}
    /\ Exit(1)
    /\ UNCHANGED <<tree, upstream, missing, next, cut>>

Kill ==
    /\ AFault
    /\ Exit(Killed)
    /\ CutShort \/ UNCHANGED <<tree, cut>>
    /\ UNCHANGED <<upstream, missing, next>>

Fault == PatchCommandFails \/ BuildFails \/ Kill

-----------------------------------------------------------------------------
(* What happens between two invocations.                                   *)

\* Mutant: local changes are not stashed and survive the pull.
PullWithoutStash ==
    /\ step = "idle"
    /\ upstream' \in Upstreams
    /\ tree' = [r \in Regions |-> IF tree[r] # upstream[r] THEN tree[r]
                                                         ELSE upstream'[r]]
    /\ cut' = {}
    /\ UNCHANGED <<missing, step, mode, next, status, faults>>

\* clone_aomp.sh on an existing clone: git stash -u, git pull.
Pull ==
    /\ step = "idle"
    /\ upstream' \in Upstreams
    /\ tree' = upstream' /\ cut' = {}
    /\ UNCHANGED <<missing, step, mode, next, status, faults>>

\* A pull of the aomp repository itself may bring or drop patch files.
PullAomp ==
    /\ step = "idle"
    /\ missing' \in MissingSets
    /\ UNCHANGED <<tree, upstream, step, mode, next, status, cut, faults>>

ScriptStep ==
    \/ PatchFileMissing \/ ApplyPatch \/ AlreadyApplied \/ WillNotApply
    \/ PatchDone \/ Build \/ Install \/ ReversePatch \/ PassOver \/ UnpatchDone

Next == Invoke \/ ScriptStep \/ Fault \/ Pull \/ PullAomp

Spec == Init /\ [][Next]_vars

\* Scripts end; the developer installs and pulls from time to time.
FairSpec ==
    /\ Spec
    /\ WF_vars(ScriptStep)
    /\ SF_vars(Invoke /\ mode' = "install")
    /\ SF_vars(Pull)

-----------------------------------------------------------------------------
(* Properties.                                                             *)

TypeOK ==
    /\ tree \in [Regions -> VersionNumbers]
    /\ upstream \in Upstreams /\ missing \in MissingSets
    /\ step \in Steps /\ mode \in {"build", "install"}
    /\ next \in 1..(Len(Listed) + 1)
    /\ status \in {Running, 0, 1, Killed}
    /\ cut \subseteq Patches
    /\ faults \in 0..MaxFaults

\* Upstream still has what p expects, has taken p over, or has taken over some
\* of its files.
Merged(p) == \A r \in Touched(p) : upstream[r] = To[p][r]
Fits(p) == Merged(p) \/ \A r \in Touched(p) : upstream[r] = From[p][r]
HalfMerged(p) ==
    ~Fits(p) /\ \A r \in Touched(p) : upstream[r] \in {From[p][r], To[p][r]}

\* What is compiled and installed contains every listed patch completely, except
\* one whose rewriting was cut short since the last pull and one upstream has
\* taken over in part; those pass the test for "already applied".  Text that is
\* neither the patch's old nor its new version is never compiled.
BuildsPatched ==
    step \in {"build", "install"} =>
        \A n \in 1..Len(Listed) :
            \/ AppliesReverse(Listed[n])
            \/ /\ Listed[n] \in cut \/ HalfMerged(Listed[n])
               /\ PassesReverseTest(Listed[n])

\* "The build script with install reverses the patch after successful
\* installation": the tree is back at the checked-out commit.
CleanAfterInstall ==
    step = "idle" /\ mode = "install" /\ status = 0 => tree = upstream

\* It is back except for the patches upstream has taken over and those whose
\* rewriting was cut short since the last pull, whatever pulls, builds and
\* changes of the patch files came before.
CleanUnlessMerged ==
    step = "idle" /\ mode = "install" /\ status = 0 =>
        \A r \in Regions :
            \/ tree[r] = upstream[r]
            \/ \E p \in Patches : r \in Touched(p) /\ (Merged(p) \/ p \in cut)

\* Neither a build that left the tree patched nor a kill or failure that tore it
\* locks the developer out: patchrepo refuses a patch only when its file is
\* missing or upstream has text the patch does not know.
RefusesOnlyAtOdds ==
    [][step = "patch" /\ status' = 1 =>
          \/ This \in missing
          \/ \E r \in Touched(This) :
                upstream[r] \notin {From[This][r], To[This][r]}]_vars

\* However a tree was torn, pulling and installing gets a completely patched
\* tree installed again and again, once the patch files are there and upstream
\* fits them.
PullRecovers ==
    <>[](missing = {} /\ \A p \in Patches : Fits(p)) =>
        []<>(step = "install" /\ \A n \in 1..Len(Listed) : AppliesReverse(Listed[n]))
=============================================================================
