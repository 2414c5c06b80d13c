----------------------------- MODULE CloneAomp ------------------------------
(***************************************************************************)
(* bin/clone_aomp.sh: for every project line of a manifest, clone the       *)
(* repository or bring an existing clone up to date (git stash, git pull,   *)
(* git checkout, git pull), then check out a pinned hash.  The script is    *)
(* called again and again, while upstream moves, branches are deleted, the  *)
(* manifest changes (the aomp repository is pulled by hand) and developers  *)
(* edit their clones.  git itself is modelled by the exit status and the    *)
(* effect these commands have.                                              *)
(***************************************************************************)
EXTENDS Integers, Sequences, FiniteSetsExt

CONSTANTS
    Repos,       \* repositories the script clones, named by their path
    Branches,    \* names that are branches
    Tags,        \* names that are tags
    Hashes,      \* commit ids
    Missing,     \* those of them that upstream does not have (any more)
    Remotes,     \* remotes the script knows: roc, gerritgit, ...
    Manifests,   \* manifest files: sequences of project lines
    Options,     \* environments: IGNORE_GIT_ERROR and SINGLE_BRANCH
    MaxChanges,  \* bound: commits and branch deletions upstream
    MaxFaults,   \* bound: network failures and kills
    Edited,      \* bound: the repositories developers edit
    MaxEdits     \* bound: local changes in each of them

NoRef == "none"
Refs == Branches \cup Tags \cup Hashes

\* A project line: remote, path, and the attributes upstream and revision in
\* the order in which they stand in the line.
Attributes == {"upstream", "revision"} \X Refs
Lines == [remote : STRING, path : Repos \cup {"aomp"}, refs : Seq(Attributes)]

ASSUME CloneAssumption ==
    /\ NoRef \notin Refs
    /\ Branches \cap (Tags \cup Hashes) = {}
    /\ Missing \subseteq Hashes /\ Missing \cap Tags = {}
    /\ Manifests \subseteq Seq(Lines)
    /\ Options \subseteq [ignore : BOOLEAN, single : BOOLEAN]
    /\ Edited \subseteq Repos
    /\ \A n \in {MaxChanges, MaxFaults, MaxEdits} : n \in Nat

VARIABLES
    upstream,   \* upstream[r][b]: commits of the branch, 0 if there is none
    clone,      \* the local clones
    manifest,
    option,     \* environment of the invocation
    step, line, \* position in the script and in the manifest
    cobranch, coshakey,   \* COBRANCH, COSHAKEY
    status,
    changes, faults,
    before,     \* history: upstream when the invocation began
    good        \* history: the last invocation reported errors and exited with
                \* 0, and since its beginning the manifest is the same and no
                \* branch has been deleted

env == <<upstream, manifest, changes>>
parser == <<line, cobranch, coshakey>>
vars == <<upstream, clone, manifest, option, step, line, cobranch, coshakey,
          status, changes, faults, before, good>>

Steps == {"idle", "line", "clone", "stash", "pull", "checkout", "again", "pin"}
Running == -1
Killed == 137

\* A clone: what is checked out (HEAD is detached unless it is a branch), local
\* branches and remote-tracking branches with their commits, whether there are
\* uncommitted changes, and how many were stashed.
Commits == 0..(MaxChanges + 1)
NoBranches == [b \in Branches |-> 0]
NoClone == [state |-> "none", single |-> FALSE, cur |-> NoRef,
            local |-> NoBranches, tracked |-> NoBranches,
            dirty |-> FALSE, stashed |-> 0]

NoOption == [ignore |-> FALSE, single |-> FALSE]

Init ==
    /\ upstream = [r \in Repos |-> [b \in Branches |-> 1]]
    /\ clone = [r \in Repos |-> NoClone]
    /\ manifest \in Manifests
    /\ option = NoOption
    /\ step = "idle" /\ line = 1 /\ cobranch = NoRef /\ coshakey = NoRef
    /\ status = 0 /\ changes = 0 /\ faults = 0
    /\ before = [r \in Repos |-> NoBranches] /\ good = FALSE

This == manifest[line]
Repo == This.path
Clone == clone[Repo]

-----------------------------------------------------------------------------
(* Parsing a line.                                                         *)

\* The loop over the fields keeps the last one of each kind: a revision is a pin
\* only after an upstream; COBRANCH keeps its value from the line before when there
\* is neither.
LastField(refs, I, default) == IF I = {} THEN default ELSE refs[Max(I)][2]
Parse(refs, branch) ==
    LET Pins == {i \in DOMAIN refs :
                    /\ refs[i][1] = "revision"
                    /\ \E j \in 1..(i - 1) : refs[j][1] = "upstream"}
    IN [branch |-> LastField(refs, DOMAIN refs \ Pins, branch),
        key    |-> LastField(refs, Pins, NoRef)]

\* The lines the script acts on.
IsGood(l) == l.remote \in Remotes /\ l.path # "aomp"

NextLine == step' = "line" /\ line' = line + 1

ReadLine ==
    /\ step = "line" /\ line <= Len(manifest)
    /\ LET p == Parse(This.refs, cobranch) IN
         cobranch' = p.branch /\ coshakey' = p.key
    /\ \/ ~IsGood(This) /\ NextLine
       \/ /\ IsGood(This) /\ line' = line
          /\ step' = IF Clone.state = "none" THEN "clone" ELSE "stash"
    /\ UNCHANGED <<env, clone, option, status, faults, before, good>>

\* The variables of the process end with it.
Exit(rc) ==
    /\ step' = "idle" /\ status' = rc /\ line' = 1
    /\ cobranch' = NoRef /\ coshakey' = NoRef
    /\ option' = NoOption /\ before' = [r \in Repos |-> NoBranches]

\* exit $rc, with an rc nobody has set.
AllDone ==
    /\ step = "line" /\ line > Len(manifest)
    /\ Exit(0)
    /\ good' = (~option.ignore /\ \A r \in Repos, b \in Branches :
                                   before[r][b] # 0 => upstream[r][b] # 0)
    /\ UNCHANGED <<env, clone, faults>>

-----------------------------------------------------------------------------
(* clone_or_pull.                                                          *)

SetClone(c) == clone' = [clone EXCEPT ![Repo] = c]
Detached(c) == c.cur \notin Branches

\* git fetch: every branch of upstream, or the only one of a single-branch
\* clone; branches that are gone stay (there is no prune).
Fetched(c) ==
    [b \in Branches |->
        IF upstream[Repo][b] # 0 /\ (c.single => c.tracked[b] # 0)
        THEN upstream[Repo][b] ELSE c.tracked[b]]

\* git pull fetches, and fails on a detached HEAD or when the upstream of the
\* current branch is gone.
PullWorks(c) ==
    c.state = "cloned" /\ ~Detached(c) /\ upstream[Repo][c.cur] # 0

Pulled(c) ==
    IF c.state # "cloned" THEN c
    ELSE IF PullWorks(c)
      THEN [c EXCEPT !.tracked = Fetched(c), !.local[c.cur] = upstream[Repo][c.cur]]
      ELSE [c EXCEPT !.tracked = Fetched(c)]

\* git checkout of a branch creates it from its remote-tracking branch; tags and
\* the hashes that upstream has are missing from a shallow clone only.
CheckoutWorks(c, ref) ==
    /\ c.state = "cloned"
    /\ \/ ref \in Branches /\ (c.local[ref] # 0 \/ c.tracked[ref] # 0)
       \/ ref \in (Tags \cup Hashes) \ Missing /\ (c.single => c.cur = ref)

\* Mutant: git checkout origin/$COBRANCH.
CheckedOutRemote(c, ref) == [c EXCEPT !.cur = NoRef]

CheckedOut(c, ref) ==
    IF ref \in Branches /\ c.local[ref] = 0
    THEN [c EXCEPT !.cur = ref, !.local[ref] = c.tracked[ref]]
    ELSE [c EXCEPT !.cur = ref]

Fault == faults < MaxFaults /\ faults' = faults + 1

Succeeded(next) ==
    step' = next /\ UNCHANGED <<option, parser, status, before, good>>

\* The exit status of a git command is tested, unless IGNORE_GIT_ERROR=1.
Failed(next) ==
    \/ option.ignore /\ Succeeded(next)
    \/ ~option.ignore /\ Exit(1) /\ good' = FALSE

\* Mutant: the stash is applied again at once.
StashAndApply ==
    /\ step = "stash"
    /\ SetClone(IF Clone.dirty THEN [Clone EXCEPT !.stashed = @ + 1] ELSE Clone)
    /\ Succeeded("pull")
    /\ UNCHANGED <<env, faults>>

\* Mutant: git checkout . instead of git stash.
StashDrops ==
    /\ step = "stash"
    /\ SetClone([Clone EXCEPT !.dirty = FALSE])
    /\ Succeeded("pull")
    /\ UNCHANGED <<env, faults>>

\* git stash -u (STASH_BEFORE_PULL is YES by default).
Stash ==
    /\ step = "stash"
    /\ SetClone(IF Clone.dirty
                THEN [Clone EXCEPT !.dirty = FALSE, !.stashed = @ + 1] ELSE Clone)
    /\ Succeeded("pull")
    /\ UNCHANGED <<env, faults>>

GitPull(next) ==
    \/ /\ SetClone(Pulled(Clone)) /\ UNCHANGED faults
       /\ IF PullWorks(Clone) THEN Succeeded(next) ELSE Failed(next)
    \/ Fault /\ UNCHANGED clone /\ Failed(next)

Pull ==
    /\ step = "pull" /\ GitPull("checkout")
    /\ UNCHANGED env

\* Mutant: an existing clone stays on its branch.
CheckoutSkipped ==
    /\ step = "checkout"
    /\ Succeeded("again")
    /\ UNCHANGED <<env, clone, faults>>

Checkout ==
    /\ step = "checkout"
    /\ \/ /\ CheckoutWorks(Clone, cobranch)
          /\ SetClone(CheckedOut(Clone, cobranch)) /\ Succeeded("again")
       \/ /\ ~CheckoutWorks(Clone, cobranch)
          /\ Failed("again") /\ UNCHANGED clone
    /\ UNCHANGED <<env, faults>>

\* Mutant: one git pull is thought to be enough.
PullOnce ==
    /\ step = "again" /\ Succeeded("pin")
    /\ UNCHANGED <<env, clone, faults>>

PullAgain ==
    /\ step = "again" /\ GitPull("pin")
    /\ UNCHANGED env

\* git clone -b $COBRANCH; the clone fails without IGNORE_GIT_ERROR being asked.
NewClone ==
    LET here == IF option.single THEN {cobranch} ELSE Branches
        heads == [b \in Branches |-> IF b \in here THEN upstream[Repo][b] ELSE 0]
    IN [NoClone EXCEPT
          !.state = "cloned", !.single = option.single, !.cur = cobranch,
          !.tracked = heads,
          !.local = [b \in Branches |-> IF b = cobranch THEN heads[b] ELSE 0]]

CloneFails(rc) == Exit(rc) /\ good' = FALSE

GitClone ==
    /\ step = "clone"
    /\ \/ /\ cobranch \in Tags \/ (cobranch \in Branches /\ upstream[Repo][cobranch] # 0)
          /\ SetClone(NewClone) /\ Succeeded("pin") /\ UNCHANGED faults
       \/ /\ ~(cobranch \in Tags \/ (cobranch \in Branches /\ upstream[Repo][cobranch] # 0))
          /\ CloneFails(1) /\ UNCHANGED <<clone, faults>>
       \/ Fault /\ CloneFails(1) /\ UNCHANGED clone
    /\ UNCHANGED env

\* git checkout $COSHAKEY, whose exit status is not tested: without the hash the
\* clone stays on the branch.
Pin ==
    /\ step = "pin"
    /\ SetClone(IF coshakey # NoRef /\ CheckoutWorks(Clone, coshakey)
                THEN CheckedOut(Clone, coshakey) ELSE Clone)
    /\ NextLine
    /\ UNCHANGED <<env, option, cobranch, coshakey, status, faults, before, good>>

\* Killed; a git clone that dies leaves a directory that is no repository.
Kill ==
    /\ step # "idle" /\ Fault
    /\ CloneFails(Killed)
    /\ \/ step = "clone" /\ SetClone([NoClone EXCEPT !.state = "partial"])
       \/ UNCHANGED clone
    /\ UNCHANGED env

-----------------------------------------------------------------------------
(* The world around the script.                                            *)

Invoke ==
    /\ step = "idle"
    /\ step' = "line" /\ status' = Running
    /\ option' \in Options
    /\ before' = upstream
    /\ UNCHANGED <<env, clone, parser, faults, good>>

Commit ==
    /\ changes < MaxChanges
    /\ \E r \in Repos, b \in Branches :
         /\ upstream[r][b] # 0
         /\ upstream' = [upstream EXCEPT ![r][b] = @ + 1]
    /\ changes' = changes + 1
    /\ UNCHANGED <<clone, manifest, option, step, parser, status, faults, before, good>>

DeleteBranch ==
    /\ changes < MaxChanges
    /\ \E r \in Repos, b \in Branches :
         upstream[r][b] # 0 /\ upstream' = [upstream EXCEPT ![r][b] = 0]
    /\ changes' = changes + 1 /\ good' = FALSE
    /\ UNCHANGED <<clone, manifest, option, step, parser, status, faults, before>>

\* git pull in the aomp repository: another manifest.
PullAomp ==
    /\ step = "idle"
    /\ manifest' \in Manifests \ {manifest} /\ good' = FALSE
    /\ UNCHANGED <<upstream, clone, option, step, parser, status, changes, faults, before>>

Work(c) == c.stashed + (IF c.dirty THEN 1 ELSE 0)

UserEdits ==
    /\ step = "idle"
    /\ \E r \in Edited :
         /\ clone[r].state = "cloned" /\ Work(clone[r]) < MaxEdits
         /\ ~clone[r].dirty
         /\ clone' = [clone EXCEPT ![r].dirty = TRUE]
    /\ UNCHANGED <<env, option, step, parser, status, faults, before, good>>

\* A directory git can do nothing with is removed by hand.
UserRemoves ==
    /\ step = "idle"
    /\ \E r \in Repos :
         /\ clone[r].state = "partial"
         /\ clone' = [clone EXCEPT ![r] = NoClone]
    /\ UNCHANGED <<env, option, step, parser, status, faults, before, good>>

ScriptStep ==
    \/ ReadLine \/ AllDone \/ Stash \/ Pull \/ Checkout \/ PullAgain
    \/ GitClone \/ Pin

Next ==
    \/ ScriptStep \/ Kill
    \/ Invoke \/ Commit \/ DeleteBranch \/ PullAomp \/ UserEdits \/ UserRemoves

Spec == Init /\ [][Next]_vars

\* Scripts end; the developer calls the script from time to time, with its errors
\* reported, and removes what a killed git clone has left.
FairSpec ==
    /\ Spec
    /\ WF_vars(ScriptStep)
    /\ SF_vars(Invoke /\ ~option'.ignore)
    /\ SF_vars(UserRemoves)

-----------------------------------------------------------------------------
(* Properties.                                                             *)

TypeOK ==
    /\ upstream \in [Repos -> [Branches -> Commits]]
    /\ clone \in [Repos ->
          [state : {"none", "partial", "cloned"}, single : BOOLEAN,
           cur : Refs \cup {NoRef}, local : [Branches -> Commits],
           tracked : [Branches -> Commits], dirty : BOOLEAN, stashed : 0..MaxEdits]]
    /\ manifest \in Manifests /\ option \in Options \cup {NoOption}
    /\ step \in Steps /\ line \in 1..(Len(manifest) + 1)
    /\ cobranch \in Refs \cup {NoRef} /\ coshakey \in Refs \cup {NoRef}
    /\ status \in {Running, 0, 1, Killed}
    /\ changes \in 0..MaxChanges /\ faults \in 0..MaxFaults
    /\ step \in {"clone", "stash", "pull", "checkout", "again", "pin"} =>
          line <= Len(manifest)

\* The reference a line asks for by itself.
Wanted(l) ==
    LET p == Parse(l.refs, NoRef) IN IF p.key # NoRef THEN p.key ELSE p.branch
IsPinned(l) == Wanted(l) \notin Branches
Listed == {i \in 1..Len(manifest) : IsGood(manifest[i])}
Unpinned == \A i \in Listed : ~IsPinned(manifest[i])

\* Where it can bring the clone: a hash that upstream does not have is passed over.
Target(l) ==
    IF Wanted(l) \in Missing THEN Parse(l.refs, NoRef).branch ELSE Wanted(l)

\* "Subsequent calls will only pull the latest updates": status 0 means that every
\* listed repository is on the reference of its own line, a branch at least as new
\* as upstream was when the script began, in whatever state the clones were; where
\* the pinned hash is missing, which goes unnoticed, on the line's own branch, not
\* on that of another line or of an earlier manifest.
\* (A pinned hash is not there in a clone made with SINGLE_BRANCH=1.)
UpToDateOnSuccess ==
    [][status = Running /\ status' = 0 /\ ~option.ignore =>
          \A i \in Listed :
             LET l == manifest[i]
                 c == clone[l.path] IN
             \/ c.single /\ Wanted(l) \in Hashes
             \/ /\ c.cur = Target(l)
                /\ Target(l) \in Branches =>
                      c.local[c.cur] >= before[l.path][c.cur]]_vars

\* Uncommitted changes of a developer are in the clone or in its stash.
KeepsLocalWork ==
    [][\A r \in Repos : Work(clone'[r]) >= Work(clone[r])]_vars

\* Called again after a success, with the same manifest and the same branches, the
\* script succeeds unless the network or a kill stops it, also for a release
\* manifest.
SubsequentCallsPull ==
    [][good /\ status = Running /\ status' = 1 => faults' # faults]_vars

\* It does when the manifest names branches only, whatever happened before.
BranchesCanBePulled ==
    [][good /\ Unpinned /\ status = Running /\ status' = 1 => faults' # faults]_vars

\* The script can go on from a clone: all of it is there, and upstream still has
\* the branch it is on.
Pullable(r) ==
    clone[r].state = "cloned" =>
        ~clone[r].single /\ ~Detached(clone[r]) /\ upstream[r][clone[r].cur] # 0

\* Whatever faults, deletions and manifests came before, once the manifest names
\* existing branches and every clone is pullable, calling the script again and
\* again brings every repository to the newest commit.
Converges ==
    <>[](/\ Unpinned
         /\ \A i \in Listed : upstream[manifest[i].path][Wanted(manifest[i])] # 0
         /\ \A r \in Repos : Pullable(r)) =>
    []<>(\A i \in Listed :
            LET r == manifest[i].path
                b == Wanted(manifest[i]) IN
            clone[r].cur = b /\ (b \in Branches => clone[r].local[b] = upstream[r][b]))
=============================================================================
