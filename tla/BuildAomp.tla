----------------------------- MODULE BuildAomp ------------------------------
(***************************************************************************)
(* bin/build_aomp.sh, the master build script, and the component scripts it *)
(* calls: build_project.sh in detail, the others by the frame they share    *)
(* (FRESH START, cmake, make, install).  Each component is compiled by the  *)
(* compiler that the component "project" has installed; a build directory   *)
(* keeps objects from one invocation to the next unless a FRESH START       *)
(* erases it.  build_project.sh also writes the commit into CommandLine.cpp *)
(* before it compiles and takes it back after a successful install.         *)
(* Modelled: the standalone build (AOMP_STANDALONE_BUILD=1).                *)
(***************************************************************************)
EXTENDS Integers, Sequences, FiniteSets

CONSTANTS
    Order,       \* $components: the default list
    Selections,  \* lists a user gives to select
    Modes,       \* arguments a user passes on to the component scripts
    MaxCommit,   \* bound: how far the repositories move
    MaxFaults    \* bound: failed commands and kills

Components == {Order[i] : i \in DOMAIN Order}
None == 0
Commits == 1..MaxCommit
AllModes == {"fresh", "cmake", "nocmake", "install"}

ASSUME BuildAssumption ==
    /\ Order \in Seq(STRING)
    /\ \A i, j \in DOMAIN Order : Order[i] = Order[j] => i = j
    /\ "project" \in Components
    /\ \A i \in DOMAIN Order : Order[i] = "project" =>
          \A j \in 1..(i - 1) : Order[j] = "prereq"
    /\ Selections \subseteq Seq(Components)
    /\ Modes \subseteq AllModes
    /\ MaxCommit \in Nat \ {0} /\ MaxFaults \in Nat

VARIABLES
    head,     \* commit of the checked-out repositories
    banner,   \* the commit written into CommandLine.cpp, or None
    temp,     \* $TEMPCLFILE, likewise
    build,    \* the build directories
    inst,     \* what $AOMP_INSTALL_DIR holds of each component
    aomp,     \* $AOMP: absent, a link to $AOMP_INSTALL_DIR, or a directory
    request,  \* components and script arguments of the invocation
    pos, arg, \* position in the two
    step, status, faults,
    missing   \* history: first component of Order that was not up to date
              \* when the invocation began

sources == <<head, banner>>
disk == <<build, inst, aomp>>
control == <<request, pos, arg, missing>>
vars == <<head, banner, temp, build, inst, aomp, request, pos, arg, step,
          status, faults, missing>>

Steps == {"idle", "begin", "prepare", "banner", "cmake", "make", "install",
          "unlink", "link", "restore"}
Running == -1
Killed == 130

\* A build directory: absent, there, or with the result of a whole make; the
\* commit it was made from; what compiled its objects: the compilers (named by
\* the commit they were built from), for "project" the banner in CommandLine.o.
Trees == [state : {"none", "dir", "made"}, commit : Commits \cup {None},
          by : SUBSET (Commits \cup {None})]
NoTree == [state |-> "none", commit |-> None, by |-> {}]
EmptyTree == [NoTree EXCEPT !.state = "dir"]

\* What is installed: a made tree, or "torn" by an install that did not finish.
Torn == [NoTree EXCEPT !.state = "dir"]

NoRequest == [list |-> <<>>, args |-> <<>>]

Init ==
    /\ head = 1 /\ banner = None /\ temp = None
    /\ build = [c \in Components |-> NoTree]
    /\ inst = [c \in Components |-> NoTree]
    /\ aomp \in {"absent", "directory"}
    /\ request = NoRequest /\ pos = 1 /\ arg = 1
    /\ step = "idle" /\ status = 0 /\ faults = 0 /\ missing = 1

This == request.list[pos]
Arg == request.args[arg]
IsProject == This = "project"
Fresh == Arg \in {"fresh", "cmake"}

\* The compiler in $AOMP_INSTALL_DIR: that of a commit, or a torn one.
Compiler == inst["project"].commit
NoCompiler == inst["project"].state = "none"

\* "prereq" aside, the component is installed, from the checked-out commit, compiled by the
\* compiler of that commit only (and that compiler says so and is linked).
UpToDate(c) ==
    /\ c # "prereq" => inst[c] = [state |-> "made", commit |-> head, by |-> {head}]
    /\ c = "project" => aomp = "link"

FirstMissing ==
    CHOOSE i \in 1..(Len(Order) + 1) :
        /\ i <= Len(Order) => ~UpToDate(Order[i])
        /\ \A j \in 1..(i - 1) : UpToDate(Order[j])

-----------------------------------------------------------------------------
(* Invocations.                                                            *)

From(i) == SubSeq(Order, i, Len(Order))
Driver == <<"fresh", "install">>

Start(list, args) ==
    /\ step = "idle"
    /\ \/ /\ list = <<>>
          /\ status' = 0
          /\ UNCHANGED <<step, control>>
       \/ /\ list # <<>>
          /\ request' = [list |-> list, args |-> args] /\ pos' = 1 /\ arg' = 1
          /\ missing' = FirstMissing
          /\ step' = "begin" /\ status' = Running
    /\ UNCHANGED <<sources, temp, disk, faults>>

\* build_aomp.sh without arguments.
BuildAll == Start(Order, Driver)

\* build_aomp.sh continue c; an unknown c leaves an empty list.
Continue == \E i \in 1..(Len(Order) + 1) : Start(From(i), Driver)

\* build_aomp.sh select c ...
Select == \E list \in Selections : Start(list, Driver)

\* build_aomp.sh nocmake (install, cmake): passed on to each script.
PassOn == \E a \in Modes \ {"fresh"} : Start(Order, <<a>>)

\* build_project.sh (build_openmp.sh, ...) by hand.
ByHand == \E c \in Components, a \in Modes : Start(<<c>>, <<a>>)

\* Mutant: STASH_BEFORE_PULL=NO.
UpdateWithoutStash ==
    /\ step = "idle"
    /\ head' \in {head} \cup {c \in Commits : c = head + 1}
    /\ UNCHANGED <<banner, temp, disk, control, step, status, faults>>

\* clone_aomp.sh: local changes are stashed, new commits may arrive.
Update ==
    /\ step = "idle"
    /\ banner' = None
    /\ head' \in {head} \cup {c \in Commits : c = head + 1}
    /\ UNCHANGED <<temp, disk, control, step, status, faults>>

-----------------------------------------------------------------------------
(* A component script.  Its last step calls Exit.                          *)

Fault == faults < MaxFaults /\ faults' = faults + 1

\* The variables of the process end with it.
Exit(rc) ==
    /\ step' = "idle" /\ status' = rc
    /\ request' = NoRequest /\ pos' = 1 /\ arg' = 1 /\ missing' = 1

\* Mutant: one component too many.
DoneOffByOne ==
    \/ /\ arg < Len(request.args)
       /\ arg' = arg + 1 /\ step' = "begin"
       /\ UNCHANGED <<pos, request, missing, status>>
    \/ /\ arg = Len(request.args) /\ pos <= Len(request.list)
       /\ pos' = pos + 1 /\ arg' = 1 /\ step' = "begin"
       /\ UNCHANGED <<request, missing, status>>

\* The next script: the same component's install, the next component's build,
\* or the end of build_aomp.sh.
Done ==
    \/ /\ arg < Len(request.args)
       /\ arg' = arg + 1 /\ step' = "begin"
       /\ UNCHANGED <<pos, request, missing, status>>
    \/ /\ arg = Len(request.args) /\ pos < Len(request.list)
       /\ pos' = pos + 1 /\ arg' = 1 /\ step' = "begin"
       /\ UNCHANGED <<request, missing, status>>
    \/ /\ arg = Len(request.args) /\ pos = Len(request.list)
       /\ Exit(0)

Goto(s) == step' = s /\ UNCHANGED <<control, status>>

\* Mutant: -d follows the link that the first build has made.
RefusedOnceLinked ==
    \/ IsProject /\ aomp # "absent"
    \/ ~IsProject /\ This # "prereq" /\ NoCompiler
    \/ ~Fresh /\ This # "prereq" /\ build[This].state = "none"

\* Refused without a fault: $AOMP is a physical directory, there is no compiler,
\* or no build directory to continue in.
Refused ==
    \/ IsProject /\ aomp = "directory"
    \/ ~IsProject /\ This # "prereq" /\ NoCompiler
    \/ ~Fresh /\ This # "prereq" /\ build[This].state = "none"

\* build_prereq.sh builds what BuildSupp models, or has nothing to install.
Prereq ==
    /\ step = "begin" /\ This = "prereq"
    /\ \/ Done /\ UNCHANGED faults
       \/ Arg # "install" /\ Fault /\ Exit(1)
    /\ UNCHANGED <<sources, temp, disk>>

\* Access test, and for "project" the banner: sed finds the pristine line only.
Begin ==
    /\ step = "begin" /\ This # "prereq"
    /\ \/ Refused /\ Exit(1) /\ UNCHANGED <<temp, faults>>
       \/ Fault /\ Exit(1) /\ UNCHANGED temp
       \/ /\ ~Refused
          /\ temp' = IF IsProject /\ banner = None THEN head ELSE banner
          /\ Goto("prepare") /\ UNCHANGED faults
    /\ UNCHANGED <<sources, disk>>

\* Mutant: an existing build directory is kept.
PrepareKeepsObjects ==
    /\ step = "prepare"
    /\ build' = IF Fresh /\ build[This].state = "none"
                THEN [build EXCEPT ![This] = EmptyTree] ELSE build
    /\ Goto(IF IsProject THEN "banner" ELSE IF Fresh THEN "cmake" ELSE "make")
    /\ UNCHANGED <<sources, temp, inst, aomp, faults>>

\* FRESH START, unless nocmake or install was given.
Prepare ==
    /\ step = "prepare"
    /\ build' = IF Fresh THEN [build EXCEPT ![This] = EmptyTree] ELSE build
    /\ Goto(IF IsProject THEN "banner" ELSE IF Fresh THEN "cmake" ELSE "make")
    /\ UNCHANGED <<sources, temp, inst, aomp, faults>>

\* cp $TEMPCLFILE $BUILDCLFILE, if it differs; rm $TEMPCLFILE.  The status of the
\* cp is not tested; it is taken to succeed unless the script is killed.
Banner ==
    /\ step = "banner"
    /\ banner' = temp /\ temp' = None
    /\ Goto(IF Fresh THEN "cmake" ELSE "make")
    /\ UNCHANGED <<head, disk, faults>>

Cmake ==
    /\ step = "cmake"
    /\ \/ UNCHANGED faults /\ IF Arg = "cmake" THEN Done ELSE Goto("make")
       \/ Fault /\ Exit(1)
    /\ UNCHANGED <<sources, temp, disk>>

\* Objects that are up to date are kept, whichever compiler made them; those of
\* a changed source are made anew, CommandLine.o whenever the file was written.
CompiledBy ==
    IF IsProject THEN {banner}
    ELSE IF build[This].state = "made" /\ build[This].commit = head
      THEN build[This].by
      ELSE build[This].by \cup {Compiler}

Make ==
    /\ step = "make"
    /\ build' = [build EXCEPT ![This] =
                    [state |-> "made", commit |-> head, by |-> CompiledBy]]
    /\ IF Arg = "install" THEN Goto("install") ELSE Done
    /\ UNCHANGED <<sources, temp, inst, aomp, faults>>

\* The compilation stops halfway: some objects are there.
Halfway ==
    build' = [build EXCEPT ![This] =
                 [state |-> "dir", commit |-> None, by |-> CompiledBy]]

\* Mutant: the exit status of the script is that of a later echo.
MakeFailsUnseen ==
    /\ step = "make" /\ Fault
    /\ Halfway /\ Done
    /\ UNCHANGED <<sources, temp, inst, aomp>>

MakeFails ==
    /\ step = "make"
    /\ Fault \/ (~IsProject /\ inst["project"].state = "dir" /\ UNCHANGED faults)
    /\ Halfway /\ Exit(1)
    /\ UNCHANGED <<sources, temp, inst, aomp>>

Install ==
    /\ step = "install"
    /\ \/ /\ inst' = [inst EXCEPT ![This] = build[This]]
          /\ IF IsProject THEN Goto("unlink") ELSE Done
          /\ UNCHANGED faults
       \/ /\ inst' = [inst EXCEPT ![This] = Torn]
          /\ Fault /\ Exit(1)
    /\ UNCHANGED <<sources, temp, build, aomp>>

\* rm $AOMP; ln -sf $AOMP_INSTALL_DIR $AOMP.  Their status is not tested either;
\* after an install into the same place they are taken to succeed.
Unlink ==
    /\ step = "unlink"
    /\ aomp' = "absent" /\ Goto("link")
    /\ UNCHANGED <<sources, temp, build, inst, faults>>

Link ==
    /\ step = "link"
    /\ aomp' = "link" /\ Goto("restore")
    /\ UNCHANGED <<sources, temp, build, inst, faults>>

\* git checkout llvm/lib/Support/CommandLine.cpp, whose exit status is not tested.
Restore ==
    /\ step = "restore"
    /\ \/ banner' = None /\ UNCHANGED faults
       \/ Fault /\ UNCHANGED banner
    /\ Done
    /\ UNCHANGED <<head, temp, disk>>

\* Killed; a make or an install leaves what it has done so far.  $TEMPCLFILE is
\* named after the process: no other one reads it.
Kill ==
    /\ step # "idle" /\ Fault /\ Exit(Killed) /\ temp' = None
    /\ \/ step = "make" /\ Halfway /\ UNCHANGED inst
       \/ step = "install" /\ inst' = [inst EXCEPT ![This] = Torn] /\ UNCHANGED build
       \/ UNCHANGED <<build, inst>>
    /\ UNCHANGED <<sources, aomp>>

ScriptStep ==
    \/ Prereq \/ Begin \/ Prepare \/ Banner \/ Cmake \/ Make \/ MakeFails
    \/ Install \/ Unlink \/ Link \/ Restore

Next ==
    \/ BuildAll \/ Continue \/ Select \/ PassOn \/ ByHand \/ Update
    \/ ScriptStep \/ Kill

Spec == Init /\ [][Next]_vars

\* Scripts end; the developer repeats the full build from time to time.
FairSpec == Spec /\ WF_vars(ScriptStep) /\ SF_vars(BuildAll)

-----------------------------------------------------------------------------
(* Properties.                                                             *)

TypeOK ==
    /\ head \in Commits
    /\ banner \in Commits \cup {None} /\ temp \in Commits \cup {None}
    /\ build \in [Components -> Trees] /\ inst \in [Components -> Trees]
    /\ aomp \in {"absent", "link", "directory"}
    /\ step \in Steps /\ status \in {Running, 0, 1, Killed}
    /\ faults \in 0..MaxFaults
    /\ missing \in 1..(Len(Order) + 1)
    /\ step # "idle" => /\ pos \in 1..Len(request.list)
                        /\ arg \in 1..Len(request.args)

\* An exit status 0 of the full build, or of continue from the first component
\* that was missing (or an earlier one), means that every component is installed
\* from the checked-out commit and nothing in it was compiled by another
\* compiler, whatever earlier invocations, kills and updates left behind.
SuccessIsComplete ==
    [][/\ status = Running /\ status' = 0
       /\ request.args = Driver
       /\ \E i \in 1..missing : request.list = From(i)
       => \A c \in Components : UpToDate(c)']_vars

\* The "Source ID" an installed compiler prints is the commit it was built from.
BannerIsTrue ==
    inst["project"].state = "made" =>
        inst["project"].by = {inst["project"].commit}

\* "in the following order and stop if any fails occur": the full build installs
\* a component only after all those before it, built by the new compiler.
BuildsInOrder ==
    [][request.args = Driver /\ request.list = Order /\ inst' # inst =>
          \A i \in 1..(pos - 1) : UpToDate(Order[i])]_vars

\* However scripts run by hand leave the build directories and the installation,
\* repeating the full build completes it, unless $AOMP is a physical directory.
Completes == []<>(aomp = "directory" \/ \A c \in Components : UpToDate(c))
=============================================================================
