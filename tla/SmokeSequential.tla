-------------------------- MODULE SmokeSequential ---------------------------
(***************************************************************************)
(* The sequential branch of test/smoke/check_smoke.sh, taken without        *)
(* AOMP_PARALLEL_SMOKE or without GNU parallel.  One process walks          *)
(* SMOKE_DIRS SMOKE_LRUN times; in every directory it makes and runs the    *)
(* test my_nrun times, reads the status file the recipes of Makefile.rules  *)
(* leave behind, and in the end it counts the result files and removes      *)
(* them.  What is hard here is what survives from one round of a loop to    *)
(* the next: status files, binaries that a failing make has removed, and    *)
(* three exits from the rerun loop.                                         *)
(***************************************************************************)
EXTENDS Integers, Sequences, FiniteSets, Functions

CONSTANTS
    Dirs,         \* test directory names
    SmokeDirs,    \* the sequence SMOKE_DIRS
    Kind,         \* how the if-chain of the loop treats each directory
    Unsupported,  \* tests whose recipes only print SKIP_... on this GPU
    LibraryFirst, \* tests whose plain `make` only builds a device library
    NoPrereq,     \* tests whose Makefile sets AOMP_NO_PREREQ
    FlagOptions,  \* number of lines of flags/options.txt
    Leftovers,    \* tests of which an earlier session left binary and status
    NrunFile,     \* content of the test's NRUN file, 0 if it has none
    Environments, \* what the script may find in its environment
    KeepResults,  \* EPSDB == 1 or CLEANUP == 0
    NoFile        \* a status file that does not exist

\* "missing": pushd fails.  "rocblas": hip_rocblas without an installed rocblas.
Kinds == {"check", "bundled", "verify", "visual", "flags", "gpus", "asan",
          "missing", "rocblas"}

Status == {0, 1, 124}

ASSUME ConstantsAssumption ==
    /\ IsFiniteSet(Dirs)
    /\ SmokeDirs \in Seq(Dirs)
    /\ \A m, n \in 1..Len(SmokeDirs) : SmokeDirs[m] = SmokeDirs[n] => m = n
    /\ Kind \in [Dirs -> Kinds]
    /\ \A s, t \in Dirs : Kind[s] = "flags" /\ Kind[t] = "flags" => s = t
    /\ Unsupported \subseteq Dirs
    /\ LibraryFirst \subseteq Dirs /\ NoPrereq \subseteq Dirs
    /\ Leftovers \subseteq Dirs
    /\ FlagOptions \in Nat \ {0}
    /\ NrunFile \in [Dirs -> Nat]
    /\ Environments \subseteq [skip : SUBSET Dirs, lrun : Nat, nrun : Nat,
                                sanitizer : BOOLEAN]
    /\ KeepResults \in BOOLEAN
    /\ \A e \in Environments : \A t \in Dirs \ e.skip :
          Kind[t] = "asan" => e.sanitizer
    /\ NoFile \notin Status

Phases == {"dir", "rerun", "target", "optmake", "optrun", "run", "verify",
           "check", "exec", "poll", "report", "cleanup", "done"}

VARIABLES
    env,                        \* skip_tests, SMOKE_LRUN, SMOKE_NRUN, AOMP_SANITIZER
    phase, at, lrun, run, opt,  \* the script's position in its loops
    built,                      \* the test binary exists
    testStatus, fcStatus,       \* TEST_STATUS, FILECHECK_STATUS
    passing, failing, makeFail, \* lines per test of the result files
    totals,                     \* what gatherdata has printed
    body,                       \* history: rounds of the rerun loop per test
    flagFails,                  \* history: options of flags that did not compile
    timedOut                    \* history: tests timed out in each list iteration

pos   == <<phase, at, lrun, run, opt>>
disk  == <<built, testStatus, fcStatus>>
book  == <<passing, failing, makeFail>>
hist  == <<body, flagFails, timedOut>>
vars  == <<env, phase, at, lrun, run, opt, built, testStatus, fcStatus, passing,
           failing, makeFail, totals, body, flagFails, timedOut>>

NoReport == [passing |-> -1, total |-> -1]

MyNrun(t) == IF env.nrun > 1 /\ NrunFile[t] > env.nrun
             THEN NrunFile[t] ELSE env.nrun

Init ==
    /\ env \in Environments
    /\ phase = "dir" /\ at = 1 /\ lrun = 0 /\ run = 0 /\ opt = 1
    /\ built = [t \in Dirs |-> t \in Leftovers]
    /\ testStatus = [t \in Dirs |-> IF t \in Leftovers THEN 124 ELSE NoFile]
    /\ fcStatus = [t \in Dirs |-> NoFile]
    /\ passing = [t \in Dirs |-> 0] /\ failing = passing /\ makeFail = passing
    /\ totals = NoReport
    /\ body = passing /\ flagFails = 0
    /\ timedOut = [l \in 0..(env.lrun - 1) |-> {}]

Dir == SmokeDirs[at]
Bump(file, t) == [file EXCEPT ![t] = @ + 1]

Goto(where) == phase' = where /\ UNCHANGED <<at, lrun, run, opt>>
NextDir     == phase' = "dir" /\ at' = at + 1 /\ UNCHANGED <<lrun, run, opt>>
NextRun     == phase' = "rerun" /\ run' = run + 1 /\ UNCHANGED <<at, lrun, opt>>

-----------------------------------------------------------------------------
(* The loops over lists and directories.                                   *)

InList == phase = "dir" /\ lrun < env.lrun /\ at <= Len(SmokeDirs)

DirMissing ==
    /\ InList /\ Kind[Dir] = "missing"
    /\ NextDir
    /\ UNCHANGED disk /\ UNCHANGED book /\ UNCHANGED hist /\ UNCHANGED totals

\* Mutant: the test directory is not cleaned in the first list iteration.
EnterDirty ==
    /\ InList /\ Kind[Dir] # "missing"
    /\ IF Dir \in env.skip \/ Kind[Dir] = "rocblas" THEN NextDir
       ELSE phase' = "rerun" /\ run' = 0 /\ UNCHANGED <<at, lrun, opt>>
    /\ UNCHANGED disk /\ UNCHANGED book /\ UNCHANGED hist /\ UNCHANGED totals

\* `make clean` in the first list iteration, then the skip list and the test
\* for rocblas, then the rerun loop.
EnterDir ==
    /\ InList /\ Kind[Dir] # "missing"
    /\ IF lrun = 0
       THEN /\ built' = [built EXCEPT ![Dir] = FALSE]
            /\ testStatus' = [testStatus EXCEPT ![Dir] = NoFile]
            /\ fcStatus' = [fcStatus EXCEPT ![Dir] = NoFile]
       ELSE UNCHANGED disk
    /\ IF Dir \in env.skip \/ Kind[Dir] = "rocblas" THEN NextDir
       ELSE phase' = "rerun" /\ run' = 0 /\ UNCHANGED <<at, lrun, opt>>
    /\ UNCHANGED book /\ UNCHANGED hist /\ UNCHANGED totals

\* Mutant: the next list iteration starts before the first directory.
NextListOffByOne ==
    /\ phase = "dir" /\ lrun < env.lrun /\ at > Len(SmokeDirs)
    /\ lrun' = lrun + 1 /\ at' = 0 /\ UNCHANGED <<phase, run, opt>>
    /\ UNCHANGED disk /\ UNCHANGED book /\ UNCHANGED hist /\ UNCHANGED totals

NextList ==
    /\ phase = "dir" /\ lrun < env.lrun /\ at > Len(SmokeDirs)
    /\ lrun' = lrun + 1 /\ at' = 1 /\ UNCHANGED <<phase, run, opt>>
    /\ UNCHANGED disk /\ UNCHANGED book /\ UNCHANGED hist /\ UNCHANGED totals

ListsDone ==
    /\ phase = "dir" /\ lrun >= env.lrun
    /\ Goto("report")
    /\ UNCHANGED disk /\ UNCHANGED book /\ UNCHANGED hist /\ UNCHANGED totals

RerunsDone ==
    /\ phase = "rerun" /\ run >= MyNrun(Dir)
    /\ NextDir
    /\ UNCHANGED disk /\ UNCHANGED book /\ UNCHANGED hist /\ UNCHANGED totals

-----------------------------------------------------------------------------
(* One round of the rerun loop: make.                                      *)

\* What one make of the binary may do; a failing compiler removes its output.
\* Unless the Makefile sets AOMP_NO_PREREQ the phony prerequisite has the
\* binary compiled anew each time.
MakeOutcomes ==
    IF Dir \in Unsupported THEN {[ok |-> TRUE, bin |-> built[Dir]]}
    ELSE IF built[Dir] /\ Dir \in NoPrereq THEN {[ok |-> TRUE, bin |-> TRUE]}
    ELSE {[ok |-> b, bin |-> b] : b \in BOOLEAN}

\* What a plain `make` may do: of a library-first test it leaves the binary.
PlainOutcomes ==
    IF Dir \in LibraryFirst THEN {[ok |-> b, bin |-> built[Dir]] : b \in BOOLEAN}
                            ELSE MakeOutcomes

Built(o) == built' = [built EXCEPT ![Dir] = o.bin]
             /\ UNCHANGED <<testStatus, fcStatus>>

MakeOk ==
    /\ phase = "rerun" /\ run < MyNrun(Dir) /\ Kind[Dir] # "flags"
    /\ \E o \in PlainOutcomes : o.ok /\ Built(o)
    /\ body' = Bump(body, Dir) /\ UNCHANGED <<flagFails, timedOut>>
    /\ Goto("target")
    /\ UNCHANGED book /\ UNCHANGED totals

\* Mutant: continue of the outer loop, without its increment.
MakeFailsRestarts ==
    /\ phase = "rerun" /\ run < MyNrun(Dir) /\ Kind[Dir] # "flags"
    /\ \E o \in PlainOutcomes : ~o.ok /\ Built(o)
    /\ Goto("dir")
    /\ UNCHANGED book /\ UNCHANGED hist /\ UNCHANGED totals

\* "Make Failed": the round is over, and so is the test if a timeout is on file.
MakeFails ==
    /\ phase = "rerun" /\ run < MyNrun(Dir) /\ Kind[Dir] # "flags"
    /\ \E o \in PlainOutcomes : ~o.ok /\ Built(o)
    /\ body' = Bump(body, Dir) /\ UNCHANGED <<flagFails, timedOut>>
    /\ makeFail' = Bump(makeFail, Dir) /\ UNCHANGED <<passing, failing>>
    /\ IF testStatus[Dir] = 124 THEN NextDir ELSE NextRun
    /\ UNCHANGED totals

-----------------------------------------------------------------------------
(* One round of the rerun loop: the if-chain over test names.              *)

Target ==
    /\ phase = "target"
    /\ Goto(CASE Kind[Dir] = "gpus" -> "poll"
              [] Kind[Dir] \in {"visual", "verify"} -> "run"
              [] OTHER -> "check")
    /\ passing' = IF Kind[Dir] = "gpus" THEN Bump(passing, Dir) ELSE passing
    /\ UNCHANGED <<failing, makeFail>>
    /\ UNCHANGED disk /\ UNCHANGED hist /\ UNCHANGED totals

\* `make run`, by itself (devices, stream) or as the prerequisite of verify-log.
\* It has no time limit.  The recipes run under `bash -o pipefail`: a test that
\* fails ends verify-log, and its exit status is ignored.
FreeRun ==
    /\ phase = "run"
    /\ \E o \in MakeOutcomes :
          /\ Built(o)
          /\ \E ok \in IF Dir \in Unsupported THEN {TRUE}
                       ELSE IF o.ok THEN BOOLEAN ELSE {FALSE} :
                Goto(CASE Kind[Dir] = "visual" -> "check"
                       [] Kind[Dir] = "verify" /\ ok  -> "verify"
                       [] Kind[Dir] = "verify" /\ ~ok -> "poll")
    /\ UNCHANGED book /\ UNCHANGED hist /\ UNCHANGED totals

\* verify_output is compiled and searches run.log.
Verify ==
    /\ phase = "verify"
    /\ \/ passing' = Bump(passing, Dir) /\ UNCHANGED <<failing, makeFail>>
       \/ failing' = Bump(failing, Dir) /\ UNCHANGED <<passing, makeFail>>
       \/ UNCHANGED book
    /\ Goto("poll")
    /\ UNCHANGED disk /\ UNCHANGED hist /\ UNCHANGED totals

\* The binary of `make check` or `make check-asan`.
CheckBuilds ==
    /\ phase = "check"
    /\ \E o \in MakeOutcomes : o.ok /\ Built(o)
    /\ Goto(IF Dir \in Unsupported THEN "poll" ELSE "exec")
    /\ UNCHANGED book /\ UNCHANGED hist /\ UNCHANGED totals

\* Only the plain and the liba_bundled branch look at the exit status; they
\* add a line and leave the loop if a timeout is on file.
CheckFails ==
    /\ phase = "check"
    /\ \E o \in MakeOutcomes : ~o.ok /\ Built(o)
    /\ IF Kind[Dir] \in {"check", "bundled"}
       THEN /\ makeFail' = Bump(makeFail, Dir)
            /\ IF testStatus[Dir] = 124 THEN NextDir ELSE Goto("poll")
       ELSE UNCHANGED makeFail /\ Goto("poll")
    /\ UNCHANGED <<passing, failing>> /\ UNCHANGED hist /\ UNCHANGED totals

\* Mutant: make check fails when the test fails, and the line is not written.
ExecuteLosesFailure ==
    /\ phase = "exec"
    /\ \E s \in Status :
          /\ testStatus' = [testStatus EXCEPT ![Dir] = s]
          /\ passing' = IF s = 0 THEN Bump(passing, Dir) ELSE passing
          /\ failing' = IF s = 1 THEN Bump(failing, Dir) ELSE failing
          /\ timedOut' = IF s = 124 THEN [timedOut EXCEPT ![lrun] = @ \cup {Dir}]
                                    ELSE timedOut
    /\ Goto("poll")
    /\ UNCHANGED <<built, fcStatus, makeFail, body, flagFails, totals>>

\* The test ends or is killed by `timeout`; its status is written and its line
\* appended.  check-asan reports the status of FileCheck.
Execute ==
    /\ phase = "exec"
    /\ \E s \in Status : \E f \in IF Kind[Dir] = "asan" THEN {0, 1} ELSE {s} :
          /\ testStatus' = [testStatus EXCEPT ![Dir] = s]
          /\ fcStatus' = IF Kind[Dir] = "asan" THEN [fcStatus EXCEPT ![Dir] = f]
                                               ELSE fcStatus
          /\ passing' = IF f = 0 THEN Bump(passing, Dir) ELSE passing
          /\ failing' = IF f = 0 THEN failing ELSE Bump(failing, Dir)
          /\ timedOut' = IF s = 124 THEN [timedOut EXCEPT ![lrun] = @ \cup {Dir}]
                                    ELSE timedOut
    /\ Goto("poll")
    /\ UNCHANGED <<built, makeFail, body, flagFails, totals>>

-----------------------------------------------------------------------------
(* The flags test: run_options.sh compiles every option, then compiles and  *)
(* runs every option; make and make run succeed whatever the options do.    *)

FlagsBegin ==
    /\ phase = "rerun" /\ run < MyNrun(Dir) /\ Kind[Dir] = "flags"
    /\ body' = Bump(body, Dir) /\ UNCHANGED <<flagFails, timedOut>>
    /\ phase' = "optmake" /\ opt' = 1 /\ UNCHANGED <<at, lrun, run>>
    /\ UNCHANGED disk /\ UNCHANGED book /\ UNCHANGED totals

NextOption(done) ==
    IF opt < FlagOptions THEN opt' = opt + 1 /\ UNCHANGED phase
                         ELSE opt' = 1 /\ phase' = done

OptionMake ==
    /\ phase = "optmake"
    /\ \E ok \in BOOLEAN :
          /\ makeFail' = IF ok THEN makeFail ELSE Bump(makeFail, Dir)
          /\ flagFails' = IF ok THEN flagFails ELSE flagFails + 1
    /\ NextOption("optrun")
    /\ UNCHANGED <<at, lrun, run, passing, failing, body, timedOut, totals>>
    /\ UNCHANGED disk

\* The option is compiled anew, and executed under ../lockfile without a time
\* limit.
OptionRun ==
    /\ phase = "optrun"
    /\ \/ makeFail' = Bump(makeFail, Dir) /\ UNCHANGED <<passing, failing>>
       \/ passing' = Bump(passing, Dir) /\ UNCHANGED <<failing, makeFail>>
       \/ failing' = Bump(failing, Dir) /\ UNCHANGED <<passing, makeFail>>
    /\ NextOption("poll")
    /\ UNCHANGED <<at, lrun, run>>
    /\ UNCHANGED disk /\ UNCHANGED hist /\ UNCHANGED totals

-----------------------------------------------------------------------------
(* The end of a round and of the script.                                   *)

\* Mutant: the status file of the sanitizer is consulted in every mode.
FileCheckStatus(t) == IF testStatus[t] \notin {NoFile, 0} THEN fcStatus[t]
                                                         ELSE testStatus[t]

PolledStatus(t) == IF env.sanitizer /\ testStatus[t] \notin {NoFile, 0}
                   THEN fcStatus[t] ELSE testStatus[t]

\* "don't rerun timeouts"
Poll ==
    /\ phase = "poll"
    /\ IF PolledStatus(Dir) = 124 THEN NextDir ELSE NextRun
    /\ UNCHANGED disk /\ UNCHANGED book /\ UNCHANGED hist /\ UNCHANGED totals

Lines(file) == FoldFunction(LAMBDA x, y : x + y, 0, file)

\* Mutant: the files are removed before they are counted.
GatherAfterCleanup ==
    /\ phase = "report"
    /\ totals' = [passing |-> 0, total |-> 0]
    /\ Goto("cleanup")
    /\ UNCHANGED disk /\ UNCHANGED book /\ UNCHANGED hist

\* gatherdata; printfails only prints.
Gather ==
    /\ phase = "report"
    /\ totals' = [passing |-> Lines(passing),
                  total   |-> Lines(passing) + Lines(makeFail) + Lines(failing)]
    /\ Goto("cleanup")
    /\ UNCHANGED disk /\ UNCHANGED book /\ UNCHANGED hist

Cleanup ==
    /\ phase = "cleanup"
    /\ IF KeepResults THEN UNCHANGED book
       ELSE /\ passing' = [t \in Dirs |-> 0]
            /\ failing' = passing' /\ makeFail' = passing'
    /\ Goto("done")
    /\ UNCHANGED disk /\ UNCHANGED hist /\ UNCHANGED totals

BoundedStep ==
    /\ \/ DirMissing \/ EnterDir \/ NextList \/ ListsDone \/ RerunsDone
       \/ MakeOk \/ MakeFails \/ Target \/ Verify \/ CheckBuilds \/ CheckFails
       \/ Execute \/ FlagsBegin \/ OptionMake \/ Poll
       \/ Gather \/ Cleanup
    /\ UNCHANGED env

\* What executes a test without a time limit.
UntimedStep == (FreeRun \/ OptionRun) /\ UNCHANGED env

Next == BoundedStep \/ UntimedStep

Spec == Init /\ [][Next]_vars

\* Compilers end and `timeout` ends make check; nothing is assumed of make run
\* and of the executions of flags.
FairSpec == Spec /\ WF_vars(BoundedStep)

-----------------------------------------------------------------------------
(* Properties.                                                             *)

TypeOK ==
    /\ env \in Environments /\ phase \in Phases
    /\ at \in 1..(Len(SmokeDirs) + 1) /\ lrun \in 0..env.lrun
    /\ run \in Nat /\ opt \in 1..FlagOptions
    /\ built \in [Dirs -> BOOLEAN]
    /\ testStatus \in [Dirs -> Status \cup {NoFile}]
    /\ fcStatus \in [Dirs -> Status \cup {NoFile}]
    /\ passing \in [Dirs -> Nat] /\ failing \in [Dirs -> Nat]
    /\ makeFail \in [Dirs -> Nat] /\ body \in [Dirs -> Nat]
    /\ flagFails \in Nat
    /\ timedOut \in [0..(env.lrun - 1) -> SUBSET Dirs]

\* Whatever way a round of the rerun loop ends (make fails, make check fails,
\* the test passes, fails or times out), it has left exactly one line in the
\* result files, and the rounds of flags one line per option and one more per
\* option that did not compile in the first pass.  Tests whose recipe ignores
\* a status (verify, visual, asan) are not promised one.
OneLinePerRound ==
    phase \in {"dir", "rerun", "report"} =>
        \A t \in Dirs \ Unsupported :
            LET lines == passing[t] + failing[t] + makeFail[t] IN
            /\ Kind[t] \in {"check", "bundled", "gpus"} => lines = body[t]
            /\ Kind[t] = "flags" => lines = FlagOptions * body[t] + flagFails

\* The sequential harness is a result book, too: it adds lines, counts them
\* once and only then removes them.
Book == INSTANCE ResultBook WITH
            Tests <- Dirs, pass <- passing, fail <- failing, make <- makeFail,
            report <- totals
IsResultBook == Book!Spec

\* "don't rerun timeouts": in one list iteration no execution of a test
\* starts after one of it has timed out.  With the sanitizer the poll sees the
\* status of FileCheck, which is never 124, and timeouts are rerun.
TimeoutsNotRerun ==
    phase = "exec" /\ ~env.sanitizer => Dir \notin timedOut[lrun]

\* SMOKE_NRUN is the "number of times to run one test", timeouts aside: a test
\* is given up early only if it has timed out in this session (a status file
\* of an earlier session never ends the reruns), with SMOKE_LRUN = 1 in this
\* list iteration.
GivesUpOnlyTimeouts ==
    [][at' = at + 1 /\ phase # "dir" =>
          \/ phase = "rerun" /\ run >= MyNrun(Dir)
          \/ \E l \in 0..lrun : Dir \in timedOut[l]]_vars

\* The script ends unless an execution without a time limit hangs: a make run, or
\* ./flags.
EndsUnlessRunHangs == []<>(phase \notin {"run", "optrun"}) => <>(phase = "done")
=============================================================================
