---------------------------- MODULE SmokeHarness ----------------------------
(***************************************************************************)
(* The parallel branch of test/smoke/check_smoke.sh together with the      *)
(* recipes of test/smoke/Makefile.rules it drives.                         *)
(*                                                                         *)
(* One dispatcher (the script) walks SMOKE_DIRS twice: first it submits    *)
(* one build job per test directory through GNU parallel's `sem`, waits    *)
(* for all of them, then it submits SMOKE_LRUN x my_nrun run jobs per      *)
(* test, waits again and counts the result files in gatherdata.  Jobs run  *)
(* concurrently; they meet in two kinds of flock: ../lockfile, held by the *)
(* `check` recipe around the execution of a test and its report, and a     *)
(* `lockfile` inside each test directory, held while ../make-fail.txt is   *)
(* appended to.  The order of the lines of a result file matters to        *)
(* nothing, so each file is a number of lines per test.                    *)
(***************************************************************************)
EXTENDS Integers, Sequences, FiniteSets, Functions

CONSTANTS
    Dirs,         \* test directory names
    SmokeDirs,    \* the sequence SMOKE_DIRS the two loops iterate over
    Kind,         \* how the if-chain of the run loop treats each directory
    Unsupported,  \* tests whose recipes only print SKIP_... on this GPU
    LibraryFirst, \* tests whose plain `make` only builds a device library
    Leftovers,    \* tests that may hold files of an earlier session
    GrepMatches,  \* GrepMatches[t]: tests whose name ends with the name of t
    NrunFile,     \* content of the test's NRUN file, 0 if it has none
    SmokeLrun,    \* SMOKE_LRUN
    SmokeNrun,    \* SMOKE_NRUN
    MaxNrun,      \* bound: no test is run more often per list iteration
    JobThreads,   \* AOMP_JOB_THREADS, at most 16
    RunJobs,      \* the --jobs of the execution phase (4 in the script)
    Modes,        \* the modes the script may be started in
    NoFile,       \* a status file that does not exist
    NoJob         \* an flock nobody holds

Kinds == {"check", "bundled", "verify", "visual", "gpus", "absent"}

\* AOMP_SANITIZER is unset, or is 1, in smoke-asan or in another directory.
AllModes == {"plain", "asan", "sanitizer"}

\* A test exits with 0, with an error, or is killed by `timeout` (124).
Status == {0, 1, 124}

\* set_my_nrun: the NRUN file only counts when reruns were asked for and it
\* asks for more of them.
MyNrun(t) == IF SmokeNrun > 1 /\ NrunFile[t] > SmokeNrun
             THEN NrunFile[t] ELSE SmokeNrun

ASSUME ConstantsAssumption ==
    /\ SmokeDirs \in Seq(Dirs)
    /\ \A m, n \in 1..Len(SmokeDirs) : SmokeDirs[m] = SmokeDirs[n] => m = n
    /\ Kind \in [Dirs -> Kinds]
    /\ Unsupported \subseteq Dirs /\ LibraryFirst \subseteq Dirs
    /\ Leftovers \subseteq Dirs
    /\ GrepMatches \in [Dirs -> SUBSET Dirs]
    /\ \A t \in Dirs : t \in GrepMatches[t]
    /\ NrunFile \in [Dirs -> Nat]
    /\ SmokeLrun \in Nat /\ SmokeNrun \in Nat /\ MaxNrun \in Nat
    /\ \A t \in Dirs : MyNrun(t) <= MaxNrun
    /\ JobThreads \in 1..16 /\ RunJobs \in Nat \ {0}
    /\ Modes \subseteq AllModes
    /\ NoFile \notin Status

\* A job is the sub-shell one `sem` call starts: one build job per test, and
\* run jobs numbered by list iteration and rerun.
MakeJob(t) == [test |-> t, what |-> "make", l |-> 0, r |-> 0]
RunJobIds == [test : Dirs, what : {"run", "check"},
              l : 0..(SmokeLrun - 1), r : 0..(MaxNrun - 1)]
JobIds == {MakeJob(t) : t \in Dirs} \cup RunJobIds

ASSUME NoJobAssumption == NoJob \notin JobIds

JobPcs == {"idle", "clean", "build", "compile", "grep", "lockfail", "append",
           "runstart", "runfree", "vbuild", "lock", "running", "report", "done"}

Phases == {"make", "makewait", "run", "run2", "poll", "runwait", "done"}

VARIABLES
    mode,                    \* how this session was started
    phase, at, lrun, run,    \* the dispatcher
    pc, rc, seen,            \* the jobs: control point, status, $mytest # ""
    lockfile,                \* ../lockfile: the job that holds it
    dirLock,                 \* <test>/lockfile
    built,                   \* the test binary exists
    testStatus, fcStatus,    \* <test>/TEST_STATUS and <test>/FILECHECK_STATUS
    runLog,                  \* <test>/run.log: the jobs whose output is in it
    passing, failing,        \* lines per test of the two result files
    makeFailed, checkFailed, \* "t: Make Failed" and "t make check failed"
                             \* lines of make-fail.txt
    passing_tests, total_tests

dispVars == <<mode, phase, at, lrun, run>>
diskVars == <<built, testStatus, fcStatus, runLog>>
bookVars == <<passing, failing, makeFailed, checkFailed>>
totals   == <<passing_tests, total_tests>>
vars == <<mode, phase, at, lrun, run, pc, rc, seen, lockfile, dirLock, built,
          testStatus, fcStatus, runLog, passing, failing, makeFailed,
          checkFailed, passing_tests, total_tests>>

-----------------------------------------------------------------------------

\* The files of an earlier session are removed by `cleanup`; binaries and
\* status files may be left over in the test directories.
Init ==
    /\ mode \in Modes
    /\ phase = "make" /\ at = 1 /\ lrun = 0 /\ run = 0
    /\ pc = [j \in JobIds |-> "idle"]
    /\ rc = [j \in JobIds |-> NoFile]
    /\ seen = [j \in JobIds |-> FALSE]
    /\ lockfile = NoJob
    /\ dirLock = [t \in Dirs |-> NoJob]
    /\ \E bins \in SUBSET Leftovers, timed \in SUBSET Leftovers :
          /\ built = [t \in Dirs |-> t \in bins]
          /\ testStatus = [t \in Dirs |-> IF t \in timed THEN 124 ELSE NoFile]
    /\ fcStatus = [t \in Dirs |-> IF testStatus[t] = NoFile THEN NoFile ELSE 1]
    /\ runLog = [t \in Dirs |-> {}]
    /\ passing = [t \in Dirs |-> 0]
    /\ failing = [t \in Dirs |-> 0]
    /\ makeFailed = [t \in Dirs |-> 0]
    /\ checkFailed = [t \in Dirs |-> 0]
    /\ passing_tests = 0 /\ total_tests = 0

Active == {j \in JobIds : pc[j] \notin {"idle", "done"}}

\* `sem --jobs n` returns once it owns one of n slots; `sem --wait` returns
\* once no job of this id is left.
HasSlot(n) == Cardinality(Active) < n
\* Mutant: the wait returns while one job is still at work.
AllButOneDone == Cardinality(Active) <= 1
AllDone == Active = {}

Dir == SmokeDirs[at]
Bump(file, t) == [file EXCEPT ![t] = @ + 1]

Submit(j, n) ==
    /\ HasSlot(n)
    /\ pc' = [pc EXCEPT ![j] = IF j.what = "make" THEN "clean" ELSE "build"]
    /\ UNCHANGED <<rc, seen>>

-----------------------------------------------------------------------------
(* Dispatcher, parallel make.                                              *)

MakeSkip ==
    /\ phase = "make" /\ at <= Len(SmokeDirs)
    /\ Kind[Dir] = "absent"
    /\ at' = at + 1
    /\ UNCHANGED diskVars /\ UNCHANGED bookVars /\ UNCHANGED totals
    /\ UNCHANGED <<mode, phase, lrun, run, pc, rc, seen, lockfile, dirLock>>

\* gpus is compiled by the dispatcher itself and never run.
MakeGpus ==
    /\ phase = "make" /\ at <= Len(SmokeDirs)
    /\ Kind[Dir] = "gpus"
    /\ \E ok \in BOOLEAN :
          /\ built' = [built EXCEPT ![Dir] = ok]
          /\ passing' = IF ok THEN Bump(passing, Dir) ELSE passing
          /\ makeFailed' = IF ok THEN makeFailed ELSE Bump(makeFailed, Dir)
    /\ testStatus' = [testStatus EXCEPT ![Dir] = NoFile]
    /\ fcStatus' = [fcStatus EXCEPT ![Dir] = NoFile]
    /\ at' = at + 1
    /\ UNCHANGED totals
    /\ runLog' = [runLog EXCEPT ![Dir] = {}]
    /\ UNCHANGED <<mode, phase, lrun, run, pc, rc, seen, lockfile, dirLock,
                   failing, checkFailed>>

MakeSubmit ==
    /\ phase = "make" /\ at <= Len(SmokeDirs)
    /\ Kind[Dir] \notin {"absent", "gpus"}
    /\ Submit(MakeJob(Dir), JobThreads)
    /\ at' = at + 1
    /\ UNCHANGED diskVars /\ UNCHANGED bookVars /\ UNCHANGED totals
    /\ UNCHANGED <<mode, phase, lrun, run, lockfile, dirLock>>

MakeLoopEnd ==
    /\ phase = "make" /\ at > Len(SmokeDirs)
    /\ phase' = "makewait"
    /\ UNCHANGED diskVars /\ UNCHANGED bookVars /\ UNCHANGED totals
    /\ UNCHANGED <<mode, at, lrun, run, pc, rc, seen, lockfile, dirLock>>

\* `sem --wait` between the two phases.
MakeWait ==
    /\ phase = "makewait" /\ AllDone
    /\ phase' = "run" /\ at' = 1
    /\ UNCHANGED diskVars /\ UNCHANGED bookVars /\ UNCHANGED totals
    /\ UNCHANGED <<mode, lrun, run, pc, rc, seen, lockfile, dirLock>>

-----------------------------------------------------------------------------
(* Dispatcher, parallel execution.                                         *)

InRunLoop == phase = "run" /\ lrun < SmokeLrun /\ at <= Len(SmokeDirs)

\* A directory that is absent (or needs a missing rocblas) is skipped, and so
\* is one whose runs have all been submitted.
RunNextDir ==
    /\ InRunLoop
    /\ Kind[Dir] = "absent" \/ run >= MyNrun(Dir)
    /\ at' = at + 1 /\ run' = 0
    /\ UNCHANGED diskVars /\ UNCHANGED bookVars /\ UNCHANGED totals
    /\ UNCHANGED <<mode, phase, lrun, pc, rc, seen, lockfile, dirLock>>

RunGpus ==
    /\ InRunLoop /\ Kind[Dir] = "gpus" /\ run < MyNrun(Dir)
    /\ phase' = "poll"
    /\ UNCHANGED diskVars /\ UNCHANGED bookVars /\ UNCHANGED totals
    /\ UNCHANGED <<mode, at, lrun, run, pc, rc, seen, lockfile, dirLock>>

\* devices and stream: `make run` and `make check`, both in the background.
RunSubmit ==
    /\ InRunLoop /\ Kind[Dir] \notin {"absent", "gpus"} /\ run < MyNrun(Dir)
    /\ Submit([test |-> Dir, l |-> lrun, r |-> run,
               what |-> IF Kind[Dir] = "visual" THEN "run" ELSE "check"],
              RunJobs)
    /\ phase' = IF Kind[Dir] = "visual" THEN "run2" ELSE "poll"
    /\ UNCHANGED diskVars /\ UNCHANGED bookVars /\ UNCHANGED totals
    /\ UNCHANGED <<mode, at, lrun, run, lockfile, dirLock>>

RunSubmit2 ==
    /\ phase = "run2"
    /\ Submit([test |-> Dir, l |-> lrun, r |-> run, what |-> "check"],
              RunJobs)
    /\ phase' = "poll"
    /\ UNCHANGED diskVars /\ UNCHANGED bookVars /\ UNCHANGED totals
    /\ UNCHANGED <<mode, at, lrun, run, lockfile, dirLock>>

\* The status the loop looks at: with the sanitizer a non-zero TEST_STATUS is
\* replaced by FILECHECK_STATUS.
PolledStatus(t) == IF mode # "plain" /\ testStatus[t] # 0 THEN fcStatus[t]
                                                     ELSE testStatus[t]

\* TEST_STATUS is read right after the job was submitted, whatever the job
\* has done by then; 124 ends the reruns of this test.
Poll ==
    /\ phase = "poll"
    /\ phase' = "run"
    /\ IF testStatus[Dir] # NoFile /\ PolledStatus(Dir) = 124
       THEN at' = at + 1 /\ run' = 0
       ELSE run' = run + 1 /\ UNCHANGED at
    /\ UNCHANGED diskVars /\ UNCHANGED bookVars /\ UNCHANGED totals
    /\ UNCHANGED <<mode, lrun, pc, rc, seen, lockfile, dirLock>>

\* Mutant: the next list iteration starts before the first directory.
RunNextListOffByOne ==
    /\ phase = "run" /\ lrun < SmokeLrun /\ at > Len(SmokeDirs)
    /\ lrun' = lrun + 1 /\ at' = 0
    /\ UNCHANGED diskVars /\ UNCHANGED bookVars /\ UNCHANGED totals
    /\ UNCHANGED <<mode, phase, run, pc, rc, seen, lockfile, dirLock>>

RunNextList ==
    /\ phase = "run" /\ lrun < SmokeLrun /\ at > Len(SmokeDirs)
    /\ lrun' = lrun + 1 /\ at' = 1
    /\ UNCHANGED diskVars /\ UNCHANGED bookVars /\ UNCHANGED totals
    /\ UNCHANGED <<mode, phase, run, pc, rc, seen, lockfile, dirLock>>

RunLoopEnd ==
    /\ phase = "run" /\ lrun >= SmokeLrun
    /\ phase' = "runwait"
    /\ UNCHANGED diskVars /\ UNCHANGED bookVars /\ UNCHANGED totals
    /\ UNCHANGED <<mode, at, lrun, run, pc, rc, seen, lockfile, dirLock>>

\* wc -l of a result file; make-fail.txt holds both kinds of lines.
Lines(file) == FoldFunction(LAMBDA x, y : x + y, 0, file)
MakeFail == [t \in Dirs |-> makeFailed[t] + checkFailed[t]]

\* Mutant: the compile failures are left out of the total.
GatherNoMakeFail ==
    /\ phase = "runwait" /\ AllDone
    /\ phase' = "done"
    /\ passing_tests' = Lines(passing)
    /\ total_tests' = Lines(passing) + Lines(failing)
    /\ UNCHANGED diskVars /\ UNCHANGED bookVars
    /\ UNCHANGED <<mode, at, lrun, run, pc, rc, seen, lockfile, dirLock>>

\* The second `sem --wait`, then gatherdata.
Gather ==
    /\ phase = "runwait" /\ AllDone
    /\ phase' = "done"
    /\ passing_tests' = Lines(passing)
    /\ total_tests' = Lines(passing) + Lines(MakeFail) + Lines(failing)
    /\ UNCHANGED diskVars /\ UNCHANGED bookVars
    /\ UNCHANGED <<mode, at, lrun, run, pc, rc, seen, lockfile, dirLock>>

Dispatcher ==
    \/ MakeSkip \/ MakeGpus \/ MakeSubmit \/ MakeLoopEnd \/ MakeWait
    \/ RunNextDir \/ RunGpus \/ RunSubmit \/ RunSubmit2 \/ Poll
    \/ RunNextList \/ RunLoopEnd \/ Gather

-----------------------------------------------------------------------------
(* Jobs.                                                                   *)

Goto(j, where) == pc' = [pc EXCEPT ![j] = where]

\* Mutant: the status file survives.
CleanKeepsStatus(j) ==
    /\ pc[j] = "clean"
    /\ built' = [built EXCEPT ![j.test] = FALSE]
    /\ runLog' = [runLog EXCEPT ![j.test] = {}]
    /\ Goto(j, "build")
    /\ UNCHANGED dispVars /\ UNCHANGED bookVars /\ UNCHANGED totals
    /\ UNCHANGED <<rc, seen, lockfile, dirLock, testStatus, fcStatus>>

\* `make clean` also removes TEST_STATUS, FILECHECK_STATUS and the logs.
Clean(j) ==
    /\ pc[j] = "clean"
    /\ built' = [built EXCEPT ![j.test] = FALSE]
    /\ testStatus' = [testStatus EXCEPT ![j.test] = NoFile]
    /\ fcStatus' = [fcStatus EXCEPT ![j.test] = NoFile]
    /\ runLog' = [runLog EXCEPT ![j.test] = {}]
    /\ Goto(j, "build")
    /\ UNCHANGED dispVars /\ UNCHANGED bookVars /\ UNCHANGED totals
    /\ UNCHANGED <<rc, seen, lockfile, dirLock>>

\* An ordinary test is run by check, in smoke-asan by check-asan, which decides
\* by the status of FileCheck.
ByFileCheck(t) == mode = "asan" /\ Kind[t] = "check"
ByStatus(t) == mode # "asan" /\ Kind[t] = "check"

\* Mutant: liba_bundled gets no test of the exit status of make check.
IgnoreBundledFailure(j) ==
    CASE j.what = "make"                                    -> "lockfail"
      [] j.what = "check" /\ ByStatus(j.test)               -> "grep"
      [] OTHER                                              -> "done"

\* Where a job goes when the compile step of its make target fails.
OnBuildFailure(j) ==
    CASE j.what = "make"                                    -> "lockfail"
      [] j.what = "check" /\ ByStatus(j.test)               -> "grep"
      [] j.what = "check" /\ Kind[j.test] = "bundled"       -> "lockfail"
      [] OTHER                                              -> "done"

\* Mutant: verify-log has lost its prerequisite run.
VerifyWithoutRun(j) ==
    IF j.what = "make" \/ (j.test \in Unsupported /\ Kind[j.test] # "verify")
    THEN "done"
    ELSE IF j.what = "run" THEN "runstart"
         ELSE IF Kind[j.test] = "verify" THEN "vbuild" ELSE "lock"

\* Where it goes when the binary is there; the recipes of an unsupported test
\* only print a message, except for verify-log, which still verifies.
OnBuildSuccess(j) ==
    IF j.what = "make" THEN "done"
    ELSE IF j.test \in Unsupported
         THEN IF Kind[j.test] = "verify" THEN "vbuild" ELSE "done"
         ELSE IF j.what = "run" \/ Kind[j.test] = "verify" THEN "runstart"
                                                           ELSE "lock"

\* liba_bundled and its relatives name the rule of their device library before
\* the binary, so that the build job leaves the binary to `make check`.
OnlyLibrary(j) == j.what = "make" /\ j.test \in LibraryFirst

\* The rule of $(TESTNAME): the parallel branch exports AOMP_NO_PREREQ, so that
\* the binary has no phony prerequisite and a binary that exists is not compiled
\* again.
Build(j) ==
    /\ pc[j] = "build"
    /\ Goto(j, IF ~OnlyLibrary(j) /\ (j.test \in Unsupported \/ built[j.test])
               THEN OnBuildSuccess(j) ELSE "compile")
    /\ UNCHANGED dispVars /\ UNCHANGED diskVars /\ UNCHANGED bookVars
    /\ UNCHANGED totals /\ UNCHANGED <<rc, seen, lockfile, dirLock>>

\* The compiler ends; a failing one removes its output, which may be the
\* binary a concurrent job has built since.
Compile(j) ==
    /\ pc[j] = "compile"
    /\ \/ /\ built' = IF OnlyLibrary(j) THEN built
                       ELSE [built EXCEPT ![j.test] = TRUE]
          /\ Goto(j, OnBuildSuccess(j))
       \/ /\ built' = [built EXCEPT ![j.test] = FALSE]
          /\ Goto(j, OnBuildFailure(j))
    /\ UNCHANGED dispVars /\ UNCHANGED bookVars /\ UNCHANGED totals
    /\ UNCHANGED <<rc, seen, lockfile, dirLock, testStatus, fcStatus, runLog>>

\* Mutant: any line of make-fail.txt counts as a hit.
GrepAnyLine(j) ==
    /\ pc[j] = "grep"
    /\ seen' = [seen EXCEPT ![j] = \E t \in Dirs : MakeFail[t] > 0]
    /\ Goto(j, "lockfail")
    /\ UNCHANGED dispVars /\ UNCHANGED diskVars /\ UNCHANGED bookVars
    /\ UNCHANGED totals /\ UNCHANGED <<rc, lockfile, dirLock>>

\* `grep "$base:" ../make-fail.txt`, before any lock is taken.  Only the
\* "t: Make Failed" lines have a colon behind the name.
Grep(j) ==
    /\ pc[j] = "grep"
    /\ seen' = [seen EXCEPT ![j] =
                  \E t \in GrepMatches[j.test] : makeFailed[t] > 0]
    /\ Goto(j, "lockfail")
    /\ UNCHANGED dispVars /\ UNCHANGED diskVars /\ UNCHANGED bookVars
    /\ UNCHANGED totals /\ UNCHANGED <<rc, lockfile, dirLock>>

\* flock -e lockfile: the file in the test's own directory.
LockFail(j) ==
    /\ pc[j] = "lockfail" /\ dirLock[j.test] = NoJob
    /\ dirLock' = [dirLock EXCEPT ![j.test] = j]
    /\ Goto(j, "append")
    /\ UNCHANGED dispVars /\ UNCHANGED diskVars /\ UNCHANGED bookVars
    /\ UNCHANGED totals /\ UNCHANGED <<rc, seen, lockfile>>

\* A build job and liba_bundled append "t: Make Failed"; a plain check appends
\* "t make check failed" unless its grep found a line.
AppendFail(j) ==
    /\ pc[j] = "append"
    /\ IF j.what = "make" \/ Kind[j.test] = "bundled"
       THEN makeFailed' = Bump(makeFailed, j.test) /\ UNCHANGED checkFailed
       ELSE /\ checkFailed' = IF seen[j] THEN checkFailed
                                         ELSE Bump(checkFailed, j.test)
            /\ UNCHANGED makeFailed
    /\ dirLock' = [dirLock EXCEPT ![j.test] = NoJob]
    /\ Goto(j, "done")
    /\ UNCHANGED dispVars /\ UNCHANGED diskVars /\ UNCHANGED totals
    /\ UNCHANGED <<rc, seen, lockfile, passing, failing>>

\* `tee run.log` empties the log before the test writes to it.
RunStart(j) ==
    /\ pc[j] = "runstart"
    /\ runLog' = [runLog EXCEPT ![j.test] = {j}]
    /\ Goto(j, "runfree")
    /\ UNCHANGED dispVars /\ UNCHANGED bookVars /\ UNCHANGED totals
    /\ UNCHANGED <<rc, seen, lockfile, dirLock, built, testStatus, fcStatus>>

\* `make run`, and the run prerequisite of verify-log: no lock, no timeout.
\* The recipes run under `bash -o pipefail`, so a failing test fails the
\* prerequisite and verify-log ends without a report.
RunFree(j) ==
    /\ pc[j] = "runfree"
    /\ \E where \in IF j.what = "run" THEN {"done"} ELSE {"vbuild", "done"} :
          Goto(j, where)
    /\ runLog' = [runLog EXCEPT ![j.test] = @ \cup {j}]
    /\ UNCHANGED dispVars /\ UNCHANGED bookVars /\ UNCHANGED totals
    /\ UNCHANGED <<rc, seen, lockfile, dirLock, built, testStatus, fcStatus>>

\* Compiling verify_output.c; if that fails verify-log ends and its exit
\* status is ignored.
VerifyBuild(j) ==
    /\ pc[j] = "vbuild"
    /\ \E where \in {"lock", "done"} : Goto(j, where)
    /\ UNCHANGED dispVars /\ UNCHANGED diskVars /\ UNCHANGED bookVars
    /\ UNCHANGED totals /\ UNCHANGED <<rc, seen, lockfile, dirLock>>

\* Mutant: the flock is not exclusive.
LockShared(j) ==
    /\ pc[j] = "lock"
    /\ lockfile' = j
    /\ Goto(j, "running")
    /\ UNCHANGED dispVars /\ UNCHANGED diskVars /\ UNCHANGED bookVars
    /\ UNCHANGED totals /\ UNCHANGED <<rc, seen, dirLock>>

\* flock -e 9 on ../lockfile.
Lock(j) ==
    /\ pc[j] = "lock" /\ lockfile = NoJob
    /\ lockfile' = j
    /\ Goto(j, "running")
    /\ UNCHANGED dispVars /\ UNCHANGED diskVars /\ UNCHANGED bookVars
    /\ UNCHANGED totals /\ UNCHANGED <<rc, seen, dirLock>>

\* The test ends, by itself or killed by `timeout`, and its status is written
\* to TEST_STATUS.  verify-log runs verify_output, which searches a log file
\* without a time limit, and writes no TEST_STATUS.
Execute(j) ==
    /\ pc[j] = "running"
    /\ \E s \in IF Kind[j.test] = "verify" THEN {0, 1} ELSE Status :
       \E f \in IF ByFileCheck(j.test) THEN {0, 1} ELSE {s} :
          /\ rc' = [rc EXCEPT ![j] = f]
          /\ testStatus' = IF Kind[j.test] = "verify" THEN testStatus
                           ELSE [testStatus EXCEPT ![j.test] = s]
          /\ fcStatus' = IF ~ByFileCheck(j.test) THEN fcStatus
                         ELSE [fcStatus EXCEPT ![j.test] = f]
    /\ Goto(j, "report")
    /\ UNCHANGED dispVars /\ UNCHANGED bookVars /\ UNCHANGED totals
    /\ UNCHANGED <<seen, lockfile, dirLock, built, runLog>>

\* Mutant: a failing test keeps the lock.
ReportKeepsLock(j) ==
    /\ pc[j] = "report"
    /\ IF rc[j] = 0
       THEN passing' = Bump(passing, j.test) /\ lockfile' = NoJob
            /\ UNCHANGED failing
       ELSE failing' = Bump(failing, j.test) /\ UNCHANGED <<passing, lockfile>>
    /\ Goto(j, "done")
    /\ UNCHANGED dispVars /\ UNCHANGED diskVars /\ UNCHANGED totals
    /\ UNCHANGED <<rc, seen, dirLock, makeFailed, checkFailed>>

\* One line in passing-tests.txt or failing-tests.txt, then the lock is
\* released with file descriptor 9.
Report(j) ==
    /\ pc[j] = "report"
    /\ IF rc[j] = 0
       THEN passing' = Bump(passing, j.test) /\ UNCHANGED failing
       ELSE failing' = Bump(failing, j.test) /\ UNCHANGED passing
    /\ lockfile' = NoJob
    /\ Goto(j, "done")
    /\ UNCHANGED dispVars /\ UNCHANGED diskVars /\ UNCHANGED totals
    /\ UNCHANGED <<rc, seen, dirLock, makeFailed, checkFailed>>

\* The steps of a job that end by themselves or are bounded by `timeout`.
BoundedStep(j) ==
    \/ Clean(j) \/ Build(j) \/ Compile(j) \/ Grep(j) \/ LockFail(j)
    \/ AppendFail(j) \/ RunStart(j) \/ VerifyBuild(j) \/ Lock(j) \/ Execute(j)
    \/ Report(j)

JobStep(j) == BoundedStep(j) \/ RunFree(j)

\* There is no step after gatherdata: the script exits.
Next == Dispatcher \/ \E j \in JobIds : JobStep(j)

\* `timeout` bounds every test that runs under ../lockfile, verify_output only
\* searches a log file, compilers terminate, and flock serves every waiter in
\* the end: while there are
\* finitely many jobs a waiter that is passed over is served when the others
\* have finished, so weak fairness of each job is enough.  Nothing is assumed
\* about RunFree: `make run` has no timeout.
Fairness == WF_vars(Dispatcher) /\ \A j \in JobIds : WF_vars(BoundedStep(j))

Spec == Init /\ [][Next]_vars
FairSpec == Spec /\ Fairness

-----------------------------------------------------------------------------
(* Properties.                                                             *)

TypeOK ==
    /\ mode \in Modes
    /\ phase \in Phases
    /\ at \in 1..(Len(SmokeDirs) + 1)
    /\ lrun \in 0..SmokeLrun
    /\ run \in 0..MaxNrun
    /\ pc \in [JobIds -> JobPcs]
    /\ rc \in [JobIds -> Status \cup {NoFile}]
    /\ seen \in [JobIds -> BOOLEAN]
    /\ lockfile \in JobIds \cup {NoJob}
    /\ dirLock \in [Dirs -> JobIds \cup {NoJob}]
    /\ built \in [Dirs -> BOOLEAN]
    /\ testStatus \in [Dirs -> Status \cup {NoFile}]
    /\ fcStatus \in [Dirs -> Status \cup {NoFile}]
    /\ runLog \in [Dirs -> SUBSET JobIds]
    /\ passing \in [Dirs -> Nat] /\ failing \in [Dirs -> Nat]
    /\ makeFailed \in [Dirs -> Nat] /\ checkFailed \in [Dirs -> Nat]

\* Reruns of one test share its TEST_STATUS file and run concurrently.  When a
\* `check` recipe decides between passing-tests.txt and failing-tests.txt the
\* file still holds the status of that very execution: no concurrent rerun,
\* and no `make clean` of the build phase, has overwritten or removed it.
StatusMatchesReport ==
    \A j \in JobIds :
        pc[j] = "report" /\ Kind[j.test] # "verify" =>
            IF ByFileCheck(j.test) THEN fcStatus[j.test] = rc[j]
                                     ELSE testStatus[j.test] = rc[j]

\* The first `sem --wait` separates the phases: no test is executed, and no
\* make-fail.txt is searched, while a build job (which starts with a make
\* clean) is still at work; in either phase the jobs stay within the --jobs
\* of that phase.
PhasesSeparate ==
    \/ (\A j \in Active : j.what = "make") /\ Cardinality(Active) <= JobThreads
    \/ (\A j \in Active : j.what # "make") /\ Cardinality(Active) <= RunJobs

\* The run jobs the dispatcher has started for t.
Started(t) == {j \in JobIds : j.test = t /\ j.what = "check" /\ pc[j] # "idle"}

\* No run is lost: when the totals are printed, every run that was started of
\* a plain or liba_bundled test has left one line in the result files; the
\* build of liba_bundled may have left another one.  A plain test whose binary
\* did not build may instead rely on a "Make Failed" line that its grep found,
\* its own or that of a test whose name ends with its name.
EveryRunReported ==
    phase = "done" =>
        \A t \in Dirs \ Unsupported :
            LET runs  == Cardinality(Started(t))
                lines == passing[t] + failing[t] + checkFailed[t]
            IN  /\ Kind[t] = "bundled" =>
                       lines + makeFailed[t] - runs \in {0, 1}
                /\ ByStatus(t) =>
                       \/ lines = runs
                       \/ /\ lines < runs
                          /\ \E e \in GrepMatches[t] : makeFailed[e] > 0

\* "Verify output and log results": while verify_output reads run.log, the log
\* holds the output of the execution verify-log started, and nothing else.
VerifiesOwnLog ==
    \A j \in JobIds :
        pc[j] = "running" /\ Kind[j.test] = "verify" =>
            j.test \in Unsupported \/ runLog[j.test] = {j}

\* "Checks all tests in smoke directory": also a test that is checked by its
\* output leaves a line for every run, or its compilation is reported.
VerifyRunsReported ==
    phase = "done" =>
        \A t \in Dirs \ Unsupported :
            Kind[t] = "verify" /\ makeFailed[t] = 0 =>
                passing[t] + failing[t] = Cardinality(Started(t))

\* The harness is a result book: lines are only added, one at a time and only
\* before the report, and the report counts them.
Book == INSTANCE ResultBook WITH
            Tests <- Dirs,
            pass <- passing,
            fail <- failing,
            make <- MakeFail,
            report <- IF phase = "done"
                      THEN [passing |-> passing_tests, total |-> total_tests]
                      ELSE [passing |-> -1, total |-> -1]
IsResultBook == Book!Spec

\* TEST_STATUS is polled while the run it is about may not have begun.  The
\* dispatcher may learn too late of a time limit that was hit (it then submits
\* another rerun), but it gives a test up only when an execution of it in this
\* session was killed by `timeout`, never because of a file it found.
GivesUpOnlyTimeouts ==
    [][phase = "poll" /\ at' # at =>
          \E i \in JobIds : i.test = Dir /\ rc[i] = 124]_vars

\* The totals are printed in the end unless an untimed `make run` hangs: no
\* combination of slots, locks and waits stops the script.
ReportsUnlessRunHangs ==
    (\A j \in JobIds : []<>(pc[j] # "runfree")) => <>(phase = "done")
=============================================================================
