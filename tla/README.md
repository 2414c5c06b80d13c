# A TLA+ model of the AOMP build and test project

The repository builds and tests AOMP, a compiler for OpenMP offloading. Its own
program is a set of bash scripts and makefiles: they clone the component
repositories, patch and build them in order, install prerequisites, run
several thousand small test programs on a GPU, many of them concurrently, and
judge the results. What is hard in these scripts is not their text but what
happens between two commands: jobs that share files, a build that is killed, a
directory left by an earlier invocation, a status that is read too early, a
counter that is carried along. The modules in this directory model that.

## The parts of the system

| part | state it keeps | operations | what is hard | what makes it correct |
|---|---|---|---|---|
| smoke harness, parallel (`test/smoke/check_smoke.sh` 222-347, `test/smoke/Makefile.rules`) | result files, `TEST_STATUS` and `run.log` per test, two kinds of lock files, semaphore slots | build loop, run loop, poll, `clean`, `check`, `verify-log`, `run`, `gatherdata` | concurrent jobs in one directory, stale status, waits and locks | a run is reported once, with its own status, and counted; phases do not overlap; only timeouts end the reruns; the script ends |
| smoke harness, sequential (`check_smoke.sh` 350-478, `flags/run_options.sh`) | the same files | one loop, skip list, sub-tests of `flags`, `cleanup` | what survives from one round to the next | the same result book; one line per round; the script ends |
| other check scripts (`smoke-fails`, `omp5`, `usm`, ...) | the same files | one loop | as above | the same result book |
| prerequisites (`bin/build_supp.sh`) | install directories, one link per component | `checkversion`, ten build functions, `runcmd` | faults at any command, later invocations with other versions, deleted installations | links lead to complete installations; exit status 0 can be relied on; rerunning repairs |
| patches (`patchrepo`, `removepatch` in `bin/aomp_common_vars`) | the working tree of a repository, the patch list | patch, build, install, reverse, pull | torn trees that pass for patched ones, patched trees met by a later build or pull | what is compiled is patched; an install leaves a clean tree |
| build driver (`bin/build_aomp.sh`, `bin/build_*.sh`) | build and install directories, the banner in `CommandLine.cpp`, the `AOMP` link | full build, `continue`, `select`, `nocmake`, `install` | objects of another commit or compiler, a banner left behind, stopping and continuing | exit status 0 means everything is built from this commit by its own compiler |
| clone (`bin/clone_aomp.sh`, `manifests/`) | clones: branches, checked-out reference, stash | parse a line, clone, stash and pull, checkout, pin | fields that survive from line to line, detached heads, unchecked checkouts, repeated calls | each repository is at the reference of its line; no local work is lost |
| ROCm test driver (`bin/run_rocm_test.sh`) | result directories, three counters | run a suite, `copyresults`, verdict | failures without a line, lines of several words, false negatives taken back, counters carried over, statuses not tested | green means that nothing broke that is not excused; each failure is counted once |
| test suite driver (`test/run_test_suite.sh`) | result directories | run suites | - | - |
| trunk scripts (`trunk/merge_from_main.sh`) | two branches | checkout, pull, merge, push | failures hidden by `tee` | only a successful merge is pushed |
| release, packages, docker, benchmark runners, f18bin | none between runs | linear scripts | - | - |
| test programs (`test/*/*`, `examples`) | none | run, exit status | - | an input of the harness |

The parts meet as follows. `clone_aomp.sh` fetches the repositories and stashes
what builds have left in them. `build_aomp.sh` calls `build_prereq.sh` (an alias
of `build_supp.sh`) and the component scripts one after the other and relies on
their exit status. The component scripts find the prerequisites through the
links in `$AOMP_SUPP`, patch their repository before they build and compile with
the compiler that the component `project` has installed. The check scripts run
the installed compiler and leave the three result files that `run_rocm_test.sh`
collects and counts.

## Modules

| module | models |
|---|---|
| `ResultBook` | the abstract promise of every check script about its three result files |
| `SmokeHarness` | the parallel branch of `check_smoke.sh` and the recipes it drives; implements `ResultBook` |
| `SmokeHarness_proofs` | proofs of all safety properties of `SmokeHarness` and of its refinement |
| `SmokeSequential` | the sequential branch with the `flags` test; implements `ResultBook` too |
| `SmokeSequential_proofs` | the same for `SmokeSequential` |
| `BuildSupp` | `build_supp.sh` over many invocations |
| `BuildSupp_proofs` | proofs of the safety properties of `BuildSupp` |
| `PatchRepo` | patching of one repository over builds, installs, kills and pulls |
| `PatchRepo_proofs` | proofs of its safety properties, for patches that touch different text |
| `BuildAomp` | `build_aomp.sh` and the component scripts over many invocations and updates |
| `BuildAomp_proofs` | proofs of its safety properties |
| `CloneAomp` | `clone_aomp.sh` over many invocations, manifests and upstream changes |
| `CloneAomp_proofs` | the same for `CloneAomp`, for well-formed manifests |
| `RunRocmTest` | `run_rocm_test.sh`: one session over a list of suites |
| `RunRocmTest_proofs` | proofs that the verdict and the total are right |
| `CountingLemmas` | least numbers, smallest sets, and sums over finite sets, which the proofs above use |
| `MC_*` | small instances of each for TLC |

Definitions whose comment begins with "Mutant:" are not part of a model: each is
a definition with a plausible mistake, used to see that a property notices it.

### SmokeHarness

`mode` tells whether `AOMP_SANITIZER` is set, and if so whether in `smoke-asan`
or in another directory, and with it which target a run job makes. `phase`, `at`,
`lrun` and `run` are the position of the script in its two loops; `SMOKE_DIRS`
is the sequence `SmokeDirs`. A job is one sub-shell started by `sem`; `pc` says
where it is, `rc` is the status of its test and `seen` tells whether its grep
found a line (`$mytest`). `lockfile` is `../lockfile`, held around an execution
and its report; `dirLock[t]` is `lockfile` in the directory of `t`.
`testStatus`, `fcStatus` and `built` are the files a run leaves there, `runLog`
names the jobs whose output is in `run.log`. The result files are numbers of
lines per test, since no reader depends on their order; `make-fail.txt` is split
in two because only one of its two kinds of lines has the colon the grep looks
for. The if chain over test names is the constant `Kind`, and the suffix
matching of the grep is `GrepMatches`. `LibraryFirst` are the tests whose first
make rule is a device library, as in `test/smoke/liba_bundled/Makefile`: their
build job builds the library only, and their run jobs compile the binary.

The script exports `AOMP_NO_PREREQ=1` before it starts its jobs (lines 223-226),
so `make check` takes a binary that is there and compiles only where the build
phase has left none. (A user who sets the variable to something else before is
not modelled.) The recipes run with `pipefail`, so a `make run`
fails with its test although it ends in `tee`.

The steps of a job are split where another job can be seen: clean, the test for
the binary (`Build`), the end of the compiler (`Compile`), grep, each lock, the
write of the status, the report. The write of `TEST_STATUS` and the
report are two steps although both are under the lock, because the lock is
exactly what `StatusMatchesReport` is about.

`Leftovers` are the tests of which an earlier session left a binary and status
files.

### SmokeSequential

One process, whose loops are `lrun`, `at`, `run` and, inside `flags`, the line `opt`
of `options.txt`. `env` is what the script may find in its environment: the skip
list, `SMOKE_LRUN`, `SMOKE_NRUN` and the sanitizer, chosen once. The rerun loop has
three exits (all rounds done, a timeout seen by the poll, a failing make that counts
the round itself), and what matters is what each of them leaves for the next round.
This branch does not export `AOMP_NO_PREREQ`: unless a test is in `NoPrereq` (its
Makefile sets the variable), the rule of its binary depends on a phony target and
`make check` compiles it again. `gatherdata` counts the files, `Cleanup` removes
them when `EPSDB` and `CLEANUP` do not forbid it. `make run` (`FreeRun`) and the
sub-tests of `flags` (`OptionRun`) execute a test without a time limit; the latter
hold `../lockfile` meanwhile (`flags/Makefile:33-46`).

### BuildSupp

`inst[c][v]` is the directory `install/c-v`: missing, partial or complete. `link[c]`
is the version the link leads to, possibly to a missing directory. `removed`
remembers the components whose link a user has left dangling by deleting the
directory behind it. The ten build functions follow one pattern, and the model has
one action per group of commands with the same effect on the disk. They differ in
three ways that the model keeps: `rocmsmilib` and `hwloc` configure before they
touch the install directory, `rocmsmilib` and `ninja` call the cmake of an earlier
component, `hwloc` looks for a `lib` directory of `rocmsmilib`. Where a file of a
partial installation is looked for, both answers are possible. The version a script
wants is fixed per invocation, because the checkout may change between invocations.

`Fault` is a failing command or a kill. `runcmd` exits at once, so both have the
same effect; an interrupted `rm -rf` leaves a partial directory.

### PatchRepo

The tree is a version number per region of source text, and a patch takes some
regions from one version to another; a region is what one patch changes in one
file, because `patch` goes from file to file. `AppliesForward` and
`PassesReverseTest` are its dry runs. The one for "already applied"
(`aomp_common_vars:518`) has `-R -t`: a file that does not look patched is checked
forward instead, so it passes when each file is on either side, and a tree in
which a kill has patched one of two files counts as patched. The dry run of
`removepatch` (`:557`) has `-f` and wants every file patched. The status of the
`patch` commands that rewrite (`:532`, `:564`) is not tested: a failure leaves any
subset of the files rewritten and the script goes on (`PatchCommandFails`), a kill
leaves the same and ends it. `cut` remembers the patches this has happened to since
they were last rewritten completely or pulled over. `build_rocr.sh` is the pattern
of the component scripts: it patches in every mode, builds, and in mode
`install` installs and reverses. `Pull` is `clone_aomp.sh` with its stash, and
`PullAomp` brings or drops patch files.

### BuildAomp

`request` is the list of components an invocation builds and the arguments it gives
to each script: none and then `install` when `build_aomp.sh` has none left
(`Driver`), or the one the user passes on. `pos` and `arg` are the position in the
two. A tree (of a build directory or of an installation) is described by the commit
it was made from and by what compiled its objects: the compiler of a commit, and for
the compiler itself the banner that `CommandLine.o` contains. `build_project.sh` is
modelled command by command: refusal of a physical `$AOMP`, sed of the banner into
`$TEMPCLFILE`, FRESH START, copy, cmake, make, install, the two commands that set
the link, and `git checkout` of the banner, which may fail unnoticed (`:281`). Three
other commands whose status is not tested, the `cp` of the banner (`:201`) and the
`rm` and `ln` of the link (`:264-266`), are taken to succeed unless the script is
killed: a failure would need a source tree or an install location that cannot be
written, and the steps around them would fail there too. The other component scripts
share the frame without banner and link; `build_extras.sh` is the example for the
refusal without a compiler. `Prereq` stands for `build_prereq.sh`, whose inside is
`BuildSupp`; the patches that some scripts apply are `PatchRepo`. `Update` is
`clone_aomp.sh` with its stash.

### CloneAomp

A manifest is a sequence of project lines whose attributes keep their order, because
the parser reads them from left to right: what the loop leaves is the last field of
each kind (`LastField`), where a revision counts as a pin (`Pins`) only after an
`upstream`, and `COBRANCH` is that of the line before when the line has no reference
of its own. A clone is the checked-out reference, the local and remote-tracking
branches with the number of commits they have, whether there are uncommitted
changes, and how many are stashed. What git does (`Fetched`, `PullWorks`, `Pulled`,
`CheckoutWorks`, `CheckedOut`) is external and modelled by its exit status and
effect: a pull fails on a detached HEAD or when the branch is gone upstream, a
checkout of a branch creates it from the remote-tracking one, and a hash in
`Missing` is not to be had from upstream, so that its checkout (`:94`) fails without
anybody noticing. Every command, test and early exit of `clone_or_pull` is a step,
with `IGNORE_GIT_ERROR` and `SINGLE_BRANCH` chosen per invocation. Around it
upstream commits or deletes branches, another manifest is pulled, developers edit
clones, the script is killed.

### RunRocmTest

`list` is `SUITE_LIST` or `EPSDB_LIST`; `at` and `step` are the position in it and
in the suite function `Function(list[at])`, which is the sequence of the scripts
it runs, each with whether its status reaches `checkrc`, and of its calls of
`copyresults`, each with whether it gets a directory (`$2`). A name that is no
function of the script is passed over (`CommandNotFound`). `world` is fixed for a
session: which test directories are whole, left over without a Makefile or gone,
which logs say "skipped", and which passes are expected.

`outcome[a][t]` is what a test did: the kinds of the lines it has left, or `"lost"`
for a failure that nothing tells of, such as a failing `make verify-log`
(`check_smoke.sh:307`, see `smoke_verify`). Any test may also leave no line at all:
it is skipped (`Makefile.rules:146-155`), or the script ends before it. A script may
end with any status, whatever results it leaves. With a second kind of line a test
counts twice: the branch of `smoke` runs a test whose build has failed
(`AfterMakeFailed`). `Words[<<t, k>>]` are the words of a line, because the loop
`for fail in $fails` (`run_rocm_test.sh:572`) sees words and not lines: the line of
a failing `make check` is `<test> make check failed: <rc>`
(`check_smoke.sh:317`, `:420`), of which the driver strips nothing, and the name of
a sub-test of `flags` ends in its number. `Misread` are the things that are taken back
for nothing: further words of a line, and once more a test whose directory is left
over and has an old `run.log` that says "skipped", which `:562` and `:587` both take
back. `Home(t)` is the first word, the directory of the test.

The totals may be negative, as in the script. `numtests` is a variable because the
script never resets it. The model is of one session with `SMOKE_NRUN=1`, the
default, so that a test is one round.

## What the runs show

`expect` is pass unless stated otherwise.

| run | instance | what it shows |
|---|---|---|
| `smoke_rerun` | `teams` and `liba_bundled_fullpath`, two runs each, two build and two run slots, all three modes, directories with the files of an earlier session | types, status file, phases, no lost run, refinement of `ResultBook`, reruns given up for timeouts only |
| `smoke_kinds` | `liba_bundled`, `devices`, `pfspecifier`, `gpus`, an unsupported test and an absent one | every path through the if chain; `verify_output` searches the output of its own run; the script ends unless an untimed `make run` hangs |
| `smoke_verify` (violation) | `omp_places` | a failing test that is checked by its output is in no result file |
| `seq_rounds` | one test of each kind; four environments: nearly all of them once, reruns in two list iterations, `flags` and a bundled test, the sanitizer | one line per round, timeouts not rerun, reruns given up for timeouts only, refinement of `ResultBook`, the script ends unless an execution without a time limit hangs |
| `supp_prereq` | cmake, rocmsmilib, hwloc, openmpi; two versions; two faults; requests with a wrong name, without a prerequisite and without clang; the user deletes directories | links, exit status, working components survive, repair by rerunning |
| `patch_repo` | two patches, one over two files, three faults; upstream takes over a patch, half of one, or conflicts; patch files go missing | what is compiled is patched and what an install leaves is clean, but for patches that were cut short or are (half) merged; no torn tree is refused; recovery by pulling |
| `patch_merged` (violation) | upstream takes over a patch | the install reverses what it has not applied |
| `build` | prerequisites, compiler, openmp; two commits; two faults; `select` in the wrong order; scripts by hand with every argument | exit status 0, order, banner, repair by the full build |
| `clone` | two repositories and the skipped `aomp`; two branches, two pinned hashes of which upstream has one; one upstream change, one fault, two edits of one repository; three environments | success means up to date and on the reference of the own line, local work, pullable branches, convergence |
| `clone_again` (violation) | release manifests with a tag or a pinned hash | the second call fails |
| `rocm` | lists of two or three suites, up to two tests each with every kind of line and none, with a removed, a left-over or an unsupported test and a missing list of expected passes, with and without `EPSDB` | the verdict, and what the total may be |
| `rocm_flags` (violation) | three tests of `smoke`, one of them a sub-test of `flags` | one failing `make check` makes the total -3 |

### The properties

- `SmokeHarness`: `StatusMatchesReport` (a reporting run reads its own status),
  `PhasesSeparate`, `EveryRunReported`, `IsResultBook`, `VerifiesOwnLog`,
  `GivesUpOnlyTimeouts` (a status file of an earlier session or of another run
  never drops reruns), `ReportsUnlessRunHangs`.
- `SmokeSequential`: `OneLinePerRound`, `TimeoutsNotRerun`,
  `GivesUpOnlyTimeouts`, `IsResultBook`, `EndsUnlessRunHangs`.
- `BuildSupp`: `LinkedIsComplete`, `ExitZeroMeansUsable`, `OnlyRelinkBreaks`,
  `RerunsRepair`.
- `PatchRepo`: `BuildsPatched` (what is compiled has every listed patch, except one
  that was cut short since the last pull or that upstream has half of; those two
  pass for patched, and nothing else does), `CleanUnlessMerged`,
  `RefusesOnlyAtOdds` (a patch is refused only when its file is missing or upstream
  has text it does not know: no kill locks the developer out), `PullRecovers`.
- `BuildAomp`: `SuccessIsComplete` (of a full build, or of `continue` from the
  first component that was missing: everything is installed from the checked-out
  commit and compiled by that commit's compiler only), `BannerIsTrue` (the
  "Source ID" a compiler prints is its commit), `BuildsInOrder`, `Completes`.
- `CloneAomp`: `UpToDateOnSuccess`, `KeepsLocalWork`, `BranchesCanBePulled`,
  `Converges`.
- `RunRocmTest`: `GreenIsClean` (green: no tested script failed and, where nothing is
  misread, every failed test is removed, unsupported, or has left no line and could
  not be noticed), `RedHasReason`, `TakesBackNoMore` (of the real failures at most one
  is missing from the total for each thing that is misread), `CountsOnce`.
  `TakesBackOnlyExcused`, which the script's comment claims, is what `rocm_flags`
  refutes.

### Bounds

The harness hazards need two runs of one test and one of another: with two slots
every pair of jobs overlaps in every way. The script allows four run slots; with
the single `../lockfile` the third and fourth job can only wait or be in steps
that two jobs already interleave. `MaxNrun` only bounds the set of jobs, it is
not reached by a guard. Tests that are checked by their output have single runs
in `smoke_kinds`, see below.

`MaxFaults` bounds failing commands and kills: two faults tear two different
components or versions, or the same one twice; three tear two patches and interrupt
the repair. Two versions, or two commits, are enough for something to be right or
stale. In `build` one component after the compiler is enough to see objects of the
wrong compiler. The instance of `supp_prereq` has no component from a package; the
packages and the branch for rpm systems are in the model and in its proofs. In
`clone` one upstream change, one fault and two edits are combined with four
manifests and three environments in any order; two changes exceed what TLC can
search in minutes. `Edited` bounds the edits to one repository, because the script
treats repositories alike and one after the other; with two edits two sets of local
changes are in its stash. In `rocm` two tests of a suite are enough for one to be
excused and another to be hidden; the lists have each pair of shapes of a suite
(must pass, expected passes with and without directories, several results
directories), in both orders where numbers are carried along.

The `violation` runs state what a comment or document says. They are listed as
findings with the quoted lines.

### Fairness

`SmokeHarness` and `SmokeSequential`: weak fairness of the script and of each
job, except for the untimed `make run`. Compilers end, tests under `../lockfile`
are killed by `timeout` or are a `verify_output` that searches a log, and
`flock` serves a waiter once the finitely many others are done, so weak fairness
is enough. Nothing is assumed of the untimed runs, nor in `SmokeSequential` of the
sub-tests of `flags`, which hold the lock without a time limit;
`ReportsUnlessRunHangs` and `EndsUnlessRunHangs` have their ending as a hypothesis.

`BuildSupp`, `PatchRepo`, `BuildAomp` and `CloneAomp`: the script makes progress
(weak: its commands end), and a user who needs the result invokes it again and
again (strong, since the script is not idle all the time): each argument list of
`build_supp.sh`, pulls and installs, the full build, the clone script with its
errors reported; what a killed `git clone` leaves is removed by hand. Faults are
finitely many. `RerunsRepair`, `PullRecovers`, `Completes` and `Converges` hold
only under this assumption on the user, which is what they are about.

`RunRocmTest` has no liveness property: it is a loop over a finite list.

The two harness models stop after the report because the script exits; their
configurations switch the deadlock check off. In the other modules something can
always be invoked (`RunRocmTest` stays where it is after its verdict), and
deadlock is checked.

## What is proved

Every safety property, action property and refinement that a passing run checks
is also a theorem: TLAPS proves it for every value of the constants, from the
named assumptions on them, so without the bounds above. Every invariant named
below was checked by TLC on the run's instance before it was proved. Where a
theorem has a hypothesis beside the assumptions of its module, it is named, and
said why the code justifies it.

### `SmokeHarness_proofs`

- `TypeCorrect`: `TypeOK` together with `InLoop`, which says that a run is only
  submitted and polled inside both loops. Without it `run + 1` could leave its
  range and a job could be submitted that does not exist.
- `PhasesStaySeparate` (`PhasesSeparate`): `PhasesSeparate` alone is not
  inductive, because it does not say which kind of job belongs to which phase.
  `Slots` does, and adds that finitely many jobs are active. The proof rests on
  two lemmas about what a step may do to the jobs (`DispatcherMoves`,
  `JobMoves`) and one about counting (`OneMoreSlot`).
- `ReportsOwnStatus` (`StatusMatchesReport`): needs that the job that executes or
  reports holds `../lockfile` (`Holder`), that only build jobs run `make clean`
  and only run jobs take the lock (`Roles`), and `Slots`, since what keeps a
  `make clean` away from a report is the wait between the loops.
- `OnlyTimeoutsGiveUp` (`GivesUpOnlyTimeouts`): a status of 124 on disk is that of
  an execution of this session once its directory has been cleaned (`Timeouts`),
  because no job is submitted out of the order of the two loops (`Ordered`) and
  every submitted job is one the loops ask for (`Wanted`).
- `ImplementsResultBook` (`IsResultBook`): each step of the harness is one line
  more in one file, the report, or a stutter of `ResultBook`. The report comes
  when no job is left (`Quiet`); the two halves of `make-fail.txt` are one file of
  the book; that the totals are numbers is `SumType` of `CountingLemmas`.
- `VerifiesItsRun` (`VerifiesOwnLog`): from the start of an execution to the end of
  its verification `run.log` holds its output only (`OwnLog`). The hypothesis is
  `OneRun`: one list iteration and one run of each test that is checked by its
  output, which are the defaults of `check_smoke.sh:155-156`. Without it the
  property is false (see the divergences).
- `NoRunIsLost` (`EveryRunReported`): for each test the number of its lines is the
  number of its runs that have ended and did not leave the line to another job,
  plus at most one of its build (`Accounts`). It needs which recipe a job can be
  in (`Paths`) and that a job has a status exactly when it has executed once
  (`OnceRun`).

### `SmokeSequential_proofs`

The assumptions on the constants add two facts: the set of test directories is
finite, and only one of them is `flags` (the name is compared in the loop).

- `TypeCorrect`: `TypeOK` and the positions of the loops (`PosOK`), the files
  (`DiskOK`) and the counters (`BookOK`).
- `RoundsLeaveOneLine` (`OneLinePerRound`): between rounds the lines of a test are
  as many as its rounds (`Balanced`); inside a round the line of the test at hand
  is missing, and of `flags` those of the options to come (`LineMissing`), so each
  way out of the round has to add exactly one.
- `TimeoutsEndTheReruns` (`TimeoutsNotRerun`) and `OnlyTimeoutsGiveUp`: a test that
  has timed out is on file when its round is polled, and no list iteration knows a
  timeout of a test it has not reached (`NotYet`); in the other direction, a status
  of 124 on file belongs to an execution of this session (`OfThisSession`).
- `ImplementsResultBook`: the same book by one process, with `Cleanup` as the only
  step that removes the files, after the report.

### `BuildSupp_proofs`

- `TypeCorrect`: `TypeOK` together with `InBody`, which says that a build step
  only runs for a known component at a position of the request. `TypeOK` alone
  is not inductive since the steps index the request.
- `LinksAreComplete` (`LinkedIsComplete`) and `ExitZeroIsUsable`
  (`ExitZeroMeansUsable`), both from the same inductive invariant `Safe`. That
  links lead to complete installations does not follow from itself: one needs
  that a version is only built while the link leads elsewhere
  (`BuildsUnlinked`), that the link is set only to what has been installed
  (`LinksInstalled`), that the components already passed are linked in the
  wanted version (`PassedLinked`), and that an exit with 0 is reached only at the
  end or at an invalid name (`StoppedEarly`). Both except (`Reliable`) the
  components whose link a user has left dangling (`removed`), and packages
  unpacked by `rpm2cpio | cpio`, whose exit status the script ignores.
- `OldVersionStays` (`OnlyRelinkBreaks`): here the exceptions are not needed. Where
  the link already leads to the directory that is being built, that directory was
  missing when the build began (`Aside`), so that no usable installation is lost.

### `PatchRepo_proofs`

- `TypeCorrect`: `TypeOK`, and a script that runs has not ended (`Open`).
- `BuildsArePatched` (`BuildsPatched`), `InstallCleans` (`CleanUnlessMerged`) and
  `RefusalsAreJustified` (`RefusesOnlyAtOdds`) under the hypothesis `Disjoint`: no
  two patches rewrite the same text. Reversing in the order of application is right
  only then, and the control files are written that way: every line of every
  `patch-control-file*.txt` under `bin/` and `f18bin/` names exactly one patch, so
  that a list of several can only come from a control file of a user. The invariant
  `Safe` says which patches of the list are in the tree at each position of the two
  walks (`Walked`), that where a patch reaches the tree has upstream's text or one
  of the patch's two sides (`Kept`), that nothing else is touched (`Outside`), that
  a patch is torn only when it has been cut short or upstream has half of it
  (`Whole`), and what an install has left (`Reversed`), which a pull may change but
  not spoil.

### `BuildAomp_proofs`

The assumption on `Order` says that nothing but `prereq` comes before the compiler
(`aomp_common_vars:83`, `build_aomp.sh:103`).

- `TypeCorrect`: `ControlOK`, `StepOK`, `DiskOK`.
- `BannerTellsTheCommit` (`BannerIsTrue`): follows the banner through the source
  file, `$TEMPCLFILE`, the build directory and the installation (`Bannered`,
  `Named`): the file names no commit or the checked-out one, and that one between
  sed and `git checkout`.
- `InstallsInOrder` (`BuildsInOrder`) and `SuccessMeansComplete`
  (`SuccessIsComplete`), from `Walk`: for every position of the list at which an
  invocation may have begun, the components done so far are up to date
  (`DoneBefore`), and the trees of the one at hand are empty or good as its step
  requires (`AtHand`). The start at any position is what makes `continue` from the
  first missing component part of the theorem.

### `CloneAomp_proofs`

- `TypeCorrect`: besides the types, a command of `clone_or_pull` runs only for a
  line that passed `IsGood` (`PlaceOK`), `git clone` only where there is no
  directory (`ClonesOK`), and only a repository can hold local work.
- `LocalWorkIsKept` (`KeepsLocalWork`): every command of a line leaves the clone at
  hand with the same work, uncommitted or stashed (`Kept`), and touches no other;
  a kill spoils only the directory that `git clone` was making.
- `SuccessMeansUpToDate` (`UpToDateOnSuccess`): `COBRANCH` and `COSHAKEY` are those
  of the line at hand (`Parsed`), upstream only goes on while the script runs
  (`Onward`), and the lines passed are on their reference and as new as upstream
  was at the start (`Walked`, which also says what the second pull and the pin
  may rely on). Where upstream does not have a pinned hash, the clone is on the
  branch of its line.
- `BranchesPull` (`BranchesCanBePulled`): after a success every listed clone is on
  its branch, which upstream still has (`Settled`), and from there no command can
  fail by itself (`AtSettled`). Edits, commits upstream and further calls, with
  `IGNORE_GIT_ERROR` or without, keep it.

The last two have the hypothesis `WellFormed` on the manifests: a line the script
acts on has a reference, what it pins is a hash, and no two such lines have the
same path. Every file in `manifests/` is like that.

### `RunRocmTest_proofs`

- `TypeCorrect`: places, files and counters; `scriptfails` and `numtests` are natural
  numbers and the exit status is a byte, although the total may be negative.
- `GreenTellsTheTruth` (`GreenIsClean`): what has been copied is not run again
  (`Placed`), so the count of a suite stays that of its files, and the total is at
  least the sum of the real failures of the suites that count, less what was misread
  (`AtLeast`). Where nothing was, a total of at most 0 leaves no real failure.
- `RedIsJustified` (`RedHasReason`): when `numtests` is not 0, a suite without passes
  has failures (`Carried`), and a positive total is due to one of them or to a
  suite that counts (`Reason`).
- `NoFailureIsDropped` (`TakesBackNoMore`) and `NoFailureIsDoubled` (`CountsOnce`)
  bound the total from both sides by sums over the suites (`AtLeast`, `AtMost`,
  `Leftover`).

All but the first have one hypothesis, `SuitesOnce`: a list names a suite once, as
both default lists (`run_rocm_test.sh:68-74`) do. The number of words of a line,
which tests leave one, the state of the directories and the logs are arbitrary.

### `CountingLemmas`

Sums over finite sets are defined by folds, and the induction theorems of the
library cannot be instantiated here. The lemmas go another way: a set of natural
numbers has a least element (`LeastNumber`), a nonempty set of finite sets a
smallest one (`MinimalSet`); so a sum that is not a number, or not what it should
be, would be so for a smallest set, and taking one element away gives a smaller
one. `SumBump` (one term grows by one), `SumMore` (monotonicity), `SumBySets` and
`SumZero` are what the proofs use.

### What is only model-checked

Liveness (`ReportsUnlessRunHangs`, `EndsUnlessRunHangs`, `RerunsRepair`,
`PullRecovers`, `Completes`, `Converges`), because the prover does not know
`ENABLED`, so nothing that rests on fairness can be proved; and, for the same
reason, the absence of deadlocks in the five modules whose runs check it. The four
properties of the violation runs are false.


## Known divergences without a run of their own

Met while modelling; each follows from the quoted lines and the models have it.

- `check_smoke.sh:325` says "don't rerun timeouts", but the parallel branch polls
  `TEST_STATUS` right after it has put the run into the background, so a test
  that times out may be run again. `GivesUpOnlyTimeouts` states the direction
  that holds.
- `Makefile.rules:113`: with `SMOKE_NRUN > 1` concurrent reruns of a test that is
  checked by its output write the same `run.log` outside the lock, and the
  verdict may be about the output of another rerun.
- With the sanitizer the poll reads the status of FileCheck, which is never 124:
  timeouts are rerun.
- `build_supp.sh:122` takes any directory behind a link for the installation;
  after a deletion and a failed rebuild the next invocation skips the component.
- `removepatch` (`aomp_common_vars:552`) reverses in the order of application, so
  two patches of one region do not reverse.
- `aomp_common_vars:518` accepts a tree that a kill or a failing `patch` has torn, and
  one into which upstream has taken half of a patch, as already applied: it is built
  patched in part, and the `-f` of `removepatch` then leaves it. `BuildsPatched` and
  `CleanUnlessMerged` except exactly these patches.
- `build_project.sh:172`: with `STASH_BEFORE_PULL=NO` a banner left by a failed
  build survives the pull, sed no longer matches, and the new compiler names the
  old commit (the mutant of `BannerIsTrue`).
- `clone_aomp.sh:263` takes a revision for a pin only after `upstream=`; in
  `manifests/aomp_new_17.0.xml:30` it comes before, and the pin is ignored. Lines
  with a remote the script does not know (`roctools`, `rocsw`) are passed over
  with exit status 0.
- When upstream deletes the branch an existing clone is on, the first `git pull`
  (`clone_aomp.sh:53`) fails in every later call; `Converges` has its existence
  as a hypothesis.
- `clone_aomp.sh:94`: a clone whose pinned hash upstream does not have stays on its
  branch, with exit status 0 (`Target`).
- `build_project.sh:281`: when the `git checkout` fails, a successful install leaves
  the banner; the next `clone_aomp.sh` stashes it.
- `run_rocm_test.sh:667` adds to `numtests` of earlier suites; `CountsOnce` and
  `RedHasReason` except exactly this case. `:562` and `:587` both take a test back
  that is left over without a Makefile and has an old log with "skipped"; `Misread`
  counts it.
- `run_rocm_test.sh:572` splits lines into words (`rocm_flags`). A total below 0 gives a
  green verdict with an exit status that is not 0: -3 becomes 253.
- A test that fails without a line (`smoke_verify`) is not counted in a suite that must
  pass, and is taken for a removed one where tests are looked up in the results:
  `Unnoticed`.
- `run_rocm_test.sh:74`: `EPSDB_LIST` names `examples_fortran` and
  `examples_openmp`, which are no functions; the two suites never run
  (`CommandNotFound`).

## What is not modelled

The parts listed as `not_modelled` in `PROJECT.json`, and of the modelled parts:
`printfails` and the colours and texts of the harness, `flags` in the parallel
branch (it is the same synchronous loop as in the sequential one), reruns of
tests that are checked by their output; `DRYRUN` and two concurrent invocations
of `build_supp.sh`; the `postinstall` patches; `AOMP_STANDALONE_BUILD=0` and the
performance, debug and ASan variants of `build_openmp.sh`; the option `list` and
the links to `hsa-runtime` of `clone_aomp.sh`; of `run_rocm_test.sh` the choice of
lists and expected passes by version, the suites `smokefails`, `smoke-asan`,
`smoke-fort-limbo`, `LLNL`, `accel2023`, `hpc2021`, `OpenMP_VV` and
`fortran-babelstream`, which are functions of the same two shapes, and sessions with
`SMOKE_NRUN` or `SMOKE_LRUN` above 1. Test programs are reduced to their exit status
and compilers to success or failure.

`merge_from_main.sh` is one straight sequence of git commands in which every
status is hidden by `tee`; a module would restate that. `run_test_suite.sh`, the
release, docker and benchmark scripts have no state that a later step could
find in an unexpected condition. The older check scripts are copies of loops that
`SmokeSequential` models.

Most C, C++ and Fortran files of the repository are inputs: test programs and
examples whose outcome the harness observes, and generated programs such as
`examples/stress/many_regions/main.c`. A model of them would say nothing about
AOMP's own program, which is in the shell scripts and makefiles that the modules
map to. So a count of mapped lines over C and C++ files alone is near zero.

## Plan

Modelling is complete as far as the parts above go, and so are the proofs of the
safety properties. What is left:

1. Progress without `ENABLED`: a theorem that in every reachable state of the two
   harnesses the guard of some step holds, and that a measure of the work left gets
   smaller with every step of the script and of the jobs. It would reduce the two
   liveness properties to the fairness of single steps.
2. What the hypothesis `OneRun` excludes: which log is verified when tests that are
   checked by their output are rerun. Sessions of `RunRocmTest` with several rounds.
3. `PatchRepo` with patches that share text: which lists of patches the order of
   `removepatch` reverses, instead of `Disjoint`.
4. The other check scripts as further refinements of `ResultBook`, where their
   older loops differ from `SmokeSequential`.
