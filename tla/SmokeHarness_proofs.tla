------------------------ MODULE SmokeHarness_proofs ------------------------
(***************************************************************************)
(* Proofs about SmokeHarness for every set of tests, every number of        *)
(* reruns, list iterations and jobs.                                        *)
(***************************************************************************)
EXTENDS SmokeHarness, FiniteSetTheorems, TLAPS

\* While a run is submitted and polled, the loop variables are inside their
\* loops.
InLoop ==
    phase \in {"run2", "poll"} =>
        lrun < SmokeLrun /\ at <= Len(SmokeDirs) /\ run < MyNrun(Dir)

Types == TypeOK /\ InLoop

\* A build job and the run jobs of the current position have identifiers.
LEMMA JobsExist ==
    /\ \A t \in Dirs : MakeJob(t) \in JobIds
    /\ \A t \in Dirs, w \in {"run", "check"}, l, r \in Nat :
          l < SmokeLrun /\ r < MyNrun(t) =>
              [test |-> t, l |-> l, r |-> r, what |-> w] \in JobIds
<1>1. \A t \in Dirs : MakeJob(t) \in JobIds
  BY DEF JobIds
<1>2. ASSUME NEW t \in Dirs, NEW w \in {"run", "check"}, NEW l \in Nat,
             NEW r \in Nat, l < SmokeLrun, r < MyNrun(t)
      PROVE  [test |-> t, l |-> l, r |-> r, what |-> w] \in JobIds
  <2>1. MyNrun(t) \in Nat /\ MyNrun(t) <= MaxNrun /\ MaxNrun \in Nat
    BY ConstantsAssumption DEF MyNrun
  <2>2. l \in 0..(SmokeLrun - 1) /\ r \in 0..(MaxNrun - 1)
    BY <1>2, <2>1, ConstantsAssumption
  <2> QED
    BY <2>2 DEF JobIds, RunJobIds
<1> QED
  BY <1>1, <1>2

\* The test of a job is a test.
LEMMA JobTest == \A j \in JobIds : j.test \in Dirs
BY DEF JobIds, RunJobIds, MakeJob

\* A result file stays a number of lines per test.
LEMMA BumpType ==
    ASSUME NEW file \in [Dirs -> Nat], NEW t \in Dirs
    PROVE  Bump(file, t) \in [Dirs -> Nat]
BY DEF Bump

\* Initially every variable is in its type.
LEMMA InitTypes == Init => Types
BY ConstantsAssumption DEF Init, Types, TypeOK, InLoop, Phases, JobPcs, Status

\* Every step of the script keeps every variable in its type.
LEMMA DispatcherTypes == Types /\ Dispatcher => Types'
<1> SUFFICES ASSUME Types, Dispatcher PROVE Types'
  OBVIOUS
<1>1. /\ SmokeLrun \in Nat /\ MaxNrun \in Nat /\ Len(SmokeDirs) \in Nat
      /\ \A n \in 1..Len(SmokeDirs) : SmokeDirs[n] \in Dirs
      /\ \A t \in Dirs : MyNrun(t) \in Nat /\ MyNrun(t) <= MaxNrun
  BY ConstantsAssumption DEF MyNrun
<1> USE DEF Types, TypeOK, InLoop, diskVars, bookVars, totals
<1>2. CASE MakeSkip
  BY <1>1, <1>2 DEF MakeSkip
<1>3. CASE MakeGpus
  <2>1. /\ at \in 1..Len(SmokeDirs) /\ Dir \in Dirs
        /\ at' \in 1..(Len(SmokeDirs) + 1)
    BY <1>1, <1>3 DEF MakeGpus, Dir
  <2>2. built' \in [Dirs -> BOOLEAN]
    BY <1>3 DEF MakeGpus
  <2>3. passing' \in [Dirs -> Nat] /\ makeFailed' \in [Dirs -> Nat]
    <3>1. /\ Bump(passing, Dir) \in [Dirs -> Nat]
          /\ Bump(makeFailed, Dir) \in [Dirs -> Nat]
      BY <2>1, BumpType
    <3>2. /\ passing' \in {passing, Bump(passing, Dir)}
          /\ makeFailed' \in {makeFailed, Bump(makeFailed, Dir)}
      BY <1>3 DEF MakeGpus
    <3> QED
      BY <3>1, <3>2
  <2>4. /\ testStatus' \in [Dirs -> Status \cup {NoFile}]
        /\ fcStatus' \in [Dirs -> Status \cup {NoFile}]
    BY <1>3 DEF MakeGpus
  <2> QED
    BY <1>3, <2>1, <2>2, <2>3, <2>4 DEF MakeGpus
<1>4. CASE MakeSubmit
  BY <1>1, <1>4, JobsExist DEF MakeSubmit, Submit, Dir, JobPcs
<1>5. CASE MakeLoopEnd
  BY <1>5 DEF MakeLoopEnd, Phases
<1>6. CASE MakeWait
  BY <1>1, <1>6 DEF MakeWait, Phases
<1>7. CASE RunNextDir
  BY <1>1, <1>7 DEF RunNextDir, InRunLoop
<1>8. CASE RunGpus
  BY <1>8 DEF RunGpus, InRunLoop, Phases, Dir
<1>9. CASE RunSubmit
  BY <1>1, <1>9, JobsExist DEF RunSubmit, InRunLoop, Submit, Phases, Dir, JobPcs
<1>10. CASE RunSubmit2
  BY <1>1, <1>10, JobsExist DEF RunSubmit2, Submit, Phases, Dir, JobPcs
<1>11. CASE Poll
  <2>1. /\ at \in 1..Len(SmokeDirs) /\ Dir \in Dirs
        /\ run \in Nat /\ run < MyNrun(Dir)
    BY <1>1, <1>11 DEF Poll, Dir
  <2>2. run + 1 \in 0..MaxNrun /\ at + 1 \in 1..(Len(SmokeDirs) + 1)
    BY <1>1, <2>1
  <2>3. at' \in 1..(Len(SmokeDirs) + 1) /\ run' \in 0..MaxNrun
    BY <1>1, <1>11, <2>2 DEF Poll
  <2> QED
    BY <1>11, <2>3 DEF Poll, Phases
<1>12. CASE RunNextList
  BY <1>1, <1>12 DEF RunNextList
<1>13. CASE RunLoopEnd
  BY <1>13 DEF RunLoopEnd, Phases
<1>14. CASE Gather
  BY <1>14 DEF Gather, Phases
<1> QED
  BY <1>2, <1>3, <1>4, <1>5, <1>6, <1>7, <1>8, <1>9, <1>10, <1>11, <1>12,
     <1>13, <1>14 DEF Dispatcher

\* Every step of a job keeps every variable in its type.
LEMMA JobTypes == Types /\ (\E j \in JobIds : JobStep(j)) => Types'
<1> SUFFICES ASSUME Types, NEW j \in JobIds, JobStep(j) PROVE Types'
  OBVIOUS
<1> USE JobTest
    DEF Types, TypeOK, InLoop, JobPcs, Goto, Dir, dispVars, diskVars,
        bookVars, totals
<1>1. CASE Clean(j)
  BY <1>1 DEF Clean
<1>2. CASE Build(j)
  BY <1>2 DEF Build, OnBuildSuccess
<1>3. CASE Compile(j)
  BY <1>3 DEF Compile, OnBuildSuccess, OnBuildFailure
<1>4. CASE Grep(j)
  BY <1>4 DEF Grep
<1>5. CASE LockFail(j)
  BY <1>5 DEF LockFail
<1>6. CASE AppendFail(j)
  BY <1>6, BumpType DEF AppendFail
<1>7. CASE VerifyBuild(j)
  BY <1>7 DEF VerifyBuild
<1>8. CASE Lock(j)
  BY <1>8 DEF Lock
<1>9. CASE Execute(j)
  BY <1>9 DEF Execute, Status
<1>10. CASE Report(j)
  BY <1>10, BumpType DEF Report
<1>11. CASE RunFree(j)
  <2>1. PICK where \in {"vbuild", "done"} : pc' = [pc EXCEPT ![j] = where]
    BY <1>11 DEF RunFree
  <2> QED
    BY <1>11, <2>1 DEF RunFree
<1>12. CASE RunStart(j)
  BY <1>12 DEF RunStart
<1> QED
  BY <1>1, <1>2, <1>3, <1>4, <1>5, <1>6, <1>7, <1>8, <1>9, <1>10, <1>11, <1>12
  DEF JobStep, BoundedStep

\* Types is an invariant.
LEMMA TypesInvariant == Spec => []Types
<1>1. Types /\ UNCHANGED vars => Types'
  BY DEF Types, TypeOK, InLoop, Dir, vars
<1>2. Types /\ [Next]_vars => Types'
  BY <1>1, DispatcherTypes, JobTypes DEF Next
<1> QED
  BY <1>2, InitTypes, PTL DEF Spec

\* The script's position stays inside its loops, every job at one of its
\* control points and every file in its type.
THEOREM TypeCorrect == Spec => []TypeOK
<1>1. Types => TypeOK
  BY DEF Types
<1> QED
  BY <1>1, TypesInvariant, PTL

-----------------------------------------------------------------------------
(* What a step does to the jobs.                                           *)

Building == phase \in {"make", "makewait"}

\* The script starts at most one job in a step, in a free slot and of the kind
\* its phase is about, and enters the second phase only without active jobs.
LEMMA DispatcherMoves ==
    Types /\ Dispatcher =>
        /\ UNCHANGED <<rc, lockfile>>
        /\ \/ UNCHANGED pc /\ (Building' <=> Building)
           \/ UNCHANGED pc /\ Active = {} /\ ~Building'
           \/ /\ Building /\ Building' /\ HasSlot(JobThreads)
              /\ \E j \in JobIds : /\ j.what = "make"
                                   /\ pc' = [pc EXCEPT ![j] = "clean"]
           \/ /\ ~Building /\ ~Building' /\ HasSlot(RunJobs)
              /\ \E j \in JobIds : /\ j.what # "make"
                                   /\ pc' = [pc EXCEPT ![j] = "build"]
<1> SUFFICES ASSUME Types, Dispatcher
             PROVE  /\ UNCHANGED <<rc, lockfile>>
                    /\ \/ UNCHANGED pc /\ (Building' <=> Building)
                       \/ UNCHANGED pc /\ Active = {} /\ ~Building'
                       \/ /\ Building /\ Building' /\ HasSlot(JobThreads)
                          /\ \E j \in JobIds :
                                /\ j.what = "make"
                                /\ pc' = [pc EXCEPT ![j] = "clean"]
                       \/ /\ ~Building /\ ~Building' /\ HasSlot(RunJobs)
                          /\ \E j \in JobIds :
                                /\ j.what # "make"
                                /\ pc' = [pc EXCEPT ![j] = "build"]
  OBVIOUS
<1>1. /\ SmokeLrun \in Nat /\ Len(SmokeDirs) \in Nat
      /\ \A n \in 1..Len(SmokeDirs) : SmokeDirs[n] \in Dirs
      /\ \A t \in Dirs : MyNrun(t) \in Nat
  BY ConstantsAssumption DEF MyNrun
<1>2. CASE MakeSubmit
  <2>1. Dir \in Dirs
    BY <1>1, <1>2 DEF MakeSubmit, Dir, Types, TypeOK
  <2>2. MakeJob(Dir) \in JobIds /\ MakeJob(Dir).what = "make"
    BY <2>1, JobsExist DEF MakeJob
  <2> QED
    BY <1>2, <2>2 DEF MakeSubmit, Submit, Building
<1>3. CASE RunSubmit
  <2> DEFINE j == [test |-> Dir, l |-> lrun, r |-> run,
                   what |-> IF Kind[Dir] = "visual" THEN "run" ELSE "check"]
  <2>1. /\ Dir \in Dirs /\ lrun \in Nat /\ lrun < SmokeLrun
        /\ run \in Nat /\ run < MyNrun(Dir)
    BY <1>1, <1>3 DEF RunSubmit, InRunLoop, Dir, Types, TypeOK
  <2>2. j \in JobIds /\ j.what # "make"
    BY <2>1, JobsExist
  <2>3. pc' = [pc EXCEPT ![j] = "build"]
    BY <1>3, <2>2 DEF RunSubmit, Submit
  <2> HIDE DEF j
  <2> QED
    BY <1>3, <2>2, <2>3 DEF RunSubmit, InRunLoop, Submit, Building
<1>4. CASE RunSubmit2
  <2> DEFINE j == [test |-> Dir, l |-> lrun, r |-> run, what |-> "check"]
  <2>1. /\ Dir \in Dirs /\ lrun \in Nat /\ lrun < SmokeLrun
        /\ run \in Nat /\ run < MyNrun(Dir)
    BY <1>1, <1>4 DEF RunSubmit2, InLoop, Dir, Types, TypeOK
  <2>2. j \in JobIds /\ j.what # "make"
    BY <2>1, JobsExist
  <2>3. pc' = [pc EXCEPT ![j] = "build"]
    BY <1>4, <2>2 DEF RunSubmit2, Submit
  <2> HIDE DEF j
  <2> QED
    BY <1>4, <2>2, <2>3 DEF RunSubmit2, Submit, Building
<1>5. CASE MakeWait
  BY <1>5 DEF MakeWait, AllDone, Building
<1>6. CASE MakeSkip \/ MakeGpus \/ MakeLoopEnd
  BY <1>6 DEF MakeSkip, MakeGpus, MakeLoopEnd, Building
<1>7. CASE RunNextDir \/ RunGpus \/ Poll \/ RunNextList \/ RunLoopEnd \/ Gather
  BY <1>7 DEF RunNextDir, RunGpus, InRunLoop, Poll, RunNextList, RunLoopEnd,
              Gather, Building
<1> QED
  BY <1>2, <1>3, <1>4, <1>5, <1>6, <1>7 DEF Dispatcher

\* A job moves itself only, while it is active, and never back to "idle".
LEMMA JobMoves ==
    ASSUME NEW j \in JobIds, JobStep(j)
    PROVE  /\ pc[j] \notin {"idle", "done"} /\ phase' = phase
           /\ \E w : w # "idle" /\ pc' = [pc EXCEPT ![j] = w]
<1>1. OnBuildSuccess(j) # "idle" /\ OnBuildFailure(j) # "idle"
  BY DEF OnBuildSuccess, OnBuildFailure
<1> USE DEF Goto, dispVars
<1>2. CASE Clean(j) \/ Grep(j) \/ LockFail(j) \/ AppendFail(j)
  BY <1>2 DEF Clean, Grep, LockFail, AppendFail
<1>3. CASE Build(j)
  BY <1>1, <1>3 DEF Build
<1>4. CASE Compile(j)
  BY <1>1, <1>4 DEF Compile
<1>5. CASE RunStart(j) \/ RunFree(j) \/ VerifyBuild(j) \/ Lock(j)
  BY <1>5 DEF RunStart, RunFree, VerifyBuild, Lock
<1>6. CASE Execute(j) \/ Report(j)
  BY <1>6 DEF Execute, Report
<1> QED
  BY <1>2, <1>3, <1>4, <1>5, <1>6 DEF JobStep, BoundedStep

-----------------------------------------------------------------------------
(* The phases and the slots.                                               *)

Slots ==
    /\ IsFiniteSet(Active)
    /\ Building => /\ \A j \in Active : j.what = "make"
                   /\ Cardinality(Active) <= JobThreads
    /\ ~Building => /\ \A j \in Active : j.what # "make"
                    /\ Cardinality(Active) <= RunJobs

\* One more active job needs at most one more slot.
LEMMA OneMoreSlot ==
    ASSUME Slots, NEW j \in JobIds, NEW n \in Nat, HasSlot(n),
           Active' \in SUBSET (Active \cup {j})
    PROVE  IsFiniteSet(Active') /\ Cardinality(Active') <= n
<1> DEFINE More == Active \cup {j}
<1>1. IsFiniteSet(Active) /\ Cardinality(Active) \in Nat
  BY FS_CardinalityType DEF Slots
<1>2. IsFiniteSet(More) /\ Cardinality(More) <= Cardinality(Active) + 1
  BY <1>1, FS_AddElement
<1>3. IsFiniteSet(Active') /\ Cardinality(Active') <= Cardinality(More)
  <2>1. Active' \in SUBSET More
    OBVIOUS
  <2> HIDE DEF More
  <2> QED
    BY <1>2, <2>1, FS_Subset
<1>4. Cardinality(More) \in Nat /\ Cardinality(Active') \in Nat
  BY <1>2, <1>3, FS_CardinalityType
<1> HIDE DEF More
<1> QED
  BY <1>1, <1>2, <1>3, <1>4 DEF HasSlot

\* A step that activates no job keeps the bounds of its phase.
LEMMA NoMoreSlots ==
    ASSUME Slots, Active' \in SUBSET Active, Building' <=> Building
    PROVE  Slots'
<1>1. /\ IsFiniteSet(Active') /\ Cardinality(Active') <= Cardinality(Active)
      /\ Cardinality(Active) \in Nat /\ Cardinality(Active') \in Nat
  BY FS_Subset, FS_CardinalityType DEF Slots
<1>2. JobThreads \in Nat /\ RunJobs \in Nat
  BY ConstantsAssumption
<1> QED
  BY <1>1, <1>2 DEF Slots

\* Every step keeps the two phases apart and within their slots.
LEMMA SlotsStep == Types /\ Slots /\ [Next]_vars => Slots'
<1> SUFFICES ASSUME Types, Slots, [Next]_vars PROVE Slots'
  OBVIOUS
<1>1. JobThreads \in Nat /\ RunJobs \in Nat /\ pc \in [JobIds -> JobPcs]
  BY ConstantsAssumption DEF Types, TypeOK
<1>2. CASE UNCHANGED pc /\ (Building' <=> Building)
  BY <1>2, NoMoreSlots DEF Active
<1>3. CASE UNCHANGED pc /\ Active = {} /\ ~Building'
  <2>1. Active' = {}
    BY <1>3 DEF Active
  <2> QED
    BY <1>1, <1>3, <2>1, FS_EmptySet DEF Slots
<1>4. CASE /\ Building /\ Building' /\ HasSlot(JobThreads)
           /\ \E j \in JobIds : /\ j.what = "make"
                                /\ pc' = [pc EXCEPT ![j] = "clean"]
  <2>1. PICK j \in JobIds : /\ j.what = "make"
                            /\ pc' = [pc EXCEPT ![j] = "clean"]
    BY <1>4
  <2>2. Active' \in SUBSET (Active \cup {j})
    BY <1>1, <2>1 DEF Active
  <2>3. IsFiniteSet(Active') /\ Cardinality(Active') <= JobThreads
    BY <1>1, <1>4, <2>2, OneMoreSlot
  <2> QED
    BY <1>4, <2>1, <2>2, <2>3 DEF Slots
<1>5. CASE /\ ~Building /\ ~Building' /\ HasSlot(RunJobs)
           /\ \E j \in JobIds : /\ j.what # "make"
                                /\ pc' = [pc EXCEPT ![j] = "build"]
  <2>1. PICK j \in JobIds : /\ j.what # "make"
                            /\ pc' = [pc EXCEPT ![j] = "build"]
    BY <1>5
  <2>2. Active' \in SUBSET (Active \cup {j})
    BY <1>1, <2>1 DEF Active
  <2>3. IsFiniteSet(Active') /\ Cardinality(Active') <= RunJobs
    BY <1>1, <1>5, <2>2, OneMoreSlot
  <2> QED
    BY <1>5, <2>1, <2>2, <2>3 DEF Slots
<1>6. CASE Dispatcher
  BY <1>2, <1>3, <1>4, <1>5, <1>6, DispatcherMoves
<1>7. CASE \E j \in JobIds : JobStep(j)
  <2>1. PICK j \in JobIds : JobStep(j)
    BY <1>7
  <2>2. Active' \in SUBSET Active
    BY <1>1, <2>1, JobMoves DEF Active
  <2>3. Building' <=> Building
    BY <2>1, JobMoves DEF Building
  <2> QED
    BY <2>2, <2>3, NoMoreSlots
<1>8. CASE UNCHANGED vars
  BY <1>2, <1>8 DEF vars, Building
<1> QED
  BY <1>6, <1>7, <1>8 DEF Next

\* Slots holds in every reachable state.
LEMMA SlotsInvariant == Spec => []Slots
<1>1. Init => Slots
  <2> SUFFICES ASSUME Init PROVE Slots
    OBVIOUS
  <2>1. Active = {}
    BY DEF Init, Active
  <2> QED
    BY <2>1, FS_EmptySet, ConstantsAssumption DEF Slots
<1> QED
  BY <1>1, SlotsStep, TypesInvariant, PTL DEF Spec

\* The two `sem --wait` and the --jobs options keep builds and runs apart and
\* their number bounded, for any number of tests, reruns and slots.
THEOREM PhasesStaySeparate == Spec => []PhasesSeparate
<1>1. Slots => PhasesSeparate
  BY DEF Slots, PhasesSeparate
<1> QED
  BY <1>1, SlotsInvariant, PTL

-----------------------------------------------------------------------------
(* The status file and the lock.                                           *)

\* A job that executes or reports owns ../lockfile.
Holder ==
    \A j \in JobIds : pc[j] \in {"running", "report"} => lockfile = j

\* make clean belongs to build jobs and the lock to run jobs.
Roles ==
    \A j \in JobIds :
        /\ pc[j] = "clean" => j.what = "make"
        /\ pc[j] \in {"runstart", "runfree", "vbuild", "lock", "running", "report"} =>
               j.what # "make"

\* flock -e lets one job at a time execute and report.
LEMMA HolderStep == Types /\ Holder /\ [Next]_vars => Holder'
<1> SUFFICES ASSUME Types, Holder, [Next]_vars PROVE Holder'
  OBVIOUS
<1>1. pc \in [JobIds -> JobPcs]
  BY DEF Types, TypeOK
<1>2. CASE Dispatcher
  BY <1>1, <1>2, DispatcherMoves DEF Holder
<1>3. ASSUME NEW j \in JobIds, JobStep(j) PROVE Holder'
  <2> USE <1>1 DEF Holder, Goto
  <2>1. CASE Clean(j) \/ Grep(j) \/ LockFail(j) \/ AppendFail(j)
    BY <2>1 DEF Clean, Grep, LockFail, AppendFail
  <2>2. /\ OnBuildSuccess(j) \notin {"running", "report"}
        /\ OnBuildFailure(j) \notin {"running", "report"}
    BY DEF OnBuildSuccess, OnBuildFailure
  <2>3. CASE Build(j)
    BY <2>2, <2>3 DEF Build
  <2>4. CASE Compile(j)
    BY <2>2, <2>4 DEF Compile
  <2>5. CASE RunStart(j) \/ RunFree(j) \/ VerifyBuild(j)
    BY <2>5 DEF RunStart, RunFree, VerifyBuild
  <2>6. CASE Lock(j)
    BY <2>6, NoJobAssumption DEF Lock
  <2>7. CASE Execute(j)
    BY <2>7 DEF Execute
  <2>8. CASE Report(j)
    BY <2>8 DEF Report
  <2> QED
    BY <1>3, <2>1, <2>3, <2>4, <2>5, <2>6, <2>7, <2>8
    DEF JobStep, BoundedStep
<1>4. CASE UNCHANGED vars
  BY <1>4 DEF vars, Holder
<1> QED
  BY <1>2, <1>3, <1>4 DEF Next

\* Every step keeps build jobs away from the lock and run jobs from clean.
LEMMA RolesStep == Types /\ Roles /\ [Next]_vars => Roles'
<1> SUFFICES ASSUME Types, Roles, [Next]_vars PROVE Roles'
  OBVIOUS
<1>1. pc \in [JobIds -> JobPcs]
  BY DEF Types, TypeOK
<1>2. CASE Dispatcher
  BY <1>1, <1>2, DispatcherMoves DEF Roles
<1>3. ASSUME NEW j \in JobIds, JobStep(j) PROVE Roles'
  <2> USE <1>1 DEF Roles, Goto
  <2>1. CASE Clean(j) \/ Grep(j) \/ LockFail(j) \/ AppendFail(j)
    BY <2>1 DEF Clean, Grep, LockFail, AppendFail
  <2>2. /\ OnBuildSuccess(j) # "clean"
        /\ j.what = "make" => OnBuildSuccess(j) = "done"
    BY DEF OnBuildSuccess
  <2>3. OnBuildFailure(j) \in {"lockfail", "grep", "done"}
    BY DEF OnBuildFailure
  <2>4. CASE Build(j)
    BY <2>2, <2>4 DEF Build
  <2>5. CASE Compile(j)
    BY <2>2, <2>3, <2>5 DEF Compile
  <2>6. CASE RunFree(j)
    <3>1. PICK where \in {"vbuild", "done"} : pc' = [pc EXCEPT ![j] = where]
      BY <2>6 DEF RunFree
    <3> QED
      BY <2>6, <3>1 DEF RunFree
  <2>7. CASE VerifyBuild(j)
    <3>1. PICK where \in {"lock", "done"} : pc' = [pc EXCEPT ![j] = where]
      BY <2>7 DEF VerifyBuild
    <3> QED
      BY <2>7, <3>1 DEF VerifyBuild
  <2>8. CASE Lock(j) \/ Execute(j) \/ Report(j)
    BY <2>8 DEF Lock, Execute, Report
  <2>9. CASE RunStart(j)
    BY <2>9 DEF RunStart
  <2> QED
    BY <1>3, <2>1, <2>4, <2>5, <2>6, <2>7, <2>8, <2>9 DEF JobStep, BoundedStep
<1>4. CASE UNCHANGED vars
  BY <1>4 DEF vars, Roles
<1> QED
  BY <1>2, <1>3, <1>4 DEF Next

\* How a session was started does not change, nor what decides a test.
LEMMA SameDecision == [Next]_vars => \A t \in Dirs : ByFileCheck(t)' <=> ByFileCheck(t)
<1>1. [Next]_vars => mode' = mode
  BY DEF Next, Dispatcher, MakeSkip, MakeGpus, MakeSubmit, MakeLoopEnd, MakeWait,
     RunNextDir, RunGpus, RunSubmit, RunSubmit2, Poll, RunNextList, RunLoopEnd,
     Gather, JobStep, BoundedStep, Clean, Build, Compile, Grep, LockFail,
     AppendFail, RunStart, RunFree, VerifyBuild, Lock, Execute, Report,
     dispVars, vars
<1> QED
  BY <1>1 DEF ByFileCheck

\* While a job reports, no step touches the status files of its test: another
\* execution would need the lock, and a make clean the first phase.
LEMMA StatusStep ==
    Types /\ Slots /\ Holder /\ Roles /\ StatusMatchesReport /\ [Next]_vars
        => StatusMatchesReport'
<1> SUFFICES ASSUME Types, Slots, Holder, Roles, StatusMatchesReport,
                    [Next]_vars
             PROVE  StatusMatchesReport'
  OBVIOUS
<1>1. /\ pc \in [JobIds -> JobPcs] /\ rc \in [JobIds -> Status \cup {NoFile}]
      /\ testStatus \in [Dirs -> Status \cup {NoFile}]
      /\ fcStatus \in [Dirs -> Status \cup {NoFile}]
  BY DEF Types, TypeOK
<1>2. Building => \A j \in JobIds : pc[j] # "report"
  BY DEF Slots, Roles, Active
<1>3. CASE UNCHANGED <<rc, testStatus, fcStatus>> /\
           \A j \in JobIds : pc'[j] = "report" => pc[j] = "report"
  BY <1>3, SameDecision, JobTest DEF StatusMatchesReport
<1>4. CASE Dispatcher
  <2>1. \A j \in JobIds : pc'[j] = "report" => pc[j] = "report"
    BY <1>1, <1>4, DispatcherMoves
  <2>2. UNCHANGED rc
    BY <1>4, DispatcherMoves
  <2>3. CASE MakeGpus
    BY <1>2, <2>1, <2>3 DEF MakeGpus, Building, StatusMatchesReport
  <2>4. CASE ~MakeGpus
    <3>1. UNCHANGED diskVars
      BY <1>4, <2>4 DEF Dispatcher, MakeSkip, MakeSubmit, MakeLoopEnd, MakeWait,
           RunNextDir, RunGpus, RunSubmit, RunSubmit2, Poll, RunNextList,
           RunLoopEnd, Gather
    <3> QED
      BY <1>3, <2>1, <2>2, <3>1 DEF diskVars
  <2> QED
    BY <2>3, <2>4
<1>5. ASSUME NEW j \in JobIds, JobStep(j) PROVE StatusMatchesReport'
  <2>1. CASE Clean(j)
    <3>1. j.what = "make" /\ j \in Active
      BY <2>1 DEF Clean, Roles, Active
    <3>2. Building
      BY <3>1 DEF Slots
    <3> QED
      BY <1>1, <1>2, <2>1, <3>2 DEF Clean, Goto, StatusMatchesReport
  <2>2. CASE Execute(j)
    <3>1. PICK s \in Status, f \in Status :
            /\ ~ByFileCheck(j.test) => f = s
            /\ rc' = [rc EXCEPT ![j] = f]
            /\ testStatus' = IF Kind[j.test] = "verify" THEN testStatus
                             ELSE [testStatus EXCEPT ![j.test] = s]
            /\ fcStatus' = IF ~ByFileCheck(j.test) THEN fcStatus
                           ELSE [fcStatus EXCEPT ![j.test] = f]
      <4> DEFINE Written(s, f) ==
              /\ rc' = [rc EXCEPT ![j] = f]
              /\ testStatus' = IF Kind[j.test] = "verify" THEN testStatus
                               ELSE [testStatus EXCEPT ![j.test] = s]
              /\ fcStatus' = IF ~ByFileCheck(j.test) THEN fcStatus
                             ELSE [fcStatus EXCEPT ![j.test] = f]
      <4>1. PICK s \in IF Kind[j.test] = "verify" THEN {0, 1} ELSE Status :
              \E f \in IF ByFileCheck(j.test) THEN {0, 1} ELSE {s} :
                  Written(s, f)
        BY <2>2 DEF Execute
      <4>2. PICK f \in IF ByFileCheck(j.test) THEN {0, 1} ELSE {s} :
              Written(s, f)
        BY <4>1
      <4>3. s \in Status /\ f \in Status /\ (~ByFileCheck(j.test) => f = s)
        BY <4>1, <4>2 DEF Status
      <4> QED
        BY <4>2, <4>3
    <3>2. pc[j] = "running" /\ pc' = [pc EXCEPT ![j] = "report"]
      BY <2>2 DEF Execute, Goto
    <3>3. \A i \in JobIds : pc'[i] = "report" => i = j
      BY <1>1, <3>2 DEF Holder
    <3>4. Kind[j.test] # "verify" =>
            IF ByFileCheck(j.test) THEN fcStatus'[j.test] = rc'[j]
                                     ELSE testStatus'[j.test] = rc'[j]
      BY <1>1, <3>1, JobTest
    <3> QED
      BY <3>3, <3>4, SameDecision, JobTest DEF StatusMatchesReport
  <2>3. CASE Build(j) \/ Compile(j)
    <3>1. OnBuildSuccess(j) # "report" /\ OnBuildFailure(j) # "report"
      BY DEF OnBuildSuccess, OnBuildFailure
    <3> QED
      BY <1>1, <1>3, <2>3, <3>1 DEF Build, Compile, Goto, diskVars
  <2>4. CASE \/ Grep(j) \/ LockFail(j) \/ AppendFail(j) \/ RunStart(j)
             \/ RunFree(j) \/ VerifyBuild(j) \/ Lock(j) \/ Report(j)
    BY <1>1, <1>3, <2>4 DEF Grep, LockFail, AppendFail, RunStart, RunFree,
         VerifyBuild, Lock, Report, Goto, diskVars
  <2> QED
    BY <1>5, <2>1, <2>2, <2>3, <2>4 DEF JobStep, BoundedStep
<1>6. CASE UNCHANGED vars
  BY <1>3, <1>6 DEF vars
<1> QED
  BY <1>4, <1>5, <1>6 DEF Next

\* Whatever concurrent reruns of the test and builds do, a report is decided
\* by the status of its own execution.
THEOREM ReportsOwnStatus == Spec => []StatusMatchesReport
<1> DEFINE Inv == Slots /\ Holder /\ Roles /\ StatusMatchesReport
<1>1. Init => Inv
  <2> SUFFICES ASSUME Init PROVE Inv
    OBVIOUS
  <2>1. Active = {} /\ \A j \in JobIds : pc[j] = "idle"
    BY DEF Init, Active
  <2>2. Slots
    BY <2>1, FS_EmptySet, ConstantsAssumption DEF Slots
  <2> QED
    BY <2>1, <2>2 DEF Holder, Roles, StatusMatchesReport
<1>2. Types /\ Inv /\ [Next]_vars => Inv'
  BY SlotsStep, HolderStep, RolesStep, StatusStep
<1>3. Inv => StatusMatchesReport
  OBVIOUS
<1> HIDE DEF Inv
<1> QED
  BY <1>1, <1>2, <1>3, TypesInvariant, PTL DEF Spec

-----------------------------------------------------------------------------
(* Every job is submitted once.                                            *)

\* The run jobs that have been submitted are those the loops have passed; the build
\* jobs of the directories to come have not been.
Passed(j, n) ==
    /\ ~Building
    /\ \/ j.l < lrun
       \/ /\ j.l = lrun
          /\ \/ n < at
             \/ n = at /\ j.r < run
             \/ n = at /\ j.r = run /\ phase = "poll"
             \/ n = at /\ j.r = run /\ phase = "run2" /\ j.what = "run"
Ordered ==
    /\ \A n \in 1..Len(SmokeDirs) :
          phase = "make" /\ n >= at => pc[MakeJob(SmokeDirs[n])] = "idle"
    /\ \A j \in RunJobIds, n \in 1..Len(SmokeDirs) :
          j.test = SmokeDirs[n] /\ pc[j] # "idle" => Passed(j, n)
    /\ phase \in {"run2", "poll"} => Kind[Dir] # "absent"
    /\ phase = "run2" => Kind[Dir] = "visual"

\* The loops do not go back.
LEMMA PassedStaysPassed ==
    ASSUME Types, Dispatcher, NEW j \in RunJobIds, NEW n \in 1..Len(SmokeDirs), Passed(j, n)
    PROVE  Passed(j, n)'
<1>1. /\ j.l \in Int /\ j.r \in Int /\ n \in Int /\ lrun \in Int /\ at \in Int /\ run \in Int
  BY ConstantsAssumption DEF RunJobIds, Types, TypeOK
<1> QED
  BY <1>1 DEF Passed, Building, Dispatcher, MakeSkip, MakeGpus, MakeSubmit, MakeLoopEnd,
     MakeWait, RunNextDir, RunGpus, RunSubmit, RunSubmit2, Poll, RunNextList, RunLoopEnd,
     Gather, InRunLoop

\* The job a step submits is a new one.
Submitted(j) ==
    /\ pc[j] = "idle"
    /\ pc' = [pc EXCEPT ![j] = IF j.what = "make" THEN "clean" ELSE "build"]
    /\ j.what # "make" => j \in RunJobIds /\ j.r < MyNrun(j.test)
    /\ j.what = "run" => Kind[j.test] = "visual"
LEMMA Submits ==
    ASSUME Types, Ordered, Dispatcher
    PROVE  UNCHANGED pc \/ \E j \in JobIds : Submitted(j)
<1>1. /\ SmokeLrun \in Nat /\ Len(SmokeDirs) \in Nat
      /\ \A n \in 1..Len(SmokeDirs) : SmokeDirs[n] \in Dirs
      /\ \A t \in Dirs : MyNrun(t) \in Nat /\ MyNrun(t) <= MaxNrun
      /\ lrun \in Nat /\ run \in Nat /\ at \in 1..(Len(SmokeDirs) + 1) /\ MaxNrun \in Nat
  BY ConstantsAssumption DEF MyNrun, Types, TypeOK
<1>2. ASSUME NEW w \in {"run", "check"}, at <= Len(SmokeDirs), lrun < SmokeLrun,
             run < MyNrun(Dir), phase \in {"run", "run2"}, phase = "run2" => w = "check",
             w = "run" => Kind[Dir] = "visual",
             NEW j, j = [test |-> Dir, l |-> lrun, r |-> run, what |-> w],
             pc' = [pc EXCEPT ![j] = "build"]
      PROVE  \E i \in JobIds : Submitted(i)
  <2>1. Dir = SmokeDirs[at] /\ Dir \in Dirs /\ at \in 1..Len(SmokeDirs)
    BY <1>1, <1>2 DEF Dir
  <2>2. j \in RunJobIds /\ j \in JobIds /\ j.test = Dir /\ j.what = w /\ j.l = lrun /\ j.r = run
    BY <1>1, <1>2, <2>1 DEF RunJobIds, JobIds
  <2>3. ~Passed(j, at)
    BY <1>1, <1>2, <2>2 DEF Passed
  <2>4. pc[j] = "idle"
    BY <2>1, <2>2, <2>3 DEF Ordered
  <2>5. Submitted(j)
    BY <1>2, <2>2, <2>4 DEF Submitted
  <2> QED
    BY <2>2, <2>5
<1>3. CASE MakeSubmit
  <2>1. Dir = SmokeDirs[at] /\ Dir \in Dirs /\ at \in 1..Len(SmokeDirs)
    BY <1>1, <1>3 DEF MakeSubmit, Dir
  <2>2. MakeJob(Dir) \in JobIds /\ MakeJob(Dir).what = "make"
    BY <2>1, JobsExist DEF MakeJob
  <2>3. Submitted(MakeJob(Dir))
    BY <1>1, <1>3, <2>1, <2>2 DEF MakeSubmit, Submit, Submitted, Ordered
  <2>4. PICK j \in JobIds : j = MakeJob(Dir)
    BY <2>2
  <2>5. Submitted(j)
    BY <2>3, <2>4 DEF Submitted
  <2> QED
    BY <2>5
<1>4. CASE RunSubmit
  <2> DEFINE w == IF Kind[Dir] = "visual" THEN "run" ELSE "check"
  <2>1. PICK j : j = [test |-> Dir, l |-> lrun, r |-> run, what |-> w]
    OBVIOUS
  <2>2. pc' = [pc EXCEPT ![j] = "build"]
    BY <1>4, <2>1 DEF RunSubmit, Submit
  <2> QED
    BY <1>1, <1>2, <1>4, <2>1, <2>2 DEF RunSubmit, InRunLoop
<1>5. CASE RunSubmit2
  <2>1. PICK j : j = [test |-> Dir, l |-> lrun, r |-> run, what |-> "check"]
    OBVIOUS
  <2>2. pc' = [pc EXCEPT ![j] = "build"]
    BY <1>5, <2>1 DEF RunSubmit2, Submit
  <2> QED
    BY <1>1, <1>2, <1>5, <2>1, <2>2 DEF RunSubmit2, Types, InLoop
<1> QED
  BY <1>3, <1>4, <1>5 DEF Dispatcher, MakeSkip, MakeGpus, MakeLoopEnd, MakeWait, RunNextDir,
     RunGpus, Poll, RunNextList, RunLoopEnd, Gather

\* Every step keeps the order.
LEMMA OrderedStep == Types /\ Ordered /\ [Next]_vars => Ordered'
<1> SUFFICES ASSUME Types, Ordered, [Next]_vars PROVE Ordered'
  OBVIOUS
<1>0. (\A t \in Dirs : MakeJob(t) \in JobIds) /\ RunJobIds \subseteq JobIds
  BY JobsExist DEF JobIds
<1>1. /\ Len(SmokeDirs) \in Nat /\ pc \in [JobIds -> JobPcs] /\ RunJobIds \subseteq JobIds
      /\ \A n \in 1..Len(SmokeDirs) : SmokeDirs[n] \in Dirs /\ MakeJob(SmokeDirs[n]) \in JobIds
      /\ \A m, n \in 1..Len(SmokeDirs) : SmokeDirs[m] = SmokeDirs[n] => m = n
      /\ at \in 1..(Len(SmokeDirs) + 1)
  <2>1. pc \in [JobIds -> JobPcs] /\ at \in 1..(Len(SmokeDirs) + 1)
    BY DEF Types, TypeOK
  <2>2. /\ SmokeDirs \in Seq(Dirs)
        /\ \A m, n \in 1..Len(SmokeDirs) : SmokeDirs[m] = SmokeDirs[n] => m = n
    BY ConstantsAssumption
  <2>3. Len(SmokeDirs) \in Nat /\ \A n \in 1..Len(SmokeDirs) : SmokeDirs[n] \in Dirs
    BY <2>2
  <2> QED
    BY <1>0, <2>1, <2>2, <2>3
<1>2. CASE Dispatcher
  <2>1. ASSUME NEW n \in 1..Len(SmokeDirs), phase' = "make", n >= at'
        PROVE  pc'[MakeJob(SmokeDirs[n])] = "idle"
    <3>1. CASE MakeSubmit
      <4>1. n # at /\ pc[MakeJob(SmokeDirs[n])] = "idle" /\ at \in 1..Len(SmokeDirs)
        BY <1>1, <2>1, <3>1 DEF MakeSubmit, Ordered
      <4>2. SmokeDirs[n] # Dir
        BY <1>1, <4>1 DEF Dir
      <4>3. MakeJob(SmokeDirs[n]) # MakeJob(Dir)
        BY <4>2 DEF MakeJob
      <4> QED
        BY <1>1, <3>1, <4>1, <4>3 DEF MakeSubmit, Submit
    <3>2. CASE ~MakeSubmit
      <4>1. phase = "make" /\ n >= at /\ UNCHANGED pc
        BY <1>1, <1>2, <2>1, <3>2 DEF Dispatcher, MakeSkip, MakeGpus, MakeLoopEnd, MakeWait,
           RunNextDir, RunGpus, RunSubmit, RunSubmit2, Poll, RunNextList, RunLoopEnd, Gather,
           InRunLoop
      <4> QED
        BY <4>1 DEF Ordered
    <3> QED
      BY <3>1, <3>2
  <2>2. ASSUME NEW j \in RunJobIds, NEW n \in 1..Len(SmokeDirs), j.test = SmokeDirs[n],
               pc'[j] # "idle"
        PROVE  Passed(j, n)'
    <3>1. CASE pc[j] # "idle"
      BY <1>2, <2>2, <3>1, PassedStaysPassed DEF Ordered
    <3>2. CASE pc[j] = "idle"
      <4>1. \/ RunSubmit /\ j = [test |-> Dir, l |-> lrun, r |-> run,
                                 what |-> IF Kind[Dir] = "visual" THEN "run" ELSE "check"]
            \/ RunSubmit2 /\ j = [test |-> Dir, l |-> lrun, r |-> run, what |-> "check"]
        <5>1. MakeSubmit => pc'[j] = pc[j]
          BY <1>1 DEF MakeSubmit, Submit, MakeJob, RunJobIds
        <5>2. RunSubmit \/ RunSubmit2 \/ MakeSubmit
          BY <1>2, <2>2, <3>2 DEF Dispatcher, MakeSkip, MakeGpus, MakeLoopEnd, MakeWait,
             RunNextDir, RunGpus, Poll, RunNextList, RunLoopEnd, Gather
        <5>3. CASE RunSubmit
          BY <1>1, <2>2, <3>2, <5>3 DEF RunSubmit, Submit
        <5>4. CASE RunSubmit2
          BY <1>1, <2>2, <3>2, <5>4 DEF RunSubmit2, Submit
        <5> QED
          BY <2>2, <3>2, <5>1, <5>2, <5>3, <5>4
      <4>2. j.test = Dir /\ j.l = lrun /\ j.r = run
        BY <4>1
      <4>3. at \in 1..Len(SmokeDirs)
        BY <1>1, <4>1 DEF RunSubmit, InRunLoop, RunSubmit2, Types, InLoop
      <4>4. n = at
        BY <1>1, <2>2, <4>2, <4>3 DEF Dir
      <4>5. lrun' = lrun /\ at' = at /\ run' = run
        BY <4>1 DEF RunSubmit, RunSubmit2
      <4>6. phase' = "poll" \/ (phase' = "run2" /\ j.what = "run")
        BY <4>1 DEF RunSubmit, RunSubmit2
      <4> QED
        BY <4>2, <4>4, <4>5, <4>6 DEF Passed, Building
    <3> QED
      BY <3>1, <3>2
  <2>3. /\ phase' \in {"run2", "poll"} => Kind[Dir'] # "absent"
        /\ phase' = "run2" => Kind[Dir'] = "visual"
    BY <1>2 DEF Ordered, Dir, Dispatcher, MakeSkip, MakeGpus, MakeSubmit, MakeLoopEnd,
       MakeWait, RunNextDir, RunGpus, RunSubmit, RunSubmit2, Poll, RunNextList, RunLoopEnd,
       Gather, InRunLoop
  <2> QED
    BY <2>1, <2>2, <2>3 DEF Ordered
<1>3. ASSUME NEW i \in JobIds, JobStep(i) PROVE Ordered'
  <2>1. UNCHANGED dispVars
    BY <1>3 DEF JobStep, BoundedStep, Clean, Build, Compile, Grep, LockFail, AppendFail,
       RunStart, RunFree, VerifyBuild, Lock, Execute, Report
  <2>2. \A j \in JobIds : pc'[j] = "idle" <=> pc[j] = "idle"
    BY <1>1, <1>3, JobMoves
  <2>3. \A j, n : Passed(j, n)' <=> Passed(j, n)
    BY <2>1 DEF dispVars, Passed, Building
  <2> QED
    BY <1>1, <2>1, <2>2, <2>3 DEF Ordered, dispVars, Dir
<1>4. CASE UNCHANGED vars
  BY <1>4 DEF vars, Ordered, Passed, Building, Dir
<1> QED
  BY <1>2, <1>3, <1>4 DEF Next

LEMMA OrderedInvariant == Spec => []Ordered
<1>1. Init => Ordered
  <2>1. \A n \in 1..Len(SmokeDirs) : MakeJob(SmokeDirs[n]) \in JobIds
    BY ConstantsAssumption, JobsExist
  <2> QED
    BY <2>1 DEF Init, Ordered, JobIds
<1> QED
  BY <1>1, OrderedStep, TypesInvariant, PTL DEF Spec

\* The jobs that have been submitted are such as the script submits.
AsSubmitted(j) ==
    /\ j.what # "make" => j \in RunJobIds /\ j.r < MyNrun(j.test)
    /\ j.what = "run" => Kind[j.test] = "visual"
Wanted == \A j \in JobIds : pc[j] # "idle" => AsSubmitted(j)
LEMMA WantedInvariant == Spec => []Wanted
<1>1. Init => Wanted
  BY DEF Init, Wanted
<1>2. Types /\ Ordered /\ Wanted /\ [Next]_vars => Wanted'
  <2> SUFFICES ASSUME Types, Ordered, Wanted, [Next]_vars PROVE Wanted'
    OBVIOUS
  <2>1. pc \in [JobIds -> JobPcs]
    BY DEF Types, TypeOK
  <2>2. CASE Dispatcher
    BY <2>1, <2>2, Submits DEF Wanted, AsSubmitted, Submitted
  <2>3. CASE \E j \in JobIds : JobStep(j)
    BY <2>1, <2>3, JobMoves DEF Wanted, AsSubmitted
  <2>4. CASE UNCHANGED vars
    BY <2>4 DEF vars, Wanted, AsSubmitted
  <2> QED
    BY <2>2, <2>3, <2>4 DEF Next
<1> QED
  BY <1>1, <1>2, TypesInvariant, OrderedInvariant, PTL DEF Spec

-----------------------------------------------------------------------------
(* Timeouts.                                                               *)

\* A job executes once.
OnceRun == \A j \in JobIds : rc[j] # NoFile => pc[j] \in {"report", "done"}

\* Only an execution writes a job's status, of a job and of its test; else a status
\* file is removed by make clean.
LEMMA StatusMoves ==
    ASSUME NEW j \in JobIds, JobStep(j), ~Execute(j)
    PROVE  /\ rc' = rc
           /\ \/ UNCHANGED <<testStatus, fcStatus>>
              \/ /\ Clean(j) /\ testStatus' = [testStatus EXCEPT ![j.test] = NoFile]
                 /\ fcStatus' = [fcStatus EXCEPT ![j.test] = NoFile]
BY DEF JobStep, BoundedStep, Clean, Build, Compile, Grep, LockFail, AppendFail, RunStart,
   RunFree, VerifyBuild, Lock, Report, diskVars

LEMMA OnceRunStep == Types /\ Ordered /\ OnceRun /\ [Next]_vars => OnceRun'
<1> SUFFICES ASSUME Types, Ordered, OnceRun, [Next]_vars PROVE OnceRun'
  OBVIOUS
<1>1. pc \in [JobIds -> JobPcs] /\ rc \in [JobIds -> Status \cup {NoFile}]
  BY DEF Types, TypeOK
<1>2. CASE Dispatcher
  <2>1. rc' = rc
    BY <1>2, DispatcherMoves
  <2>2. \A j \in JobIds : pc[j] # "idle" => pc'[j] = pc[j]
    BY <1>1, <1>2, Submits DEF Submitted
  <2> QED
    BY <2>1, <2>2 DEF OnceRun
<1>3. ASSUME NEW j \in JobIds, JobStep(j) PROVE OnceRun'
  <2>1. CASE Execute(j)
    <3>1. pc' = [pc EXCEPT ![j] = "report"] /\ \E f : rc' = [rc EXCEPT ![j] = f]
      BY <2>1 DEF Execute, Goto
    <3> QED
      BY <1>1, <3>1 DEF OnceRun
  <2>2. CASE ~Execute(j)
    <3>1. rc' = rc
      BY <1>3, <2>2, StatusMoves
    <3>2. pc[j] = "report" => pc'[j] = "done"
      BY <1>1, <1>3 DEF JobStep, BoundedStep, Clean, Build, Compile, Grep, LockFail,
         AppendFail, RunStart, RunFree, VerifyBuild, Lock, Execute, Report, Goto
    <3>3. \A i \in JobIds : i # j => pc'[i] = pc[i]
      BY <1>1, <1>3, JobMoves
    <3>4. pc[j] # "done"
      BY <1>3, JobMoves
    <3> QED
      BY <3>1, <3>2, <3>3, <3>4 DEF OnceRun
  <2> QED
    BY <2>1, <2>2
<1>4. CASE UNCHANGED vars
  BY <1>4 DEF vars, OnceRun
<1> QED
  BY <1>2, <1>3, <1>4 DEF Next

LEMMA OnceRunInvariant == Spec => []OnceRun
<1>1. Init => OnceRun
  BY DEF Init, OnceRun
<1> QED
  BY <1>1, OnceRunStep, TypesInvariant, OrderedInvariant, PTL DEF Spec

\* The status of a timeout is that of an execution of this session, once the test
\* has been cleaned, and FileCheck is never killed.
Own(t) == testStatus[t] = 124 => \E i \in JobIds : i.test = t /\ rc[i] = 124
Timeouts ==
    /\ \A t \in Dirs : fcStatus[t] # 124
    /\ mode = "plain" => \A n \in 1..Len(SmokeDirs) :
          Kind[SmokeDirs[n]] # "absent" /\ (phase = "make" => n < at) =>
              \/ Own(SmokeDirs[n])
              \/ Kind[SmokeDirs[n]] # "gpus" /\ pc[MakeJob(SmokeDirs[n])] = "clean"

LEMMA TimeoutsStep ==
    Types /\ Ordered /\ OnceRun /\ Timeouts /\ [Next]_vars => Timeouts'
<1> SUFFICES ASSUME Types, Ordered, OnceRun, Timeouts, [Next]_vars PROVE Timeouts'
  OBVIOUS
<1>0. (\A t \in Dirs : MakeJob(t) \in JobIds) /\ \A j \in JobIds : j.test \in Dirs
  BY JobsExist, JobTest
<1>1. /\ Len(SmokeDirs) \in Nat /\ pc \in [JobIds -> JobPcs]
      /\ rc \in [JobIds -> Status \cup {NoFile}] /\ at \in 1..(Len(SmokeDirs) + 1)
      /\ testStatus \in [Dirs -> Status \cup {NoFile}]
      /\ fcStatus \in [Dirs -> Status \cup {NoFile}]
      /\ \A n \in 1..Len(SmokeDirs) : SmokeDirs[n] \in Dirs
      /\ \A m, n \in 1..Len(SmokeDirs) : SmokeDirs[m] = SmokeDirs[n] => m = n
      /\ NoFile # 124 /\ NoFile # 1
  BY ConstantsAssumption DEF Types, TypeOK, Status
<1>2. CASE Dispatcher
  <2>1. rc' = rc /\ mode' = mode
    BY <1>2 DEF Dispatcher, MakeSkip, MakeGpus, MakeSubmit, MakeLoopEnd, MakeWait,
       RunNextDir, RunGpus, RunSubmit, RunSubmit2, Poll, RunNextList, RunLoopEnd, Gather,
       Submit
  <2>2. \A j \in JobIds : pc[j] # "idle" => pc'[j] = pc[j]
    BY <1>1, <1>2, Submits DEF Submitted
  <2>3. CASE MakeGpus
    <3>1. /\ phase = "make" /\ phase' = "make" /\ at' = at + 1 /\ at \in 1..Len(SmokeDirs)
          /\ testStatus' = [testStatus EXCEPT ![Dir] = NoFile]
          /\ fcStatus' = [fcStatus EXCEPT ![Dir] = NoFile] /\ UNCHANGED pc
      BY <1>1, <2>3 DEF MakeGpus
    <3>2. \A t \in Dirs : fcStatus'[t] # 124
      BY <1>1, <3>1 DEF Timeouts
    <3>3. \A t \in Dirs : Own(t) \/ t = Dir => Own(t)'
      BY <1>1, <2>1, <3>1 DEF Own
    <3>4. ASSUME NEW n \in 1..Len(SmokeDirs), Kind[SmokeDirs[n]] # "absent", n < at + 1,
                 mode = "plain"
          PROVE  Own(SmokeDirs[n]) \/ SmokeDirs[n] = Dir \/
                 (Kind[SmokeDirs[n]] # "gpus" /\ pc[MakeJob(SmokeDirs[n])] = "clean")
      BY <1>1, <3>1, <3>4 DEF Timeouts, Dir
    <3> QED
      BY <1>1, <2>1, <3>1, <3>2, <3>3, <3>4 DEF Timeouts
  <2>4. CASE ~MakeGpus
    <3>1. UNCHANGED <<testStatus, fcStatus>>
      BY <1>2, <2>4 DEF Dispatcher, MakeSkip, MakeSubmit, MakeLoopEnd, MakeWait,
         RunNextDir, RunGpus, RunSubmit, RunSubmit2, Poll, RunNextList, RunLoopEnd, Gather,
         diskVars
    <3>2. \A t \in Dirs : Own(t)' <=> Own(t)
      BY <2>1, <3>1 DEF Own
    <3>3. ASSUME NEW n \in 1..Len(SmokeDirs), Kind[SmokeDirs[n]] # "absent",
                 phase' = "make" => n < at', mode = "plain"
          PROVE  \/ Own(SmokeDirs[n])
                 \/ /\ Kind[SmokeDirs[n]] # "gpus"
                    /\ pc'[MakeJob(SmokeDirs[n])] = "clean"
      <4>1. CASE phase = "make" => n < at
        BY <1>0, <1>1, <2>2, <3>3, <4>1 DEF Timeouts
      <4>2. CASE phase = "make" /\ n >= at
        <5>1. \/ MakeSkip \/ MakeSubmit
          BY <1>1, <1>2, <2>4, <3>3, <4>2 DEF Dispatcher, MakeSkip, MakeSubmit, MakeLoopEnd,
             MakeWait, RunNextDir, RunGpus, RunSubmit, RunSubmit2, Poll, RunNextList,
             RunLoopEnd, Gather, InRunLoop
        <5>2. n = at /\ MakeSubmit /\ SmokeDirs[n] = Dir
          BY <1>1, <3>3, <4>2, <5>1 DEF MakeSkip, MakeSubmit, Dir
        <5>3. MakeJob(Dir).what = "make" /\ MakeJob(Dir) \in JobIds
          BY <1>0, <1>1, <5>2 DEF MakeJob
        <5> QED
          BY <1>1, <5>2, <5>3 DEF MakeSubmit, Submit
      <4> QED
        BY <1>1, <4>1, <4>2
    <3> QED
      BY <2>1, <1>1, <3>1, <3>2, <3>3 DEF Timeouts
  <2> QED
    BY <2>3, <2>4
<1>3. ASSUME NEW j \in JobIds, JobStep(j) PROVE Timeouts'
  <2>1. UNCHANGED dispVars
    BY <1>3 DEF JobStep, BoundedStep, Clean, Build, Compile, Grep, LockFail, AppendFail,
       RunStart, RunFree, VerifyBuild, Lock, Execute, Report
  <2>2. \A i \in JobIds : i # j => pc'[i] = pc[i]
    BY <1>1, <1>3, JobMoves
  <2>3. CASE Execute(j)
    <3> DEFINE Writes(s, f) ==
            /\ rc' = [rc EXCEPT ![j] = f]
            /\ testStatus' = IF Kind[j.test] = "verify" THEN testStatus
                             ELSE [testStatus EXCEPT ![j.test] = s]
            /\ fcStatus' = IF ~ByFileCheck(j.test) THEN fcStatus
                           ELSE [fcStatus EXCEPT ![j.test] = f]
    <3>1. PICK s \in Status, f \in Status :
            /\ mode = "plain" => f = s
            /\ ByFileCheck(j.test) => f # 124
            /\ Writes(s, f)
      <4> HIDE DEF Writes
      <4>1. PICK s \in IF Kind[j.test] = "verify" THEN {0, 1} ELSE Status :
              \E f \in IF ByFileCheck(j.test) THEN {0, 1} ELSE {s} : Writes(s, f)
        BY <2>3 DEF Execute, Writes
      <4>2. PICK f \in IF ByFileCheck(j.test) THEN {0, 1} ELSE {s} : Writes(s, f)
        BY <4>1
      <4>3. s \in Status /\ f \in Status /\ (~ByFileCheck(j.test) => f = s)
        BY <4>1, <4>2 DEF Status
      <4>4. mode = "plain" => f = s
        BY <4>3 DEF ByFileCheck
      <4>5. ByFileCheck(j.test) => f # 124
        BY <4>2
      <4> QED
        BY <4>2, <4>3, <4>4, <4>5
    <3>2. pc[j] = "running" /\ rc[j] = NoFile
      BY <2>3 DEF Execute, OnceRun
    <3>3. \A t \in Dirs : fcStatus'[t] # 124
      BY <1>0, <1>1, <3>1 DEF Timeouts
    <3>4. ASSUME NEW t \in Dirs, Own(t), mode = "plain" PROVE Own(t)'
      <4>1. ASSUME NEW i \in JobIds, rc[i] = 124 PROVE rc'[i] = 124
        BY <1>1, <3>1, <3>2, <4>1
      <4>2. testStatus'[t] = 124 => testStatus[t] = 124 \/ (j.test = t /\ rc'[j] = 124)
        BY <1>0, <1>1, <3>1, <3>4
      <4> QED
        BY <3>4, <4>1, <4>2 DEF Own
    <3>5. \A i \in JobIds : pc[i] = "clean" => pc'[i] = "clean"
      BY <2>2, <3>2
    <3> QED
      BY <1>0, <1>1, <2>1, <3>3, <3>4, <3>5 DEF Timeouts, dispVars
  <2>4. CASE Clean(j)
    <3>1. /\ testStatus' = [testStatus EXCEPT ![j.test] = NoFile]
          /\ fcStatus' = [fcStatus EXCEPT ![j.test] = NoFile] /\ rc' = rc
      BY <2>4 DEF Clean
    <3>2. \A t \in Dirs : fcStatus'[t] # 124
      BY <1>0, <1>1, <3>1 DEF Timeouts
    <3>3. Own(j.test)' /\ \A t \in Dirs : Own(t) => Own(t)'
      BY <1>0, <1>1, <3>1 DEF Own
    <3>4. \A t \in Dirs : MakeJob(t).test = t
      BY DEF MakeJob
    <3>5. \A n \in 1..Len(SmokeDirs) : pc[MakeJob(SmokeDirs[n])] = "clean" =>
             pc'[MakeJob(SmokeDirs[n])] = "clean" \/ Own(SmokeDirs[n])'
      BY <1>0, <1>1, <2>2, <3>3, <3>4
    <3> QED
      BY <1>0, <1>1, <2>1, <3>2, <3>3, <3>5 DEF Timeouts, dispVars
  <2>5. CASE ~Execute(j) /\ ~Clean(j)
    <3>1. rc' = rc /\ UNCHANGED <<testStatus, fcStatus>>
      BY <1>3, <2>5, StatusMoves
    <3>2. \A t \in Dirs : Own(t)' <=> Own(t)
      BY <3>1 DEF Own
    <3>3. pc[j] # "clean"
      BY <1>3, <2>5 DEF JobStep, BoundedStep, Build, Compile, Grep, LockFail, AppendFail,
         RunStart, RunFree, VerifyBuild, Lock, Report
    <3>4. \A i \in JobIds : pc[i] = "clean" => pc'[i] = "clean"
      BY <2>2, <3>3
    <3> QED
      BY <1>0, <1>1, <2>1, <3>1, <3>2, <3>4 DEF Timeouts, dispVars
  <2> QED
    BY <2>3, <2>4, <2>5
<1>4. CASE UNCHANGED vars
  BY <1>4 DEF vars, Timeouts, Own
<1> QED
  BY <1>2, <1>3, <1>4 DEF Next

\* The late look at TEST_STATUS never gives up a test for a file it found: an
\* execution of it in this session was killed by `timeout`.
THEOREM OnlyTimeoutsGiveUp == Spec => GivesUpOnlyTimeouts
<1> DEFINE Justified == phase = "poll" /\ at' # at =>
                          \E i \in JobIds : i.test = Dir /\ rc[i] = 124
<1>1. Types /\ Slots /\ Ordered /\ Timeouts /\ [Next]_vars => [Justified]_vars
  <2> SUFFICES ASSUME Types, Slots, Ordered, Timeouts, Next, phase = "poll", at' # at
               PROVE  \E i \in JobIds : i.test = Dir /\ rc[i] = 124
    OBVIOUS
  <2>1. Poll
    <3>1. ASSUME NEW j \in JobIds, JobStep(j) PROVE at' = at
      BY <3>1 DEF JobStep, BoundedStep, Clean, Build, Compile, Grep, LockFail, AppendFail,
         RunStart, RunFree, VerifyBuild, Lock, Execute, Report, dispVars
    <3> QED
      BY <3>1 DEF Next, Dispatcher, MakeSkip, MakeGpus, MakeSubmit, MakeLoopEnd, MakeWait,
         RunNextDir, RunGpus, RunSubmit, RunSubmit2, RunNextList, RunLoopEnd, Gather,
         InRunLoop
  <2>2. at \in 1..Len(SmokeDirs) /\ Dir = SmokeDirs[at] /\ Dir \in Dirs
    BY ConstantsAssumption DEF Types, TypeOK, InLoop, Dir
  <2>3. testStatus[Dir] = 124 /\ mode = "plain"
    BY <2>1, <2>2 DEF Poll, PolledStatus, Timeouts
  <2>4. Own(Dir) \/ pc[MakeJob(Dir)] = "clean"
    BY <2>2, <2>3 DEF Timeouts, Ordered
  <2>5. pc[MakeJob(Dir)] # "clean"
    <3>1. MakeJob(Dir) \in JobIds /\ MakeJob(Dir).what = "make"
      BY <2>2, JobsExist DEF MakeJob
    <3> QED
      BY <3>1 DEF Slots, Building, Active
  <2> QED
    BY <2>3, <2>4, <2>5 DEF Own
<1>2. Init => Timeouts
  BY ConstantsAssumption DEF Init, Timeouts, Own, Status
<1>3. Spec => []Timeouts
  BY <1>2, TimeoutsStep, TypesInvariant, OrderedInvariant, OnceRunInvariant, PTL DEF Spec
<1> QED
  BY <1>1, <1>3, TypesInvariant, SlotsInvariant, OrderedInvariant, PTL
  DEF Spec, GivesUpOnlyTimeouts

-----------------------------------------------------------------------------
(* The harness is a result book.                                           *)

\* A job changes the result files by one line, or not at all.
LEMMA JobBooks ==
    ASSUME NEW j \in JobIds, JobStep(j)
    PROVE  AppendFail(j) \/ Report(j) \/ UNCHANGED bookVars
BY DEF JobStep, BoundedStep, Clean, Build, Compile, Grep, LockFail, RunStart, RunFree,
   VerifyBuild, Lock, Execute

\* So does the script.
LEMMA DispatcherBooks ==
    ASSUME Dispatcher
    PROVE  MakeGpus \/ UNCHANGED bookVars
BY DEF Dispatcher, MakeSkip, MakeSubmit, MakeLoopEnd, MakeWait, RunNextDir, RunGpus,
   RunSubmit, RunSubmit2, Poll, RunNextList, RunLoopEnd, Gather

\* make-fail.txt gains a line if either kind of its lines does.
LEMMA MakeFailLine ==
    ASSUME Types, NEW t \in Dirs,
           \/ makeFailed' = Bump(makeFailed, t) /\ checkFailed' = checkFailed
           \/ checkFailed' = Bump(checkFailed, t) /\ makeFailed' = makeFailed
    PROVE  MakeFail' = [MakeFail EXCEPT ![t] = @ + 1]
<1>1. makeFailed \in [Dirs -> Nat] /\ checkFailed \in [Dirs -> Nat]
  BY DEF Types, TypeOK
<1>2. \A x \in Dirs : makeFailed'[x] + checkFailed'[x] =
                        makeFailed[x] + checkFailed[x] + (IF x = t THEN 1 ELSE 0)
  BY <1>1 DEF Bump
<1>3. \A x \in Dirs : MakeFail'[x] = IF x = t THEN MakeFail[x] + 1 ELSE MakeFail[x]
  BY <1>1, <1>2 DEF MakeFail
<1>4. /\ MakeFail' = [x \in Dirs |-> MakeFail'[x]]
      /\ [MakeFail EXCEPT ![t] = @ + 1] =
            [x \in Dirs |-> IF x = t THEN MakeFail[x] + 1 ELSE MakeFail[x]]
  BY DEF MakeFail
<1> QED
  BY <1>3, <1>4

\* When the totals are printed no job is left.
Quiet == phase = "done" => Active = {}
LEMMA QuietInvariant == Spec => []Quiet
<1>1. Init => Quiet
  BY DEF Init, Quiet
<1>2. Types /\ Quiet /\ [Next]_vars => Quiet'
  <2> SUFFICES ASSUME Types, Quiet, [Next]_vars PROVE Quiet'
    OBVIOUS
  <2>1. CASE Dispatcher
    BY <2>1 DEF Quiet, Active, AllDone, Dispatcher, MakeSkip, MakeGpus, MakeSubmit,
       MakeLoopEnd, MakeWait, RunNextDir, RunGpus, RunSubmit, RunSubmit2, Poll,
       RunNextList, RunLoopEnd, Gather, InRunLoop
  <2>2. ASSUME NEW j \in JobIds, JobStep(j) PROVE Quiet'
    BY <2>2, JobMoves DEF Quiet, Active
  <2>3. CASE UNCHANGED vars
    BY <2>3 DEF vars, Quiet, Active
  <2> QED
    BY <2>1, <2>2, <2>3 DEF Next
<1> QED
  BY <1>1, <1>2, TypesInvariant, PTL DEF Spec

\* Until the totals are printed there is no report, and only gatherdata prints.
LEMMA OnlyGatherReports ==
    ASSUME Next, ~Gather
    PROVE  phase' = "done" <=> phase = "done"
<1>1. CASE Dispatcher
  BY <1>1 DEF Dispatcher, MakeSkip, MakeGpus, MakeSubmit, MakeLoopEnd, MakeWait, RunNextDir,
     RunGpus, RunSubmit, RunSubmit2, Poll, RunNextList, RunLoopEnd, InRunLoop
<1>2. ASSUME NEW j \in JobIds, JobStep(j) PROVE phase' = phase
  BY <1>2 DEF JobStep, BoundedStep, Clean, Build, Compile, Grep, LockFail, AppendFail,
     RunStart, RunFree, VerifyBuild, Lock, Execute, Report, dispVars
<1> QED
  BY <1>1, <1>2 DEF Next

\* One more line for t in one of the three files.
OneLine(t) ==
    \/ passing' = Bump(passing, t) /\ UNCHANGED <<failing, MakeFail>>
    \/ failing' = Bump(failing, t) /\ UNCHANGED <<passing, MakeFail>>
    \/ MakeFail' = Bump(MakeFail, t) /\ UNCHANGED <<passing, failing>>

LEMMA BookMoves ==
    ASSUME Types, Quiet, Next
    PROVE  \/ UNCHANGED <<passing, failing, MakeFail>>
           \/ phase # "done" /\ \E t \in Dirs : OneLine(t)
<1>0. \A j \in JobIds : j.test \in Dirs
  BY JobTest
<1>1. CASE UNCHANGED bookVars
  BY <1>1 DEF bookVars, MakeFail
<1>2. CASE MakeGpus
  <2>0. Dir \in Dirs
    BY <1>2, ConstantsAssumption DEF MakeGpus, Dir, Types, TypeOK
  <2>1. PICK t \in Dirs : t = Dir
    BY <2>0
  <2>2. /\ phase = "make" /\ failing' = failing /\ checkFailed' = checkFailed
        /\ \/ passing' = Bump(passing, t) /\ makeFailed' = makeFailed
           \/ passing' = passing /\ makeFailed' = Bump(makeFailed, t)
    BY <1>2, <2>1 DEF MakeGpus
  <2>3. makeFailed' = makeFailed => MakeFail' = MakeFail
    BY <2>2 DEF MakeFail
  <2>4. makeFailed' = Bump(makeFailed, t) => MakeFail' = Bump(MakeFail, t)
    BY <2>2, MakeFailLine DEF Bump
  <2>5. OneLine(t)
    BY <2>2, <2>3, <2>4 DEF OneLine
  <2> QED
    BY <2>2, <2>5
<1>3. ASSUME NEW j \in JobIds, AppendFail(j) \/ Report(j)
      PROVE  \/ UNCHANGED <<passing, failing, MakeFail>>
             \/ phase # "done" /\ \E t \in Dirs : OneLine(t)
  <2>1. j.test \in Dirs /\ phase # "done"
    BY <1>0, <1>3 DEF Quiet, Active, AppendFail, Report
  <2>2. PICK t \in Dirs : t = j.test
    BY <2>1
  <2>3. CASE Report(j)
    <3>1. MakeFail' = MakeFail
      BY <2>3 DEF Report, MakeFail
    <3>2. OneLine(t)
      BY <2>2, <2>3, <3>1 DEF Report, OneLine
    <3> QED
      BY <2>1, <3>2
  <2>4. CASE AppendFail(j)
    <3>1. /\ UNCHANGED <<passing, failing>>
          /\ \/ makeFailed' = Bump(makeFailed, t) /\ checkFailed' = checkFailed
             \/ checkFailed' = Bump(checkFailed, t) /\ makeFailed' = makeFailed
             \/ checkFailed' = checkFailed /\ makeFailed' = makeFailed
      BY <2>2, <2>4 DEF AppendFail
    <3>2. \/ MakeFail' = [MakeFail EXCEPT ![t] = @ + 1]
          \/ checkFailed' = checkFailed /\ makeFailed' = makeFailed
      BY <3>1, MakeFailLine
    <3>3. OneLine(t) \/ UNCHANGED MakeFail
      BY <3>1, <3>2 DEF OneLine, Bump, MakeFail
    <3> QED
      BY <2>1, <3>1, <3>3
  <2> QED
    BY <1>3, <2>3, <2>4
<1> QED
  BY <1>1, <1>2, <1>3, JobBooks, DispatcherBooks DEF Next

\* The concurrent jobs and the script together are a result book: the lines
\* come one at a time, the totals count them when no job is left, and no line
\* comes after the totals.
THEOREM ImplementsResultBook == Spec => IsResultBook
<1>1. Init => Book!Init
  <2> SUFFICES ASSUME Init PROVE Book!Init
    OBVIOUS
  <2>1. MakeFail = [t \in Dirs |-> 0]
    BY DEF Init, MakeFail
  <2> QED
    BY <2>1 DEF Init, Book!Init, Book!Empty, Book!NoReport
<1>2. Types /\ Quiet /\ [Next]_vars => [Book!Next]_(Book!vars)
  <2> SUFFICES ASSUME Types, Quiet, [Next]_vars PROVE [Book!Next]_(Book!vars)
    OBVIOUS
  <2>1. CASE UNCHANGED vars
    BY <2>1 DEF vars, Book!vars, MakeFail
  <2>2. CASE Gather
    <3>1. /\ Lines(passing) = Book!Count(passing)
          /\ Lines(failing) = Book!Count(failing)
          /\ Lines(MakeFail) = Book!Count(MakeFail)
      BY DEF Lines, Book!Count, FoldFunction, Book!FoldFunction, FoldFunctionOnSet,
         Book!FoldFunctionOnSet, MapThenFoldSet, Book!MapThenFoldSet
    <3>2. /\ UNCHANGED <<passing, failing, MakeFail>>
          /\ phase = "runwait" /\ phase' = "done"
          /\ passing_tests' = Lines(passing)
          /\ total_tests' = Lines(passing) + Lines(MakeFail) + Lines(failing)
      BY <2>2 DEF Gather, bookVars, MakeFail
    <3>3. Book!Gather
      BY <3>1, <3>2 DEF Book!Gather, Book!NoReport
    <3> QED
      BY <3>3 DEF Book!Next
  <2>3. CASE Next /\ ~Gather
    <3>1. phase' = "done" <=> phase = "done"
      BY <2>3, OnlyGatherReports
    <3>2. UNCHANGED totals
      BY <2>3 DEF Next, Dispatcher, MakeSkip, MakeGpus, MakeSubmit, MakeLoopEnd, MakeWait,
         RunNextDir, RunGpus, RunSubmit, RunSubmit2, Poll, RunNextList, RunLoopEnd, JobStep,
         BoundedStep, Clean, Build, Compile, Grep, LockFail, AppendFail, RunStart, RunFree,
         VerifyBuild, Lock, Execute, Report
    <3>3. CASE UNCHANGED <<passing, failing, MakeFail>>
      BY <3>1, <3>2, <3>3 DEF totals, Book!vars
    <3>4. CASE phase # "done" /\ \E t \in Dirs : OneLine(t)
      <4>1. PICK t \in Dirs : OneLine(t)
        BY <3>4
      <4>2. Book!RecordPass(t) \/ Book!RecordFail(t) \/ Book!RecordMake(t)
        BY <3>1, <3>4, <4>1 DEF OneLine, Bump, Book!RecordPass, Book!RecordFail,
           Book!RecordMake, Book!Record, Book!NoReport
      <4> QED
        BY <4>2 DEF Book!Next
    <3> QED
      BY <2>3, <3>3, <3>4, BookMoves
  <2> QED
    BY <2>1, <2>2, <2>3
<1> QED
  BY <1>1, <1>2, TypesInvariant, QuietInvariant, PTL DEF Spec, IsResultBook, Book!Spec

-----------------------------------------------------------------------------
(* The log of a run.                                                       *)

\* A session without reruns, as check_smoke.sh is configured by default.
OneRun == SmokeLrun <= 1 /\ \A t \in Dirs : Kind[t] = "verify" => MyNrun(t) <= 1

\* From the start of an execution to the end of its verification the log holds the
\* output of this execution only.
Logging == {"runfree", "vbuild", "lock", "running"}
OwnLog ==
    \A j \in JobIds :
        pc[j] \in Logging /\ Kind[j.test] = "verify" /\ j.test \notin Unsupported =>
            runLog[j.test] = {j}

\* Without reruns a verified test has one run job.
LEMMA OneVerifier ==
    ASSUME OneRun, Wanted, NEW j \in JobIds, pc[j] # "idle", j.what # "make",
           Kind[j.test] = "verify"
    PROVE  j = [test |-> j.test, what |-> "check", l |-> 0, r |-> 0]
<1>1. j \in RunJobIds /\ j.r < MyNrun(j.test) /\ j.what # "run"
  BY DEF Wanted, AsSubmitted
<1>2. /\ j = [test |-> j.test, what |-> j.what, l |-> j.l, r |-> j.r]
      /\ j.test \in Dirs /\ j.what \in {"run", "check"}
      /\ j.l \in 0..(SmokeLrun - 1) /\ j.r \in 0..(MaxNrun - 1)
  BY <1>1 DEF RunJobIds
<1>3. j.l = 0 /\ j.r = 0
  <2>1. MyNrun(j.test) \in Nat /\ MyNrun(j.test) <= 1 /\ SmokeLrun \in Nat /\ SmokeLrun <= 1
        /\ MaxNrun \in Nat
    BY <1>2, ConstantsAssumption DEF OneRun, MyNrun
  <2> QED
    BY <1>1, <1>2, <2>1
<1> QED
  BY <1>1, <1>2, <1>3

LEMMA OwnLogStep ==
    ASSUME OneRun, Types, Slots, Roles, Wanted, OwnLog, [Next]_vars
    PROVE  OwnLog'
<1>1. /\ pc \in [JobIds -> JobPcs] /\ runLog \in [Dirs -> SUBSET JobIds]
      /\ \A j \in JobIds : j.test \in Dirs
  BY JobTest DEF Types, TypeOK
<1>2. CASE Dispatcher
  <2>1. \A j \in JobIds : pc'[j] \in Logging => pc[j] = pc'[j]
    BY <1>1, <1>2, DispatcherMoves DEF Logging
  <2>2. \A t \in Dirs : Kind[t] = "verify" => runLog'[t] = runLog[t]
    <3>1. MakeGpus \/ UNCHANGED runLog
      BY <1>2 DEF Dispatcher, MakeSkip, MakeSubmit, MakeLoopEnd, MakeWait, RunNextDir,
         RunGpus, RunSubmit, RunSubmit2, Poll, RunNextList, RunLoopEnd, Gather, diskVars
    <3> QED
      BY <1>1, <3>1 DEF MakeGpus
  <2> QED
    BY <1>1, <2>1, <2>2 DEF OwnLog
<1>3. ASSUME NEW i \in JobIds, JobStep(i) PROVE OwnLog'
  <2>1. \A j \in JobIds : j # i => pc'[j] = pc[j]
    BY <1>1, <1>3, JobMoves
  <2>2. ASSUME NEW j \in JobIds, j # i, j.test = i.test, Kind[j.test] = "verify",
               pc[i] \notin {"clean", "idle"}, i.what # "make", pc[j] \in Logging
        PROVE  FALSE
    <3>1. j.what # "make" /\ pc[j] # "idle"
      BY <2>2 DEF Roles, Logging
    <3>2. /\ j = [test |-> j.test, what |-> "check", l |-> 0, r |-> 0]
          /\ i = [test |-> i.test, what |-> "check", l |-> 0, r |-> 0]
      BY <2>2, <3>1, OneVerifier
    <3> QED
      BY <2>2, <3>2
  <2>3. CASE Clean(i)
    <3>1. i.what = "make" /\ i \in Active /\ Building
      BY <2>3 DEF Clean, Roles, Slots, Active
    <3>2. \A j \in JobIds : pc[j] \notin Logging
      BY <3>1 DEF Slots, Roles, Active, Logging
    <3>3. \A j \in JobIds : pc'[j] \notin Logging
      BY <1>1, <2>1, <2>3, <3>2 DEF Clean, Goto, Logging
    <3> QED
      BY <3>3 DEF OwnLog
  <2>4. CASE RunStart(i)
    <3>1. /\ runLog' = [runLog EXCEPT ![i.test] = {i}] /\ pc[i] = "runstart"
          /\ i.what # "make"
      BY <2>4 DEF RunStart, Roles
    <3> QED
      BY <1>1, <2>1, <2>2, <3>1 DEF OwnLog
  <2>5. CASE RunFree(i)
    <3>1. /\ runLog' = [runLog EXCEPT ![i.test] = @ \cup {i}] /\ pc[i] = "runfree"
          /\ i.what # "make"
      BY <2>5 DEF RunFree, Roles
    <3>2. Kind[i.test] = "verify" /\ i.test \notin Unsupported => runLog[i.test] = {i}
      BY <3>1 DEF OwnLog, Logging
    <3> QED
      BY <1>1, <2>1, <2>2, <3>1, <3>2 DEF OwnLog
  <2>6. CASE ~Clean(i) /\ ~RunStart(i) /\ ~RunFree(i)
    <3>1. runLog' = runLog
      BY <1>3, <2>6 DEF JobStep, BoundedStep, Build, Compile, Grep, LockFail, AppendFail,
         VerifyBuild, Lock, Execute, Report, diskVars
    <3>2. /\ Kind[i.test] = "verify" /\ i.test \notin Unsupported =>
                OnBuildSuccess(i) \notin Logging
          /\ OnBuildFailure(i) \notin Logging
      BY DEF OnBuildSuccess, OnBuildFailure, Logging
    <3>3. /\ Kind[i.test] = "verify" /\ i.test \notin Unsupported /\ pc'[i] \in Logging =>
                pc[i] \in Logging
      BY <1>1, <1>3, <2>6, <3>2 DEF JobStep, BoundedStep, Build, Compile, Grep, LockFail,
         AppendFail, VerifyBuild, Lock, Execute, Report, Goto, Logging
    <3> QED
      BY <1>1, <2>1, <3>1, <3>3 DEF OwnLog
  <2> QED
    BY <2>3, <2>4, <2>5, <2>6
<1>4. CASE UNCHANGED vars
  BY <1>4 DEF vars, OwnLog
<1> QED
  BY <1>2, <1>3, <1>4 DEF Next

LEMMA RolesInvariant == Spec => []Roles
<1>1. Init => Roles
  BY DEF Init, Roles
<1> QED
  BY <1>1, RolesStep, TypesInvariant, PTL DEF Spec

\* Without reruns verify_output reads the output of the execution it verifies: no
\* other job empties, extends or removes the log in between.
THEOREM VerifiesItsRun ==
    ASSUME OneRun
    PROVE  Spec => []VerifiesOwnLog
<1>1. Init => OwnLog
  BY DEF Init, OwnLog, Logging
<1>2. Types /\ Slots /\ Roles /\ Wanted /\ OwnLog /\ [Next]_vars => OwnLog'
  BY OwnLogStep
<1>3. OwnLog => VerifiesOwnLog
  BY DEF OwnLog, VerifiesOwnLog, Logging
<1> QED
  BY <1>1, <1>2, <1>3, TypesInvariant, SlotsInvariant, RolesInvariant, WantedInvariant, PTL
  DEF Spec

-----------------------------------------------------------------------------
(* Every run is reported.                                                  *)

\* Which jobs reach which part of the recipes, and when a grep has found a line.
Paths ==
    \A j \in JobIds :
        /\ pc[j] = "grep" => j.what = "check" /\ ByStatus(j.test)
        /\ pc[j] \in {"lockfail", "append"} =>
               \/ j.what = "make"
               \/ j.what = "check" /\ (ByStatus(j.test) \/ Kind[j.test] = "bundled")
        /\ pc[j] \in {"runstart", "runfree"} => j.what = "run" \/ Kind[j.test] = "verify"
        /\ pc[j] = "vbuild" => j.what # "run" /\ Kind[j.test] = "verify"
        /\ pc[j] \in {"lock", "running", "report"} => j.what # "run"
        /\ seen[j] =>
               /\ pc[j] \in {"lockfail", "append", "done"}
               /\ j.what = "check" /\ ByStatus(j.test)
               /\ \E e \in GrepMatches[j.test] : makeFailed[e] > 0

\* A step does not change what decides a test, nor remove a line.
LEMMA BooksGrow ==
    ASSUME Types, [Next]_vars
    PROVE  /\ \A t \in Dirs : ByStatus(t)' <=> ByStatus(t)
           /\ \A t \in Dirs : makeFailed[t] > 0 => makeFailed'[t] > 0
<1>1. mode' = mode
  BY DEF Next, Dispatcher, MakeSkip, MakeGpus, MakeSubmit, MakeLoopEnd, MakeWait, RunNextDir,
     RunGpus, RunSubmit, RunSubmit2, Poll, RunNextList, RunLoopEnd, Gather, JobStep,
     BoundedStep, Clean, Build, Compile, Grep, LockFail, AppendFail, RunStart, RunFree,
     VerifyBuild, Lock, Execute, Report, dispVars, vars
<1>2. makeFailed' = makeFailed \/ \E t : makeFailed' = Bump(makeFailed, t)
  <2>1. CASE UNCHANGED bookVars
    BY <2>1 DEF bookVars
  <2>2. CASE MakeGpus
    <3>1. PICK t : t = Dir
      OBVIOUS
    <3> QED
      BY <2>2, <3>1 DEF MakeGpus
  <2>3. ASSUME NEW j \in JobIds, AppendFail(j) \/ Report(j)
        PROVE  makeFailed' = makeFailed \/ \E t : makeFailed' = Bump(makeFailed, t)
    <3>1. PICK t : t = j.test
      OBVIOUS
    <3> QED
      BY <2>3, <3>1 DEF AppendFail, Report
  <2>4. CASE UNCHANGED vars
    BY <2>4 DEF vars
  <2> QED
    BY <2>1, <2>2, <2>3, <2>4, JobBooks, DispatcherBooks DEF Next
<1>3. makeFailed \in [Dirs -> Nat]
  BY DEF Types, TypeOK
<1>4. \A t \in Dirs : makeFailed[t] > 0 => makeFailed'[t] > 0
  BY <1>2, <1>3 DEF Bump
<1>5. \A t \in Dirs : ByStatus(t)' <=> ByStatus(t)
  BY <1>1 DEF ByStatus
<1> QED
  BY <1>4, <1>5

LEMMA PathsStep ==
    ASSUME Types, Ordered, Wanted, Roles, Paths, [Next]_vars
    PROVE  Paths'
<1>1. /\ pc \in [JobIds -> JobPcs] /\ seen \in [JobIds -> BOOLEAN]
      /\ \A j \in JobIds : j.test \in Dirs /\ GrepMatches[j.test] \subseteq Dirs
  BY JobTest, ConstantsAssumption DEF Types, TypeOK
<1> DEFINE Found(j) == \E e \in GrepMatches[j.test] : makeFailed[e] > 0
           FoundNow(j) == \E e \in GrepMatches[j.test] : makeFailed'[e] > 0
<1>2. \A j \in JobIds : (ByStatus(j.test)' <=> ByStatus(j.test)) /\ (Found(j) => FoundNow(j))
  BY <1>1, BooksGrow
<1>3. CASE Dispatcher
  <2>1. seen' = seen
    BY <1>3 DEF Dispatcher, MakeSkip, MakeGpus, MakeSubmit, MakeLoopEnd, MakeWait, RunNextDir,
       RunGpus, RunSubmit, RunSubmit2, Poll, RunNextList, RunLoopEnd, Gather, Submit
  <2>2. ASSUME NEW j \in JobIds
        PROVE  pc'[j] = pc[j] \/ (pc[j] = "idle" /\ pc'[j] \in {"clean", "build", "compile"})
    BY <1>1, <1>3, Submits DEF Submitted
  <2> QED
    BY <1>1, <1>2, <2>1, <2>2 DEF Paths
<1>4. ASSUME NEW i \in JobIds, JobStep(i) PROVE Paths'
  <2>1. \A j \in JobIds : j # i => pc'[j] = pc[j]
    BY <1>1, <1>4, JobMoves
  <2>2. i.what \in {"make", "run", "check"} /\ (i.what = "run" => Kind[i.test] = "visual")
    BY <1>4, JobMoves DEF Wanted, AsSubmitted, JobIds, RunJobIds, MakeJob
  <2>3. CASE Grep(i)
    <3>1. seen' = [seen EXCEPT ![i] = Found(i)] /\ UNCHANGED makeFailed
      BY <2>3 DEF Grep, bookVars
    <3>2. pc[i] = "grep" /\ pc' = [pc EXCEPT ![i] = "lockfail"]
      BY <2>3 DEF Grep, Goto
    <3>3. ASSUME NEW j \in JobIds, seen'[j] PROVE Found(j)
      BY <1>1, <3>1, <3>3 DEF Paths
    <3> QED
      BY <1>1, <1>2, <3>1, <3>2, <3>3 DEF Paths
  <2>4. CASE ~Grep(i)
    <3>1. seen' = seen
      BY <1>4, <2>4 DEF JobStep, BoundedStep, Clean, Build, Compile, LockFail, AppendFail,
         RunStart, RunFree, VerifyBuild, Lock, Execute, Report
    <3>2. /\ OnBuildFailure(i) \in {"lockfail", "grep", "done"}
          /\ OnBuildFailure(i) = "grep" => i.what = "check" /\ ByStatus(i.test)
          /\ OnBuildFailure(i) = "lockfail" =>
                i.what = "make" \/ (i.what = "check" /\ Kind[i.test] = "bundled")
      BY DEF OnBuildFailure
    <3>3. /\ OnBuildSuccess(i) \in {"done", "vbuild", "runstart", "lock"}
          /\ OnBuildSuccess(i) = "vbuild" => Kind[i.test] = "verify"
          /\ OnBuildSuccess(i) = "runstart" => i.what = "run" \/ Kind[i.test] = "verify"
          /\ OnBuildSuccess(i) = "lock" => i.what # "run"
      BY DEF OnBuildSuccess
    <3>4. /\ pc[i] \notin {"idle", "done"}
          /\ pc'[i] = "grep" => i.what = "check" /\ ByStatus(i.test)
          /\ pc'[i] \in {"lockfail", "append"} =>
                 \/ i.what = "make"
                 \/ i.what = "check" /\ (ByStatus(i.test) \/ Kind[i.test] = "bundled")
          /\ pc'[i] \in {"runstart", "runfree"} => i.what = "run" \/ Kind[i.test] = "verify"
          /\ pc'[i] = "vbuild" => Kind[i.test] = "verify"
          /\ pc'[i] \in {"lock", "running", "report"} => i.what # "run"
          /\ seen[i] => pc'[i] \in {"append", "done"}
      <4>1. CASE Clean(i) \/ LockFail(i) \/ AppendFail(i) \/ RunStart(i)
        BY <1>1, <4>1 DEF Clean, LockFail, AppendFail, RunStart, Goto, Paths
      <4>2. CASE Build(i) \/ Compile(i)
        BY <1>1, <3>2, <3>3, <4>2 DEF Build, Compile, Goto, Paths
      <4>3. CASE RunFree(i)
        <5>1. PICK where \in IF i.what = "run" THEN {"done"} ELSE {"vbuild", "done"} :
                 pc' = [pc EXCEPT ![i] = where]
          BY <4>3 DEF RunFree, Goto
        <5> QED
          BY <1>1, <4>3, <5>1 DEF RunFree, Paths
      <4>4. CASE VerifyBuild(i)
        <5>1. PICK where \in {"lock", "done"} : pc' = [pc EXCEPT ![i] = where]
          BY <4>4 DEF VerifyBuild, Goto
        <5> QED
          BY <1>1, <4>4, <5>1 DEF VerifyBuild, Paths
      <4>5. CASE Lock(i) \/ Execute(i) \/ Report(i)
        BY <1>1, <4>5 DEF Lock, Execute, Report, Goto, Paths
      <4> QED
        BY <1>4, <2>4, <4>1, <4>2, <4>3, <4>4, <4>5 DEF JobStep, BoundedStep
    <3> QED
      BY <1>1, <1>2, <2>1, <2>2, <3>1, <3>4 DEF Paths
  <2> QED
    BY <2>3, <2>4
<1>5. CASE UNCHANGED vars
  BY <1>5 DEF vars, Paths, ByStatus
<1> QED
  BY <1>3, <1>4, <1>5 DEF Next

LEMMA PathsInvariant == Spec => []Paths
<1>1. Init => Paths
  BY DEF Init, Paths
<1>2. Types /\ Ordered /\ Wanted /\ Roles /\ Paths /\ [Next]_vars => Paths'
  BY PathsStep
<1> QED
  BY <1>1, <1>2, TypesInvariant, OrderedInvariant, WantedInvariant, RolesInvariant, PTL
  DEF Spec

\* The runs of t that have ended and did not leave it to the line of another job.
Counted(t) == {j \in Started(t) : pc[j] = "done" /\ ~seen[j]}
Left(t) == passing[t] + failing[t] + checkFailed[t]
Accounts ==
    \A t \in Dirs \ Unsupported :
        /\ IsFiniteSet(Started(t))
        /\ ByStatus(t) => Left(t) = Cardinality(Counted(t))
        /\ Kind[t] = "bundled" =>
               LET builds == Left(t) + makeFailed[t] - Cardinality(Counted(t))
               IN  /\ builds \in {0, 1}
                   /\ pc[MakeJob(t)] # "done" => builds = 0

\* The tests whose runs are accounted for.
Accountable(t) == t \in Dirs \ Unsupported /\ (ByStatus(t) \/ Kind[t] = "bundled")

\* A run of such a test ends when it leaves its line, and not otherwise.
LEMMA RunEnds ==
    ASSUME Types, Roles, Wanted, Paths, NEW j \in JobIds, JobStep(j),
           j.what = "check", Accountable(j.test)
    PROVE  pc'[j] = "done" <=> AppendFail(j) \/ Report(j)
<1>1. pc \in [JobIds -> JobPcs]
  BY DEF Types, TypeOK
<1>2. Kind[j.test] \in {"check", "bundled"}
  BY DEF Accountable, ByStatus
<1>3. OnBuildSuccess(j) = "lock" /\ OnBuildFailure(j) \in {"grep", "lockfail"}
  BY <1>2 DEF Accountable, ByStatus, OnBuildSuccess, OnBuildFailure
<1>4. pc[j] \notin {"runstart", "runfree", "vbuild"}
  BY <1>2 DEF Paths
<1> QED
  BY <1>1, <1>3, <1>4 DEF JobStep, BoundedStep, Clean, Build, Compile, Grep, LockFail,
     AppendFail, RunStart, RunFree, VerifyBuild, Lock, Execute, Report, Goto

\* A job leaves no line for another test.
LEMMA OtherLines ==
    ASSUME Types, NEW j \in JobIds, JobStep(j), NEW x \in Dirs, x # j.test
    PROVE  Left(x)' = Left(x) /\ makeFailed'[x] = makeFailed[x]
<1>1. /\ passing \in [Dirs -> Nat] /\ failing \in [Dirs -> Nat]
      /\ checkFailed \in [Dirs -> Nat] /\ makeFailed \in [Dirs -> Nat]
  BY DEF Types, TypeOK
<1>2. CASE UNCHANGED bookVars
  BY <1>2 DEF bookVars, Left
<1>3. CASE AppendFail(j) \/ Report(j)
  BY <1>1, <1>3 DEF AppendFail, Report, Bump, Left
<1> QED
  BY <1>2, <1>3, JobBooks

\* The line a job leaves for its test.
LEMMA JobLine ==
    ASSUME Types, Roles, Wanted, Paths, NEW j \in JobIds, JobStep(j), Accountable(j.test)
    PROVE  LET t == j.test
               lines == Left(t) + makeFailed[t]
           IN  /\ Kind[t] # "bundled" /\ j.what = "make" => Left(t)' = Left(t)
               /\ j.what = "make" => Left(t)' + makeFailed'[t] - lines \in {0, 1}
               /\ j.what = "make" /\ pc'[j] # "done" => Left(t)' + makeFailed'[t] = lines
               /\ j.what = "check" =>
                     Left(t)' + makeFailed'[t] - lines =
                        IF pc'[j] = "done" /\ ~seen[j] THEN 1 ELSE 0
               /\ j.what = "check" /\ Kind[t] # "bundled" => makeFailed'[t] = makeFailed[t]
<1> DEFINE t == j.test
<1>1. /\ pc \in [JobIds -> JobPcs] /\ t \in Dirs
      /\ passing \in [Dirs -> Nat] /\ failing \in [Dirs -> Nat]
      /\ checkFailed \in [Dirs -> Nat] /\ makeFailed \in [Dirs -> Nat]
      /\ seen \in [JobIds -> BOOLEAN]
  BY JobTest DEF Types, TypeOK
<1>2. j.what = "check" => (pc'[j] = "done" <=> AppendFail(j) \/ Report(j))
  BY RunEnds
<1> HIDE DEF t
<1>3. CASE UNCHANGED bookVars
  <2>1. \A x \in Dirs : Left(x)' = Left(x) /\ makeFailed'[x] = makeFailed[x]
    BY <1>3 DEF bookVars, Left
  <2>2. ~Report(j)
    <3>1. Report(j) => passing'[t] = passing[t] + 1 \/ failing'[t] = failing[t] + 1
      BY <1>1 DEF Report, Bump, t
    <3> QED
      BY <1>1, <1>3, <3>1 DEF bookVars
  <2>3. AppendFail(j) => seen[j]
    <3>1. AppendFail(j) /\ ~seen[j] =>
            makeFailed'[t] = makeFailed[t] + 1 \/ checkFailed'[t] = checkFailed[t] + 1
      BY <1>1 DEF AppendFail, Bump, t
    <3> QED
      BY <1>1, <1>3, <3>1 DEF bookVars
  <2> QED
    BY <1>1, <1>2, <2>1, <2>2, <2>3 DEF Left, t
<1>4. CASE Report(j)
  <2>1. pc[j] = "report" /\ pc'[j] = "done" /\ j.what \notin {"run", "make"} /\ ~seen[j]
    BY <1>1, <1>4 DEF Report, Goto, Paths, Roles
  <2>2. \A x \in Dirs : /\ Left(x)' = Left(x) + (IF x = t THEN 1 ELSE 0)
                        /\ makeFailed'[x] = makeFailed[x]
    BY <1>1, <1>4 DEF Report, Bump, Left, t
  <2> QED
    BY <1>1, <2>1, <2>2 DEF Left, t
<1>5. CASE AppendFail(j)
  <2>1. pc[j] = "append" /\ pc'[j] = "done" /\ j.what \in {"make", "check"}
    BY <1>1, <1>5 DEF AppendFail, Goto, Paths
  <2>2. CASE j.what = "make" \/ Kind[t] = "bundled"
    <3>1. ~(seen[j] /\ j.what = "check")
      BY <2>2 DEF Paths, ByStatus, t
    <3>2. \A x \in Dirs : /\ Left(x)' = Left(x)
                          /\ makeFailed'[x] = makeFailed[x] + (IF x = t THEN 1 ELSE 0)
      BY <1>1, <1>5, <2>2 DEF AppendFail, Bump, Left, t
    <3> QED
      BY <1>1, <2>1, <2>2, <3>1, <3>2 DEF Left, t
  <2>3. CASE j.what = "check" /\ Kind[t] # "bundled"
    <3>1. \A x \in Dirs : /\ Left(x)' = Left(x) + (IF x = t /\ ~seen[j] THEN 1 ELSE 0)
                          /\ makeFailed'[x] = makeFailed[x]
      BY <1>1, <1>5, <2>3 DEF AppendFail, Bump, Left, t
    <3> QED
      BY <1>1, <2>1, <2>3, <3>1 DEF Left, t
  <2> QED
    BY <2>1, <2>2, <2>3
<1> QED
  BY <1>3, <1>4, <1>5, JobBooks

\* Adding up: one more element, one more line.
LEMMA OneMoreCounted ==
    ASSUME NEW S, IsFiniteSet(S), NEW j, j \notin S
    PROVE  Cardinality(S \cup {j}) = Cardinality(S) + 1
BY FS_AddElement

\* The script starts runs and leaves no line for a test it does not compile itself.
LEMMA AccountsDispatcher ==
    ASSUME Types, Ordered, Accounts, Dispatcher, [Next]_vars
    PROVE  Accounts'
<1>1. /\ pc \in [JobIds -> JobPcs]
      /\ passing \in [Dirs -> Nat] /\ failing \in [Dirs -> Nat]
      /\ checkFailed \in [Dirs -> Nat] /\ makeFailed \in [Dirs -> Nat]
      /\ \A t \in Dirs : MakeJob(t) \in JobIds
  BY JobsExist DEF Types, TypeOK
<1>2. seen' = seen
  BY DEF Dispatcher, MakeSkip, MakeGpus, MakeSubmit, MakeLoopEnd, MakeWait, RunNextDir,
     RunGpus, RunSubmit, RunSubmit2, Poll, RunNextList, RunLoopEnd, Gather, Submit
<1>3. PICK j \in JobIds \cup {NoJob} : UNCHANGED pc \/ (j \in JobIds /\ Submitted(j))
  <2>1. NoJob \in JobIds \cup {NoJob}
    OBVIOUS
  <2> QED
    BY <2>1, Submits
<1>4. \A i \in JobIds : /\ pc'[i] = "done" <=> pc[i] = "done"
                        /\ i # j => pc'[i] = pc[i]
                        /\ pc[i] # "idle" => pc'[i] # "idle"
  BY <1>1, <1>3 DEF Submitted
<1>5. ASSUME NEW t \in Dirs, Kind[t] # "gpus"
      PROVE  Left(t)' = Left(t) /\ makeFailed'[t] = makeFailed[t]
  <2>1. CASE UNCHANGED bookVars
    BY <2>1 DEF bookVars, Left
  <2>2. CASE MakeGpus
    BY <1>1, <1>5, <2>2 DEF MakeGpus, Bump, Left
  <2> QED
    BY <2>1, <2>2, DispatcherBooks
<1>6. ASSUME NEW t \in Dirs \ Unsupported PROVE
        /\ IsFiniteSet(Started(t)')
        /\ Counted(t)' = Counted(t)
  <2>1. Started(t)' \in SUBSET (Started(t) \cup {j})
    BY <1>4 DEF Started
  <2>2. IsFiniteSet(Started(t) \cup {j})
    BY FS_AddElement DEF Accounts
  <2>3. IsFiniteSet(Started(t)')
    BY <2>1, <2>2, FS_Subset
  <2>4. Counted(t)' = Counted(t)
    BY <1>2, <1>4 DEF Counted, Started
  <2> QED
    BY <2>3, <2>4
<1>7. \A t \in Dirs : ByStatus(t)' <=> ByStatus(t)
  BY BooksGrow
<1>8. \A t \in Dirs : ByStatus(t) => Kind[t] # "gpus"
  BY DEF ByStatus
<1> QED
  BY <1>1, <1>4, <1>5, <1>6, <1>7, <1>8 DEF Accounts

\* A job changes the accounts of its own test, and keeps them balanced.
LEMMA AccountsJob ==
    ASSUME Types, Roles, Wanted, Paths, Accounts, NEW j \in JobIds, JobStep(j), [Next]_vars
    PROVE  Accounts'
<1>1. /\ pc \in [JobIds -> JobPcs] /\ j.test \in Dirs
      /\ \A t \in Dirs : MakeJob(t) \in JobIds /\ MakeJob(t).test = t
      /\ passing \in [Dirs -> Nat] /\ failing \in [Dirs -> Nat]
      /\ checkFailed \in [Dirs -> Nat] /\ makeFailed \in [Dirs -> Nat]
  BY JobTest, JobsExist DEF Types, TypeOK, MakeJob
<1>2. /\ \A i \in JobIds : i # j => pc'[i] = pc[i]
      /\ pc[j] \notin {"idle", "done"} /\ pc'[j] # "idle"
  BY <1>1, JobMoves
<1>3. \A i \in JobIds : (i # j \/ pc[j] # "grep") => seen'[i] = seen[i]
  BY DEF Types, TypeOK, JobStep, BoundedStep, Clean, Build, Compile, Grep, LockFail,
     AppendFail, RunStart, RunFree, VerifyBuild, Lock, Execute, Report
<1>4. pc[j] = "grep" => pc'[j] = "lockfail"
  BY <1>1 DEF JobStep, BoundedStep, Clean, Build, Compile, Grep, LockFail, AppendFail,
     RunStart, RunFree, VerifyBuild, Lock, Execute, Report, Goto
<1>5. \A t \in Dirs : Started(t)' = Started(t)
  BY <1>2 DEF Started
<1>6. \A t \in Dirs : ByStatus(t)' <=> ByStatus(t)
  BY BooksGrow
<1>7. ASSUME NEW t \in Dirs, j.test # t \/ j.what # "check" PROVE Counted(t)' = Counted(t)
  BY <1>2, <1>3, <1>7 DEF Counted, Started
<1>8. ASSUME NEW t \in Dirs \ Unsupported, t # j.test
      PROVE  /\ Left(t)' = Left(t) /\ makeFailed'[t] = makeFailed[t]
             /\ Counted(t)' = Counted(t) /\ pc'[MakeJob(t)] = pc[MakeJob(t)]
  BY <1>1, <1>2, <1>7, <1>8, OtherLines
<1>9. ASSUME NEW t \in Dirs \ Unsupported, t = j.test, Accountable(t)
      PROVE  /\ ByStatus(t) => Left(t)' = Cardinality(Counted(t)')
             /\ Kind[t] = "bundled" =>
                  LET builds == Left(t)' + makeFailed'[t] - Cardinality(Counted(t)')
                  IN  /\ builds \in {0, 1}
                      /\ pc'[MakeJob(t)] # "done" => builds = 0
  <2>1. /\ Left(t) \in Nat /\ Left(t)' \in Nat
        /\ makeFailed[t] \in Nat /\ makeFailed'[t] \in Nat
    <3>1. Types'
      BY JobTypes
    <3>2. /\ passing' \in [Dirs -> Nat] /\ failing' \in [Dirs -> Nat]
          /\ checkFailed' \in [Dirs -> Nat] /\ makeFailed' \in [Dirs -> Nat]
      BY <3>1 DEF Types, TypeOK
    <3>3. t \in Dirs
      OBVIOUS
    <3> QED
      BY <1>1, <3>2, <3>3 DEF Left
  <2>2. IsFiniteSet(Counted(t)) /\ Cardinality(Counted(t)) \in Nat
    <3>1. Counted(t) \in SUBSET Started(t)
      BY DEF Counted
    <3> QED
      BY <3>1, FS_Subset, FS_CardinalityType DEF Accounts
  <2>3. ByStatus(t) => Kind[t] # "bundled"
    BY DEF ByStatus
  <2>4. CASE j.what = "make"
    <3>1. j = MakeJob(t)
      BY <1>9, <2>4 DEF JobIds, RunJobIds, MakeJob
    <3>2. Counted(t)' = Counted(t)
      BY <1>7, <2>4
    <3>3. /\ Kind[t] # "bundled" => Left(t)' = Left(t)
          /\ Left(t)' + makeFailed'[t] - (Left(t) + makeFailed[t]) \in {0, 1}
          /\ pc'[j] # "done" => Left(t)' + makeFailed'[t] = Left(t) + makeFailed[t]
      BY <1>9, <2>4, JobLine
    <3>4. /\ ByStatus(t) => Left(t) = Cardinality(Counted(t))
          /\ Kind[t] = "bundled" => Left(t) + makeFailed[t] - Cardinality(Counted(t)) = 0
      BY <1>2, <3>1 DEF Accounts
    <3>5. ByStatus(t) => Left(t)' = Cardinality(Counted(t)')
      BY <2>3, <3>2, <3>3, <3>4
    <3>6. ASSUME Kind[t] = "bundled"
          PROVE  /\ Left(t)' + makeFailed'[t] - Cardinality(Counted(t)') \in {0, 1}
                 /\ pc'[MakeJob(t)] # "done" =>
                       Left(t)' + makeFailed'[t] - Cardinality(Counted(t)') = 0
      BY <2>1, <2>2, <3>1, <3>2, <3>3, <3>4, <3>6
    <3> QED
      BY <3>5, <3>6
  <2>5. CASE j.what = "check"
    <3> DEFINE more == IF pc'[j] = "done" /\ ~seen[j] THEN 1 ELSE 0
    <3>1. Cardinality(Counted(t)') = Cardinality(Counted(t)) + more
      <4>1. CASE pc'[j] = "done" /\ ~seen[j]
        <5>1. Counted(t)' = Counted(t) \cup {j} /\ j \notin Counted(t)
          BY <1>2, <1>3, <1>4, <1>9, <2>5, <4>1 DEF Counted, Started
        <5> QED
          BY <2>2, <4>1, <5>1, OneMoreCounted
      <4>2. CASE ~(pc'[j] = "done" /\ ~seen[j])
        <5>1. Counted(t)' = Counted(t)
          BY <1>2, <1>3, <1>4, <1>9, <2>5, <4>2 DEF Counted, Started
        <5> QED
          BY <2>2, <4>2, <5>1
      <4> QED
        BY <4>1, <4>2
    <3>2. /\ Left(t)' + makeFailed'[t] - (Left(t) + makeFailed[t]) = more
          /\ Kind[t] # "bundled" => makeFailed'[t] = makeFailed[t]
      BY <1>9, <2>5, JobLine
    <3>3. pc'[MakeJob(t)] = pc[MakeJob(t)]
      BY <1>1, <1>2, <2>5 DEF MakeJob
    <3>4. more \in {0, 1}
      OBVIOUS
    <3> HIDE DEF more
    <3>5. /\ ByStatus(t) => Left(t) = Cardinality(Counted(t))
          /\ Kind[t] = "bundled" =>
                /\ Left(t) + makeFailed[t] - Cardinality(Counted(t)) \in {0, 1}
                /\ pc[MakeJob(t)] # "done" =>
                      Left(t) + makeFailed[t] - Cardinality(Counted(t)) = 0
      BY DEF Accounts
    <3>6. ByStatus(t) => Left(t)' = Cardinality(Counted(t)')
      BY <2>1, <2>2, <2>3, <3>1, <3>2, <3>4, <3>5
    <3>7. ASSUME Kind[t] = "bundled"
          PROVE  /\ Left(t)' + makeFailed'[t] - Cardinality(Counted(t)') \in {0, 1}
                 /\ pc'[MakeJob(t)] # "done" =>
                       Left(t)' + makeFailed'[t] - Cardinality(Counted(t)') = 0
      BY <2>1, <2>2, <3>1, <3>2, <3>3, <3>4, <3>5, <3>7
    <3> QED
      BY <3>6, <3>7
  <2>6. j.what \in {"make", "check"}
    BY <1>2, <1>9 DEF Accountable, ByStatus, Wanted, AsSubmitted, JobIds, RunJobIds, MakeJob
  <2> QED
    BY <2>4, <2>5, <2>6
<1>10. ASSUME NEW t \in Dirs \ Unsupported, ~ByStatus(t), Kind[t] # "bundled"
       PROVE  ~ByStatus(t)'
  BY <1>6, <1>10
<1>11. \A t \in Dirs \ Unsupported : Accountable(t) <=> ByStatus(t) \/ Kind[t] = "bundled"
  BY DEF Accountable
<1> QED
  BY <1>5, <1>6, <1>8, <1>9, <1>10, <1>11 DEF Accounts

LEMMA AccountsInvariant == Spec => []Accounts
<1>1. Init => Accounts
  <2> SUFFICES ASSUME Init PROVE Accounts
    OBVIOUS
  <2>1. ASSUME NEW t \in Dirs
        PROVE  /\ Started(t) = {} /\ Counted(t) = {} /\ Left(t) = 0 /\ makeFailed[t] = 0
    BY <2>1 DEF Init, Started, Counted, Left
  <2> QED
    BY <2>1, FS_EmptySet DEF Accounts
<1>2. Types /\ Ordered /\ Wanted /\ Roles /\ Paths /\ Accounts /\ [Next]_vars => Accounts'
  <2> SUFFICES ASSUME Types, Ordered, Wanted, Roles, Paths, Accounts, [Next]_vars
               PROVE  Accounts'
    OBVIOUS
  <2>1. CASE UNCHANGED vars
    BY <2>1 DEF vars, Accounts, Started, Counted, Left, ByStatus
  <2> QED
    BY <2>1, AccountsDispatcher, AccountsJob DEF Next
<1> QED
  BY <1>1, <1>2, TypesInvariant, OrderedInvariant, WantedInvariant, RolesInvariant,
     PathsInvariant, PTL DEF Spec

\* No run is lost, with any number of tests, list iterations, reruns and slots: each
\* has left its line when the totals are printed, or a grep of it has found the
\* "Make Failed" line it relies on.
THEOREM NoRunIsLost == Spec => []EveryRunReported
<1>1. Types /\ Quiet /\ Paths /\ Accounts => EveryRunReported
  <2> SUFFICES ASSUME Types, Quiet, Paths, Accounts, phase = "done",
                      NEW t \in Dirs \ Unsupported
               PROVE  LET runs  == Cardinality(Started(t))
                          lines == passing[t] + failing[t] + checkFailed[t]
                      IN  /\ Kind[t] = "bundled" =>
                                 lines + makeFailed[t] - runs \in {0, 1}
                          /\ ByStatus(t) =>
                                 \/ lines = runs
                                 \/ /\ lines < runs
                                    /\ \E e \in GrepMatches[t] : makeFailed[e] > 0
    BY DEF EveryRunReported
  <2>1. \A j \in JobIds : pc[j] # "idle" => pc[j] = "done"
    BY DEF Quiet, Active
  <2>2. IsFiniteSet(Started(t)) /\ Counted(t) \in SUBSET Started(t)
    BY DEF Accounts, Counted
  <2>3. Cardinality(Counted(t)) \in Nat /\ Cardinality(Started(t)) \in Nat
    BY <2>2, FS_Subset, FS_CardinalityType
  <2>4. CASE \E j \in Started(t) : seen[j]
    <3>1. PICK j \in Started(t) : seen[j]
      BY <2>4
    <3>2. ByStatus(t) /\ \E e \in GrepMatches[t] : makeFailed[e] > 0
      BY <3>1 DEF Paths, Started
    <3>3. j \notin Counted(t)
      BY <3>1 DEF Counted
    <3>4. Cardinality(Counted(t)) < Cardinality(Started(t))
      BY <2>2, <2>3, <3>1, <3>3, FS_Subset
    <3>5. Left(t) = Cardinality(Counted(t)) /\ Kind[t] # "bundled"
      BY <3>2 DEF Accounts, ByStatus
    <3> QED
      BY <3>2, <3>4, <3>5 DEF Left
  <2>5. CASE ~ \E j \in Started(t) : seen[j]
    <3>1. Counted(t) = Started(t)
      BY <2>1, <2>5 DEF Counted, Started
    <3> QED
      BY <3>1 DEF Accounts, Left
  <2> QED
    BY <2>4, <2>5
<1> QED
  BY <1>1, TypesInvariant, QuietInvariant, PathsInvariant, AccountsInvariant, PTL
=============================================================================
