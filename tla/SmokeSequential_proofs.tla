----------------------- MODULE SmokeSequential_proofs -----------------------
(***************************************************************************)
(* Proofs about SmokeSequential for every list of tests, every environment  *)
(* of the script and every number of list iterations and reruns.            *)
(***************************************************************************)
EXTENDS SmokeSequential, CountingLemmas

\* The phases of the rerun loop of one directory.
Body == {"rerun", "target", "optmake", "optrun", "run", "verify", "check", "exec",
         "poll"}

\* The types, by what they are about; in the rerun loop the script is inside the
\* other two, and FileCheck never ends with the status of a timeout.
PosOK ==
    /\ env \in Environments /\ phase \in Phases
    /\ at \in 1..(Len(SmokeDirs) + 1) /\ lrun \in 0..env.lrun
    /\ run \in Nat /\ opt \in 1..FlagOptions
    /\ phase \in Body => at <= Len(SmokeDirs) /\ lrun < env.lrun
    /\ phase = "run" => Kind[Dir] \in {"visual", "verify"}
    /\ phase = "verify" => Kind[Dir] = "verify"
DiskOK ==
    /\ built \in [Dirs -> BOOLEAN]
    /\ testStatus \in [Dirs -> Status \cup {NoFile}]
    /\ fcStatus \in [Dirs -> Status \cup {NoFile}]
    /\ \A t \in Dirs : fcStatus[t] # 124
BookOK ==
    /\ passing \in [Dirs -> Nat] /\ failing \in [Dirs -> Nat]
    /\ makeFail \in [Dirs -> Nat] /\ body \in [Dirs -> Nat] /\ flagFails \in Nat
Types ==
    /\ PosOK /\ DiskOK /\ BookOK
    /\ timedOut \in [0..(env.lrun - 1) -> SUBSET Dirs]

\* The numbers the environment gives, and the test a position stands for.
LEMMA Numbers ==
    ASSUME PosOK
    PROVE  /\ env.lrun \in Nat /\ env.nrun \in Nat /\ env.sanitizer \in BOOLEAN
           /\ Len(SmokeDirs) \in Nat /\ at \in Nat /\ lrun \in Nat
           /\ FlagOptions \in Nat \ {0} /\ opt \in Nat
           /\ at <= Len(SmokeDirs) => Dir \in Dirs
BY ConstantsAssumption DEF PosOK, Dir

\* A result file stays a number of lines per test.
LEMMA BumpType ==
    ASSUME NEW file \in [Dirs -> Nat], NEW t \in Dirs
    PROVE  Bump(file, t) \in [Dirs -> Nat]
BY DEF Bump

-----------------------------------------------------------------------------
(* What a step may do, one part of the state at a time.                    *)

\* The loops end where they should.
LEMMA PosStep ==
    ASSUME PosOK, Next
    PROVE  PosOK'
<1>0. /\ env.lrun \in Nat /\ Len(SmokeDirs) \in Nat /\ at \in Nat /\ lrun \in Nat
      /\ FlagOptions \in Nat \ {0} /\ opt \in Nat /\ env' = env
  BY Numbers DEF Next, BoundedStep, UntimedStep
<1> USE DEF PosOK, Phases, Body, Goto, NextDir, NextRun, Dir
<1>1. CASE DirMissing
  BY <1>0, <1>1 DEF DirMissing, InList
<1>2. CASE EnterDir
  BY <1>0, <1>2 DEF EnterDir, InList
<1>3. CASE NextList
  BY <1>0, <1>3 DEF NextList
<1>4. CASE ListsDone
  BY <1>0, <1>4 DEF ListsDone
<1>5. CASE RerunsDone
  BY <1>0, <1>5 DEF RerunsDone
<1>6. CASE MakeOk
  BY <1>0, <1>6 DEF MakeOk
<1>7. CASE MakeFails
  BY <1>0, <1>7 DEF MakeFails
<1>8. CASE Target
  BY <1>0, <1>8 DEF Target
<1>9. CASE FreeRun
  BY <1>0, <1>9 DEF FreeRun
<1>10. CASE Verify
  BY <1>0, <1>10 DEF Verify
<1>11. CASE CheckBuilds
  BY <1>0, <1>11 DEF CheckBuilds
<1>12. CASE CheckFails
  BY <1>0, <1>12 DEF CheckFails
<1>13. CASE Execute
  BY <1>0, <1>13 DEF Execute
<1>14. CASE FlagsBegin
  BY <1>0, <1>14 DEF FlagsBegin
<1>15. CASE OptionMake
  BY <1>0, <1>15 DEF OptionMake, NextOption
<1>16. CASE OptionRun
  BY <1>0, <1>16 DEF OptionRun, NextOption
<1>17. CASE Poll
  BY <1>0, <1>17 DEF Poll
<1>18. CASE Gather
  BY <1>0, <1>18 DEF Gather
<1>19. CASE Cleanup
  BY <1>0, <1>19 DEF Cleanup
<1> QED
  BY <1>1, <1>2, <1>3, <1>4, <1>5, <1>6, <1>7, <1>8, <1>9, <1>10, <1>11, <1>12,
     <1>13, <1>14, <1>15, <1>16, <1>17, <1>18, <1>19 DEF Next, BoundedStep, UntimedStep

\* What a make leaves of the binary.
LEMMA MakeType ==
    ASSUME DiskOK, Dir \in Dirs,
           (\E o \in PlainOutcomes : Built(o)) \/ (\E o \in MakeOutcomes : Built(o))
    PROVE  DiskOK'
<1>1. \A o \in PlainOutcomes \cup MakeOutcomes : o.bin \in BOOLEAN
  <2>1. built[Dir] \in BOOLEAN
    BY DEF DiskOK
  <2>2. \A o \in MakeOutcomes : o.bin \in BOOLEAN
    <3> SUFFICES ASSUME NEW o \in MakeOutcomes PROVE o.bin \in BOOLEAN
      OBVIOUS
    <3>1. \/ o = [ok |-> TRUE, bin |-> built[Dir]]
          \/ o = [ok |-> TRUE, bin |-> TRUE]
          \/ \E b \in BOOLEAN : o = [ok |-> b, bin |-> b]
      BY DEF MakeOutcomes
    <3>2. o.bin = built[Dir] \/ o.bin = TRUE \/ \E b \in BOOLEAN : o.bin = b
      BY <3>1
    <3> QED
      BY <2>1, <3>2
  <2> QED
    BY <2>1, <2>2 DEF PlainOutcomes
<1> QED
  BY <1>1 DEF Built, DiskOK

\* Binaries and status files: removed, rebuilt, or written by an execution.
LEMMA DiskStep ==
    ASSUME PosOK, DiskOK, Next
    PROVE  DiskOK'
<1>0. UNCHANGED disk => DiskOK'
  BY DEF disk, DiskOK
<1>20. at <= Len(SmokeDirs) => Dir \in Dirs
  BY Numbers
<1>21. phase \in Body => Dir \in Dirs
  BY <1>20 DEF PosOK
<1> USE DEF Body
<1>1. CASE DirMissing
  BY <1>0, <1>1 DEF DirMissing, InList
<1>2. CASE EnterDir
  <2>1. CASE lrun = 0
    <3>1. Dir \in Dirs
      BY <1>2, <1>20 DEF EnterDir, InList
    <3>2. /\ built' = [built EXCEPT ![Dir] = FALSE]
          /\ testStatus' = [testStatus EXCEPT ![Dir] = NoFile]
          /\ fcStatus' = [fcStatus EXCEPT ![Dir] = NoFile]
      BY <1>2, <2>1 DEF EnterDir
    <3>3. NoFile # 124
      BY ConstantsAssumption DEF Status
    <3> QED
      BY <3>1, <3>2, <3>3 DEF DiskOK
  <2>2. CASE lrun # 0
    BY <1>0, <1>2, <2>2 DEF EnterDir
  <2> QED
    BY <2>1, <2>2
<1>3. CASE NextList
  BY <1>0, <1>3 DEF NextList
<1>4. CASE ListsDone
  BY <1>0, <1>4 DEF ListsDone
<1>5. CASE RerunsDone
  BY <1>0, <1>5 DEF RerunsDone
<1>6. CASE MakeOk
  BY <1>0, <1>6, <1>21, MakeType DEF MakeOk
<1>7. CASE MakeFails
  BY <1>0, <1>7, <1>21, MakeType DEF MakeFails
<1>8. CASE Target
  BY <1>0, <1>8 DEF Target
<1>9. CASE FreeRun
  BY <1>0, <1>9, <1>21, MakeType DEF FreeRun
<1>10. CASE Verify
  BY <1>0, <1>10 DEF Verify
<1>11. CASE CheckBuilds
  BY <1>0, <1>11, <1>21, MakeType DEF CheckBuilds
<1>12. CASE CheckFails
  BY <1>0, <1>12, <1>21, MakeType DEF CheckFails
<1>13. CASE Execute
  BY <1>0, <1>13, <1>21, ConstantsAssumption DEF Execute, DiskOK, Status
<1>14. CASE FlagsBegin
  BY <1>0, <1>14 DEF FlagsBegin
<1>15. CASE OptionMake
  BY <1>0, <1>15 DEF OptionMake
<1>16. CASE OptionRun
  BY <1>0, <1>16 DEF OptionRun
<1>17. CASE Poll
  BY <1>0, <1>17 DEF Poll
<1>18. CASE Gather
  BY <1>0, <1>18 DEF Gather
<1>19. CASE Cleanup
  BY <1>0, <1>19 DEF Cleanup
<1> QED
  BY <1>1, <1>2, <1>3, <1>4, <1>5, <1>6, <1>7, <1>8, <1>9, <1>10, <1>11, <1>12,
     <1>13, <1>14, <1>15, <1>16, <1>17, <1>18, <1>19 DEF Next, BoundedStep, UntimedStep

\* One line in one result file.
OneLine ==
    \/ passing' = Bump(passing, Dir) /\ UNCHANGED <<failing, makeFail>>
    \/ failing' = Bump(failing, Dir) /\ UNCHANGED <<passing, makeFail>>
    \/ makeFail' = Bump(makeFail, Dir) /\ UNCHANGED <<passing, failing>>

\* The result files only change by one line for the test at hand, and when they
\* are removed after the report.
LEMMA BookStep ==
    ASSUME PosOK, Next
    PROVE  \/ UNCHANGED <<book, totals>>
           \/ phase \in Body /\ OneLine /\ UNCHANGED totals
           \/ phase = "report" /\ Gather
           \/ phase = "cleanup" /\ Cleanup
<1> USE DEF book, Body, OneLine
<1>1. CASE DirMissing
  BY <1>1 DEF DirMissing, InList
<1>2. CASE EnterDir
  BY <1>2 DEF EnterDir, InList
<1>3. CASE NextList
  BY <1>3 DEF NextList
<1>4. CASE ListsDone
  BY <1>4 DEF ListsDone
<1>5. CASE RerunsDone
  BY <1>5 DEF RerunsDone
<1>6. CASE MakeOk
  BY <1>6 DEF MakeOk
<1>7. CASE MakeFails
  BY <1>7 DEF MakeFails
<1>8. CASE Target
  BY <1>8 DEF Target
<1>9. CASE FreeRun
  BY <1>9 DEF FreeRun
<1>10. CASE Verify
  BY <1>10 DEF Verify
<1>11. CASE CheckBuilds
  BY <1>11 DEF CheckBuilds
<1>12. CASE CheckFails
  BY <1>12 DEF CheckFails
<1>13. CASE Execute
  BY <1>13 DEF Execute
<1>14. CASE FlagsBegin
  BY <1>14 DEF FlagsBegin
<1>15. CASE OptionMake
  BY <1>15 DEF OptionMake
<1>16. CASE OptionRun
  BY <1>16 DEF OptionRun
<1>17. CASE Poll
  BY <1>17 DEF Poll
<1>18. CASE Gather
  BY <1>18 DEF Gather
<1>19. CASE Cleanup
  BY <1>19 DEF Cleanup
<1> QED
  BY <1>1, <1>2, <1>3, <1>4, <1>5, <1>6, <1>7, <1>8, <1>9, <1>10, <1>11, <1>12,
     <1>13, <1>14, <1>15, <1>16, <1>17, <1>18, <1>19 DEF Next, BoundedStep, UntimedStep

\* So do the history variables.
LEMMA HistStep ==
    ASSUME PosOK, Next
    PROVE  /\ body' = body \/ (phase = "rerun" /\ body' = Bump(body, Dir))
           /\ flagFails' = flagFails \/ (phase = "optmake" /\ flagFails' = flagFails + 1)
           /\ \/ timedOut' = timedOut
              \/ phase = "exec" /\ timedOut' = [timedOut EXCEPT ![lrun] = @ \cup {Dir}]
<1> USE DEF hist
<1>1. CASE DirMissing
  BY <1>1 DEF DirMissing, InList
<1>2. CASE EnterDir
  BY <1>2 DEF EnterDir, InList
<1>3. CASE NextList
  BY <1>3 DEF NextList
<1>4. CASE ListsDone
  BY <1>4 DEF ListsDone
<1>5. CASE RerunsDone
  BY <1>5 DEF RerunsDone
<1>6. CASE MakeOk
  BY <1>6 DEF MakeOk
<1>7. CASE MakeFails
  BY <1>7 DEF MakeFails
<1>8. CASE Target
  BY <1>8 DEF Target
<1>9. CASE FreeRun
  BY <1>9 DEF FreeRun
<1>10. CASE Verify
  BY <1>10 DEF Verify
<1>11. CASE CheckBuilds
  BY <1>11 DEF CheckBuilds
<1>12. CASE CheckFails
  BY <1>12 DEF CheckFails
<1>13. CASE Execute
  BY <1>13 DEF Execute
<1>14. CASE FlagsBegin
  BY <1>14 DEF FlagsBegin
<1>15. CASE OptionMake
  BY <1>15 DEF OptionMake
<1>16. CASE OptionRun
  BY <1>16 DEF OptionRun
<1>17. CASE Poll
  BY <1>17 DEF Poll
<1>18. CASE Gather
  BY <1>18 DEF Gather
<1>19. CASE Cleanup
  BY <1>19 DEF Cleanup
<1> QED
  BY <1>1, <1>2, <1>3, <1>4, <1>5, <1>6, <1>7, <1>8, <1>9, <1>10, <1>11, <1>12,
     <1>13, <1>14, <1>15, <1>16, <1>17, <1>18, <1>19 DEF Next, BoundedStep, UntimedStep

\* Every step keeps every variable in its type.
LEMMA TypesStep == Types /\ [Next]_vars => Types'
<1> SUFFICES ASSUME Types, [Next]_vars PROVE Types'
  OBVIOUS
<1>1. CASE UNCHANGED vars
  BY <1>1 DEF vars, Types, PosOK, DiskOK, BookOK, Dir
<1>2. CASE Next
  <2>1. PosOK /\ PosOK' /\ DiskOK'
    BY <1>2, PosStep, DiskStep DEF Types
  <2>2. phase \in Body => Dir \in Dirs /\ lrun \in 0..(env.lrun - 1)
    BY <2>1, Numbers DEF PosOK
  <2>3. passing' \in [Dirs -> Nat] /\ failing' \in [Dirs -> Nat] /\ makeFail' \in [Dirs -> Nat]
    <3>1. CASE UNCHANGED <<book, totals>>
      BY <3>1 DEF book, Types, BookOK
    <3>2. CASE phase \in Body /\ OneLine
      <4>1. /\ Bump(passing, Dir) \in [Dirs -> Nat]
            /\ Bump(failing, Dir) \in [Dirs -> Nat]
            /\ Bump(makeFail, Dir) \in [Dirs -> Nat]
        BY <2>2, <3>2, BumpType DEF Types, BookOK
      <4> QED
        BY <3>2, <4>1 DEF OneLine, Types, BookOK
    <3>3. CASE Gather
      BY <3>3 DEF Gather, book, Types, BookOK
    <3>4. CASE Cleanup
      BY <3>4 DEF Cleanup, book, Types, BookOK
    <3> QED
      BY <1>2, <2>1, <3>1, <3>2, <3>3, <3>4, BookStep
  <2>4. body' \in [Dirs -> Nat] /\ flagFails' \in Nat
    <3>1. phase \in Body => Bump(body, Dir) \in [Dirs -> Nat]
      BY <2>2, BumpType DEF Types, BookOK
    <3>2. /\ body' = body \/ (phase = "rerun" /\ body' = Bump(body, Dir))
          /\ flagFails' \in {flagFails, flagFails + 1}
      BY <1>2, <2>1, HistStep
    <3> QED
      BY <3>1, <3>2 DEF Types, BookOK, Body
  <2>5. timedOut' \in [0..(env.lrun' - 1) -> SUBSET Dirs]
    <3>1. env' = env
      BY <1>2 DEF Next, BoundedStep, UntimedStep
    <3>2. CASE timedOut' = timedOut
      BY <3>1, <3>2 DEF Types
    <3>3. CASE phase = "exec" /\ timedOut' = [timedOut EXCEPT ![lrun] = @ \cup {Dir}]
      BY <2>2, <3>1, <3>3 DEF Types, Body
    <3> QED
      BY <1>2, <2>1, <3>2, <3>3, HistStep
  <2> QED
    BY <2>1, <2>3, <2>4, <2>5 DEF Types, BookOK
<1> QED
  BY <1>1, <1>2

\* Types holds in every reachable state.
LEMMA TypesInvariant == Spec => []Types
<1>1. Init => Types
  BY ConstantsAssumption
  DEF Init, Types, PosOK, DiskOK, BookOK, Phases, Body, Status
<1> QED
  BY <1>1, TypesStep, PTL DEF Spec

\* The script never leaves the list of tests, the list iterations or the options
\* of flags, whatever status files earlier sessions have left.
THEOREM TypeCorrect == Spec => []TypeOK
<1>1. Types => TypeOK
  BY DEF Types, PosOK, DiskOK, BookOK, TypeOK
<1> QED
  BY <1>1, TypesInvariant, PTL

-----------------------------------------------------------------------------
(* One line per round.                                                     *)

\* The lines of each test in the three files, and what its rounds owe if it is
\* the test flags.
lines == [t \in Dirs |-> passing[t] + failing[t] + makeFail[t]]
owed == [t \in Dirs |-> FlagOptions * body[t]]

Balanced(t) ==
    /\ Kind[t] \in {"check", "bundled", "gpus"} => lines[t] = body[t]
    /\ Kind[t] = "flags" => lines[t] = owed[t] + flagFails

\* Inside a round the line of the test at hand is missing, and those of flags for
\* the options to come.
Inside == {"target", "check", "exec", "optmake", "optrun"}
KindFits ==
    /\ phase \in {"target", "check", "exec"} =>
          Kind[Dir] # "flags" /\ (Kind[Dir] = "gpus" => phase = "target")
    /\ phase \in {"optmake", "optrun"} => Kind[Dir] = "flags"
LineMissing ==
    /\ phase \in {"target", "check", "exec"} =>
          (Kind[Dir] \in {"check", "bundled", "gpus"} => lines[Dir] + 1 = body[Dir])
    /\ phase = "optmake" => lines[Dir] + FlagOptions = owed[Dir] + flagFails
    /\ phase = "optrun" => lines[Dir] + FlagOptions = owed[Dir] + flagFails + (opt - 1)
AllBalanced ==
    \A t \in Dirs \ Unsupported : (phase \in Inside /\ t = Dir) \/ Balanced(t)
Rounds ==
    /\ KindFits
    /\ phase # "done" => AllBalanced
    /\ phase \in Inside /\ Dir \notin Unsupported => LineMissing

\* What a step does to the sums.
LEMMA LinesStep ==
    ASSUME Types, Dir \in Dirs
    PROVE  /\ lines \in [Dirs -> Nat] /\ owed \in [Dirs -> Nat]
           /\ OneLine => lines' = [lines EXCEPT ![Dir] = @ + 1]
           /\ UNCHANGED book => lines' = lines
           /\ body' = body => owed' = owed
           /\ body' = Bump(body, Dir) => owed' = [owed EXCEPT ![Dir] = @ + FlagOptions]
<1>1. lines \in [Dirs -> Nat]
  BY DEF Types, BookOK, lines
<1>2. owed \in [Dirs -> Nat]
  BY ConstantsAssumption DEF Types, BookOK, owed
<1>3. ASSUME OneLine PROVE lines' = [lines EXCEPT ![Dir] = @ + 1]
  <2>1. passing \in [Dirs -> Nat] /\ failing \in [Dirs -> Nat] /\ makeFail \in [Dirs -> Nat]
    BY DEF Types, BookOK
  <2>2. \A t \in Dirs : passing'[t] + failing'[t] + makeFail'[t] =
                          passing[t] + failing[t] + makeFail[t] + (IF t = Dir THEN 1 ELSE 0)
    BY <1>3, <2>1 DEF OneLine, Bump
  <2>3. \A t \in Dirs : lines'[t] = lines[t] + (IF t = Dir THEN 1 ELSE 0)
    BY <2>2 DEF lines
  <2>4. lines' = [t \in Dirs |-> lines'[t]]
    BY DEF lines
  <2> QED
    BY <1>1, <2>3, <2>4
<1>4. UNCHANGED book => lines' = lines
  BY DEF book, lines
<1>5. body' = body => owed' = owed
  BY DEF owed
<1>6. ASSUME body' = Bump(body, Dir) PROVE owed' = [owed EXCEPT ![Dir] = @ + FlagOptions]
  <2>1. \A n \in Nat : FlagOptions * (n + 1) = FlagOptions * n + FlagOptions
    BY ConstantsAssumption
  <2> QED
    BY <1>6, <2>1 DEF Bump, owed, Types, BookOK
<1> QED
  BY <1>1, <1>2, <1>3, <1>4, <1>5, <1>6

\* A step inside a round keeps the balance of the other tests.
LEMMA OthersBalanced ==
    ASSUME Types, Rounds, Next, phase \in Body
    PROVE  \A t \in Dirs \ Unsupported : t # Dir => Balanced(t)'
<1> SUFFICES ASSUME NEW t \in Dirs \ Unsupported, t # Dir PROVE Balanced(t)'
  OBVIOUS
<1>1. Dir \in Dirs
  BY Numbers DEF Types, PosOK
<1>2. Balanced(t)
  BY DEF Rounds, AllBalanced, Body
<1>3. /\ body' = body \/ body' = Bump(body, Dir)
      /\ flagFails' = flagFails \/ phase = "optmake"
  BY HistStep DEF Types
<1>4. Kind[t] = "flags" => flagFails' = flagFails
  BY <1>1, <1>3, ConstantsAssumption DEF Rounds, KindFits
<1>5. lines'[t] = lines[t]
  <2>1. UNCHANGED book \/ OneLine
    BY BookStep DEF Types, Body
  <2> QED
    BY <1>1, <2>1, LinesStep
<1>6. body'[t] = body[t] /\ owed'[t] = owed[t]
  BY <1>1, <1>3, LinesStep DEF Bump, Types, BookOK
<1> QED
  BY <1>2, <1>4, <1>5, <1>6 DEF Balanced

\* Every round leaves its lines, whichever way it ends.
LEMMA RoundsStep ==
    ASSUME Types, Rounds, Next
    PROVE  Rounds'
<1>0. /\ phase \in Body => Dir \in Dirs
      /\ FlagOptions \in Nat \ {0} /\ opt \in 1..FlagOptions /\ flagFails \in Nat
      /\ body \in [Dirs -> Nat] /\ lines \in [Dirs -> Nat] /\ owed \in [Dirs -> Nat]
      /\ at' = at => Dir' = Dir
      /\ phase = "run" => Kind[Dir] \in {"visual", "verify"}
      /\ phase = "verify" => Kind[Dir] = "verify"
  BY ConstantsAssumption, Numbers DEF Types, PosOK, BookOK, lines, owed, Dir
<1>20. UNCHANGED <<book, body>> => lines' = lines /\ owed' = owed
  BY DEF book, lines, owed
<1>21. phase \in Body =>
          /\ OneLine => lines' = [lines EXCEPT ![Dir] = @ + 1]
          /\ UNCHANGED book => lines' = lines
          /\ body' = body => owed' = owed
          /\ body' = Bump(body, Dir) => owed' = [owed EXCEPT ![Dir] = @ + FlagOptions]
  BY <1>0, LinesStep
<1>22. phase \in Body => \A t \in Dirs \ Unsupported : t # Dir => Balanced(t)'
  BY OthersBalanced
<1> USE DEF Rounds, KindFits, LineMissing, AllBalanced, Balanced, Inside, Body
<1>1. CASE DirMissing
  BY <1>0, <1>1, <1>20 DEF DirMissing, InList, book, hist, Goto, NextDir, NextRun
<1>2. CASE EnterDir
  BY <1>0, <1>2, <1>20 DEF EnterDir, InList, book, hist, Goto, NextDir, NextRun
<1>3. CASE NextList
  BY <1>0, <1>3, <1>20 DEF NextList, book, hist, Goto, NextDir, NextRun
<1>4. CASE ListsDone
  BY <1>0, <1>4, <1>20 DEF ListsDone, book, hist, Goto, NextDir, NextRun
<1>5. CASE RerunsDone
  BY <1>0, <1>5, <1>20 DEF RerunsDone, book, hist, Goto, NextDir, NextRun
<1>6. CASE MakeOk
  <2>1. /\ phase = "rerun" /\ phase' = "target" /\ at' = at /\ Kind[Dir] # "flags"
        /\ UNCHANGED book /\ body' = Bump(body, Dir) /\ flagFails' = flagFails
    BY <1>6 DEF MakeOk, Goto
  <2>2. lines'[Dir] = lines[Dir] /\ body'[Dir] = body[Dir] + 1
    BY <1>0, <1>21, <2>1 DEF Bump
  <2> QED
    BY <1>0, <1>22, <2>1, <2>2
<1>7. CASE MakeFails
  <2>1. /\ phase = "rerun" /\ phase' \in {"dir", "rerun"} /\ Kind[Dir] # "flags"
        /\ OneLine /\ body' = Bump(body, Dir) /\ flagFails' = flagFails
    BY <1>7 DEF MakeFails, NextDir, NextRun, OneLine
  <2>2. lines'[Dir] = lines[Dir] + 1 /\ body'[Dir] = body[Dir] + 1
    BY <1>0, <1>21, <2>1 DEF Bump
  <2> QED
    BY <1>0, <1>22, <2>1, <2>2
<1>8. CASE Target
  <2>1. /\ phase = "target" /\ phase' \in {"poll", "run", "check"} /\ at' = at
        /\ Kind[Dir] = "gpus" => OneLine /\ phase' = "poll"
        /\ Kind[Dir] # "gpus" => UNCHANGED book /\ phase' # "poll"
        /\ phase' = "run" => Kind[Dir] \in {"visual", "verify"}
        /\ body' = body /\ flagFails' = flagFails
    BY <1>8 DEF Target, Goto, OneLine, book, hist
  <2>2. /\ lines'[Dir] = lines[Dir] + (IF Kind[Dir] = "gpus" THEN 1 ELSE 0)
        /\ body'[Dir] = body[Dir]
    BY <1>0, <1>21, <2>1
  <2> QED
    BY <1>0, <1>22, <2>1, <2>2
<1>9. CASE FreeRun
  BY <1>0, <1>9, <1>20 DEF FreeRun, book, hist, Goto, NextDir, NextRun
<1>10. CASE Verify
  <2>1. /\ phase = "verify" /\ phase' = "poll" /\ at' = at /\ Kind[Dir] = "verify"
    BY <1>0, <1>10 DEF Verify, Goto
  <2> QED
    BY <1>0, <1>22, <2>1
<1>11. CASE CheckBuilds
  BY <1>0, <1>11, <1>20 DEF CheckBuilds, book, hist, Goto, NextDir, NextRun
<1>12. CASE CheckFails
  <2>1. /\ phase = "check" /\ phase' \in {"poll", "dir"}
        /\ Kind[Dir] \in {"check", "bundled"} => OneLine
        /\ body' = body /\ flagFails' = flagFails
    BY <1>12 DEF CheckFails, Goto, NextDir, OneLine, hist
  <2>2. /\ Kind[Dir] \in {"check", "bundled"} => lines'[Dir] = lines[Dir] + 1
        /\ body'[Dir] = body[Dir]
    BY <1>0, <1>21, <2>1
  <2> QED
    BY <1>0, <1>22, <2>1, <2>2
<1>13. CASE Execute
  <2>1. /\ phase = "exec" /\ phase' = "poll" /\ at' = at
        /\ OneLine /\ body' = body /\ flagFails' = flagFails
    BY <1>13 DEF Execute, Goto, OneLine
  <2>2. lines'[Dir] = lines[Dir] + 1 /\ body'[Dir] = body[Dir]
    BY <1>0, <1>21, <2>1
  <2> QED
    BY <1>0, <1>22, <2>1, <2>2
<1>14. CASE FlagsBegin
  <2>1. /\ phase = "rerun" /\ phase' = "optmake" /\ at' = at /\ Kind[Dir] = "flags"
        /\ UNCHANGED book /\ body' = Bump(body, Dir) /\ flagFails' = flagFails
    BY <1>14 DEF FlagsBegin
  <2>2. lines'[Dir] = lines[Dir] /\ owed'[Dir] = owed[Dir] + FlagOptions
    BY <1>0, <1>21, <2>1
  <2> QED
    BY <1>0, <1>22, <2>1, <2>2
<1>15. CASE OptionMake
  <2>1. /\ phase = "optmake" /\ phase' \in {"optmake", "optrun"} /\ at' = at
        /\ phase' = "optrun" => opt' = 1
        /\ body' = body
        /\ \/ UNCHANGED book /\ flagFails' = flagFails
           \/ OneLine /\ flagFails' = flagFails + 1
    BY <1>15 DEF OptionMake, NextOption, OneLine, book
  <2>2. /\ lines'[Dir] - flagFails' = lines[Dir] - flagFails
        /\ owed'[Dir] = owed[Dir] /\ lines'[Dir] \in Nat /\ flagFails' \in Nat
    BY <1>0, <1>21, <2>1
  <2>3. /\ Kind[Dir] = "flags" /\ owed[Dir] \in Nat /\ lines[Dir] \in Nat
    BY <1>0, <2>1
  <2> QED
    BY <1>0, <1>22, <2>1, <2>2, <2>3
<1>16. CASE OptionRun
  <2>1. /\ phase = "optrun" /\ phase' \in {"optrun", "poll"} /\ at' = at
        /\ phase' = "optrun" => opt' = opt + 1
        /\ phase' = "poll" => opt = FlagOptions
        /\ OneLine /\ body' = body /\ flagFails' = flagFails
    BY <1>0, <1>16 DEF OptionRun, NextOption, OneLine, hist
  <2>2. lines'[Dir] = lines[Dir] + 1 /\ owed'[Dir] = owed[Dir]
    BY <1>0, <1>21, <2>1
  <2> QED
    BY <1>0, <1>22, <2>1, <2>2
<1>17. CASE Poll
  BY <1>0, <1>17, <1>20 DEF Poll, book, hist, Goto, NextDir, NextRun
<1>18. CASE Gather
  BY <1>0, <1>18, <1>20 DEF Gather, book, hist, Goto, NextDir, NextRun
<1>19. CASE Cleanup
  BY <1>0, <1>19, <1>20 DEF Cleanup, book, hist, Goto, NextDir, NextRun
<1> QED
  BY <1>1, <1>2, <1>3, <1>4, <1>5, <1>6, <1>7, <1>8, <1>9, <1>10, <1>11, <1>12,
     <1>13, <1>14, <1>15, <1>16, <1>17, <1>18, <1>19 DEF Next, BoundedStep, UntimedStep

\* Rounds holds in every reachable state.
LEMMA RoundsInvariant == Spec => []Rounds
<1>1. Init => Rounds
  <2> SUFFICES ASSUME Init PROVE Rounds
    OBVIOUS
  <2>1. phase = "dir" /\ flagFails = 0 /\ phase \notin Inside
    BY DEF Init, Inside
  <2>2. ASSUME NEW t \in Dirs PROVE lines[t] = 0 /\ owed[t] = 0 /\ body[t] = 0
    BY <2>2, ConstantsAssumption DEF Init, lines, owed
  <2> QED
    BY <2>1, <2>2 DEF Rounds, KindFits, LineMissing, AllBalanced, Balanced
<1>2. Types /\ Rounds /\ [Next]_vars => Rounds'
  <2> SUFFICES ASSUME Types, Rounds, UNCHANGED vars PROVE Rounds'
    BY RoundsStep
  <2>1. lines' = lines /\ owed' = owed /\ Dir' = Dir
    BY DEF vars, lines, owed, Dir
  <2> QED
    BY <2>1 DEF vars, Rounds, KindFits, LineMissing, AllBalanced, Balanced
<1> QED
  BY <1>1, <1>2, TypesInvariant, PTL DEF Spec

\* Whatever way the rounds of a test have ended (make failed, make check failed,
\* passed, failed, timed out), the result files hold one line of each.
THEOREM RoundsLeaveOneLine == Spec => []OneLinePerRound
<1>1. Rounds => OneLinePerRound
  <2> SUFFICES ASSUME Rounds, phase \in {"dir", "rerun", "report"},
                      NEW t \in Dirs \ Unsupported
               PROVE  /\ Kind[t] \in {"check", "bundled", "gpus"} =>
                            passing[t] + failing[t] + makeFail[t] = body[t]
                      /\ Kind[t] = "flags" =>
                            passing[t] + failing[t] + makeFail[t]
                              = FlagOptions * body[t] + flagFails
    BY DEF OneLinePerRound
  <2>1. Balanced(t)
    BY DEF Rounds, AllBalanced, Inside
  <2>2. /\ lines[t] = passing[t] + failing[t] + makeFail[t]
        /\ owed[t] = FlagOptions * body[t]
    BY DEF lines, owed
  <2> QED
    BY <2>1, <2>2 DEF Balanced
<1> QED
  BY <1>1, RoundsInvariant, PTL

-----------------------------------------------------------------------------
(* Timeouts.                                                               *)

\* No list iteration has seen a timeout of a test it has not reached; without the
\* sanitizer a test that has timed out is on file when its round is polled, and is
\* left.
Reached(n) == n < at \/ (n = at /\ phase \in Body)
NotYet ==
    /\ \A l \in 0..(env.lrun - 1) : l > lrun => timedOut[l] = {}
    /\ lrun < env.lrun =>
          \A n \in 1..Len(SmokeDirs) : ~Reached(n) => SmokeDirs[n] \notin timedOut[lrun]
    /\ ~env.sanitizer /\ phase \in Body /\ Dir \in timedOut[lrun] =>
          phase = "poll" /\ testStatus[Dir] = 124

\* The status of a timeout is the status of a timeout of this session: what an
\* earlier session has left is removed before a test is run.
OfThisSession ==
    /\ phase \in Body => Kind[Dir] # "missing"
    /\ \A n \in 1..Len(SmokeDirs) :
          (lrun > 0 \/ Reached(n)) /\ Kind[SmokeDirs[n]] # "missing"
              /\ testStatus[SmokeDirs[n]] = 124
          => \E l \in 0..(env.lrun - 1) : l <= lrun /\ SmokeDirs[n] \in timedOut[l]

\* Steps other than an execution: where they lead, and what they do to the status
\* files.
Move ==
    \/ at' = at /\ lrun' = lrun /\ phase \in Body \ {"poll"} /\ phase' \in Body
    \/ at' = at /\ lrun' = lrun /\ phase \notin Body /\ phase' \notin Body
    \/ /\ at' = at + 1 /\ lrun' = lrun /\ phase' = "dir"
       /\ \/ phase = "dir" /\ lrun < env.lrun /\ at <= Len(SmokeDirs)
          \/ phase \in Body
    \/ /\ at' = at /\ lrun' = lrun /\ phase' = "rerun"
       /\ \/ phase = "dir" /\ lrun < env.lrun /\ Kind[Dir] # "missing"
          \/ phase = "poll" /\ PolledStatus(Dir) # 124
    \/ /\ at' = 1 /\ lrun' = lrun + 1 /\ phase' = "dir"
       /\ phase = "dir" /\ lrun < env.lrun /\ at > Len(SmokeDirs)
LEMMA MoveStep ==
    ASSUME Types, Next, ~Execute
    PROVE  /\ Move /\ env' = env /\ timedOut' = timedOut
           /\ \/ testStatus' = testStatus
              \/ phase = "dir" /\ testStatus' = [testStatus EXCEPT ![Dir] = NoFile]
           /\ InList /\ lrun = 0 /\ Kind[Dir] # "missing" => testStatus'[Dir] = NoFile
<1>0. /\ env.lrun \in Nat /\ Len(SmokeDirs) \in Nat /\ at \in Nat /\ lrun \in Nat /\ env' = env
  BY Numbers DEF Types, Next, BoundedStep, UntimedStep
<1>20. InList => [testStatus EXCEPT ![Dir] = NoFile][Dir] = NoFile
  BY Numbers DEF InList, Types, DiskOK
<1> USE DEF Move, Body
<1>1. CASE DirMissing
  BY <1>0, <1>1 DEF DirMissing, InList, hist, disk, Goto, NextDir, NextRun, Built
<1>2. CASE EnterDir
  BY <1>0, <1>2, <1>20 DEF EnterDir, InList, hist, disk, Goto, NextDir, NextRun, Built
<1>3. CASE NextList
  BY <1>0, <1>3 DEF NextList, InList, hist, disk, Goto, NextDir, NextRun, Built
<1>4. CASE ListsDone
  BY <1>0, <1>4 DEF ListsDone, InList, hist, disk, Goto, NextDir, NextRun, Built
<1>5. CASE RerunsDone
  BY <1>0, <1>5 DEF RerunsDone, InList, hist, disk, Goto, NextDir, NextRun, Built
<1>6. CASE MakeOk
  BY <1>0, <1>6 DEF MakeOk, InList, hist, disk, Goto, NextDir, NextRun, Built
<1>7. CASE MakeFails
  BY <1>0, <1>7 DEF MakeFails, InList, hist, disk, Goto, NextDir, NextRun, Built
<1>8. CASE Target
  BY <1>0, <1>8 DEF Target, InList, hist, disk, Goto, NextDir, NextRun, Built
<1>9. CASE FreeRun
  <2>1. Kind[Dir] \in {"visual", "verify"}
    BY <1>9 DEF FreeRun, Types, PosOK
  <2>2. phase = "run" /\ phase' \in {"check", "verify", "poll"} /\ at' = at /\ lrun' = lrun
    BY <1>9, <2>1 DEF FreeRun, Goto
  <2> QED
    BY <1>0, <1>9, <2>2 DEF FreeRun, InList, hist, Built
<1>10. CASE Verify
  BY <1>0, <1>10 DEF Verify, InList, hist, disk, Goto, NextDir, NextRun, Built
<1>11. CASE CheckBuilds
  BY <1>0, <1>11 DEF CheckBuilds, InList, hist, disk, Goto, NextDir, NextRun, Built
<1>12. CASE CheckFails
  BY <1>0, <1>12 DEF CheckFails, InList, hist, disk, Goto, NextDir, NextRun, Built
<1>13. CASE Execute
  BY <1>13
<1>14. CASE FlagsBegin
  BY <1>0, <1>14 DEF FlagsBegin, InList, hist, disk, Goto, NextDir, NextRun, Built
<1>15. CASE OptionMake
  BY <1>0, <1>15 DEF OptionMake, InList, hist, disk, Goto, NextDir, NextRun, Built,
     NextOption
<1>16. CASE OptionRun
  BY <1>0, <1>16 DEF OptionRun, InList, hist, disk, Goto, NextDir, NextRun, Built,
     NextOption
<1>17. CASE Poll
  BY <1>0, <1>17 DEF Poll, InList, hist, disk, Goto, NextDir, NextRun, Built
<1>18. CASE Gather
  BY <1>0, <1>18 DEF Gather, InList, hist, disk, Goto, NextDir, NextRun, Built
<1>19. CASE Cleanup
  BY <1>0, <1>19 DEF Cleanup, InList, hist, disk, Goto, NextDir, NextRun, Built
<1> QED
  BY <1>1, <1>2, <1>3, <1>4, <1>5, <1>6, <1>7, <1>8, <1>9, <1>10, <1>11, <1>12,
     <1>13, <1>14, <1>15, <1>16, <1>17, <1>18, <1>19 DEF Next, BoundedStep, UntimedStep

LEMMA NotYetStep ==
    ASSUME Types, NotYet, Next
    PROVE  NotYet'
<1>0. /\ env.lrun \in Nat /\ Len(SmokeDirs) \in Nat /\ at \in Nat \ {0} /\ lrun \in Nat
      /\ phase \in Body => at <= Len(SmokeDirs) /\ lrun < env.lrun /\ Dir \in Dirs
      /\ timedOut \in [0..(env.lrun - 1) -> SUBSET Dirs]
  BY Numbers DEF Types, PosOK
<1>1. CASE Execute
  <2>1. /\ phase = "exec" /\ phase' = "poll" /\ at' = at /\ lrun' = lrun /\ env' = env
        /\ \/ timedOut' = timedOut
           \/ /\ testStatus' = [testStatus EXCEPT ![Dir] = 124]
              /\ timedOut' = [timedOut EXCEPT ![lrun] = @ \cup {Dir}]
    BY <1>1 DEF Execute, Goto, Next, BoundedStep, UntimedStep
  <2>2. \A n \in 1..Len(SmokeDirs) : n # at => SmokeDirs[n] # Dir
    BY <1>0, <2>1, ConstantsAssumption DEF Dir, Body
  <2>3. Dir' = Dir /\ \A n : Reached(n)' = Reached(n)
    BY <2>1 DEF Dir, Reached, Body
  <2>4. testStatus' = [testStatus EXCEPT ![Dir] = 124] => testStatus'[Dir] = 124
    BY <1>0, <2>1 DEF Types, DiskOK, Body
  <2>5. \A l \in 0..(env.lrun - 1) : l > lrun => timedOut'[l] = {}
    BY <1>0, <2>1 DEF NotYet
  <2>6. ASSUME NEW n \in 1..Len(SmokeDirs), ~Reached(n)
        PROVE  SmokeDirs[n] \notin timedOut'[lrun]
    BY <1>0, <2>1, <2>2, <2>6 DEF NotYet, Reached, Body
  <2>7. ~env.sanitizer /\ Dir \in timedOut'[lrun] => testStatus'[Dir] = 124
    BY <1>0, <2>1, <2>4 DEF NotYet, Body
  <2> QED
    BY <2>1, <2>3, <2>5, <2>6, <2>7 DEF NotYet, Body
<1>2. CASE ~Execute
  <2>1. Move /\ env' = env /\ timedOut' = timedOut
    BY <1>2, MoveStep
  <2>2. \A l \in 0..(env.lrun - 1) : l > lrun' => timedOut[l] = {}
    BY <1>0, <2>1 DEF NotYet, Move
  <2>3. lrun' < env.lrun =>
          \A n \in 1..Len(SmokeDirs) : ~Reached(n)' => SmokeDirs[n] \notin timedOut[lrun']
    BY <1>0, <2>1 DEF NotYet, Move, Reached, Body
  <2>4. ~env.sanitizer /\ phase' \in Body => Dir' \notin timedOut[lrun']
    <3>1. PolledStatus(Dir) # 124 /\ ~env.sanitizer => testStatus[Dir] # 124
      BY DEF PolledStatus
    <3>2. at' = at => Dir' = Dir
      BY DEF Dir
    <3>3. at = at' /\ phase = "dir" /\ at <= Len(SmokeDirs) /\ lrun < env.lrun =>
            Dir \notin timedOut[lrun]
      BY <1>0 DEF NotYet, Reached, Dir, Body
    <3>4. phase' \in Body => at' <= Len(SmokeDirs)
      BY PosStep DEF PosOK, Types
    <3> QED
      BY <1>0, <2>1, <3>1, <3>2, <3>3, <3>4 DEF NotYet, Move, Body
  <2> QED
    BY <2>1, <2>2, <2>3, <2>4 DEF NotYet
<1> QED
  BY <1>1, <1>2

LEMMA OfThisSessionStep ==
    ASSUME Types, OfThisSession, Next
    PROVE  OfThisSession'
<1>0. /\ env.lrun \in Nat /\ Len(SmokeDirs) \in Nat /\ at \in Nat \ {0} /\ lrun \in Nat
      /\ phase \in Body => at <= Len(SmokeDirs) /\ lrun < env.lrun /\ Dir \in Dirs
      /\ timedOut \in [0..(env.lrun - 1) -> SUBSET Dirs]
      /\ testStatus \in [Dirs -> Status \cup {NoFile}] /\ NoFile # 124
      /\ \A n \in 1..Len(SmokeDirs) : SmokeDirs[n] \in Dirs
  BY Numbers, ConstantsAssumption DEF Types, PosOK, DiskOK, Status
<1>1. CASE Execute
  <2>1. /\ phase = "exec" /\ phase' = "poll" /\ at' = at /\ lrun' = lrun /\ env' = env
        /\ \/ /\ testStatus' = [testStatus EXCEPT ![Dir] = 124]
              /\ timedOut' = [timedOut EXCEPT ![lrun] = @ \cup {Dir}]
           \/ /\ timedOut' = timedOut
              /\ \E s \in Status : s # 124 /\ testStatus' = [testStatus EXCEPT ![Dir] = s]
    BY <1>1 DEF Execute, Goto, Next, BoundedStep, UntimedStep
  <2>2. Dir' = Dir /\ \A n : Reached(n)' = Reached(n)
    BY <2>1 DEF Dir, Reached, Body
  <2>3. ASSUME NEW t \in Dirs, testStatus'[t] = 124
        PROVE  testStatus[t] = 124 \/ (t = Dir /\ Dir \in timedOut'[lrun])
    BY <1>0, <2>1, <2>3 DEF Body
  <2>4. \A l \in 0..(env.lrun - 1) : timedOut[l] \subseteq timedOut'[l]
    BY <1>0, <2>1 DEF Body
  <2>5. lrun \in 0..(env.lrun - 1) /\ lrun <= lrun
    BY <1>0, <2>1 DEF Body
  <2>6. ASSUME NEW n \in 1..Len(SmokeDirs), lrun > 0 \/ Reached(n),
               Kind[SmokeDirs[n]] # "missing", testStatus'[SmokeDirs[n]] = 124
        PROVE  \E l \in 0..(env.lrun - 1) : l <= lrun /\ SmokeDirs[n] \in timedOut'[l]
    <3>1. CASE testStatus[SmokeDirs[n]] = 124
      BY <2>4, <2>6, <3>1 DEF OfThisSession
    <3>2. CASE SmokeDirs[n] = Dir /\ Dir \in timedOut'[lrun]
      BY <2>5, <3>2
    <3> QED
      BY <1>0, <2>3, <2>6, <3>1, <3>2
  <2> QED
    BY <2>1, <2>2, <2>6 DEF OfThisSession, Body
<1>2. CASE ~Execute
  <2>1. /\ Move /\ env' = env /\ timedOut' = timedOut
        /\ \/ testStatus' = testStatus
           \/ phase = "dir" /\ testStatus' = [testStatus EXCEPT ![Dir] = NoFile]
        /\ InList /\ lrun = 0 /\ Kind[Dir] # "missing" => testStatus'[Dir] = NoFile
    BY <1>2, MoveStep
  <2>2. phase' \in Body => Kind[Dir'] # "missing"
    BY <2>1 DEF OfThisSession, Move, Dir, Body
  <2>3. ASSUME NEW n \in 1..Len(SmokeDirs), lrun' > 0 \/ Reached(n)',
               Kind[SmokeDirs[n]] # "missing", testStatus'[SmokeDirs[n]] = 124
        PROVE  \E l \in 0..(env.lrun - 1) : l <= lrun' /\ SmokeDirs[n] \in timedOut[l]
    <3>1. testStatus[SmokeDirs[n]] = 124
      BY <1>0, <2>1, <2>3
    <3>2. lrun > 0 \/ Reached(n)
      <4>1. CASE phase # "dir"
        BY <1>0, <2>1, <2>3, <4>1 DEF Move, Reached, Body
      <4>2. CASE phase = "dir" /\ n # at
        BY <1>0, <2>1, <2>3, <4>2 DEF Move, Reached, Body
      <4>3. CASE phase = "dir" /\ n = at /\ ~(lrun > 0)
        <5>1. lrun = 0 /\ testStatus'[Dir] # NoFile /\ Kind[Dir] # "missing"
          BY <1>0, <2>3, <4>3 DEF Dir
        <5>2. lrun < env.lrun
          BY <1>0, <2>1, <2>3, <4>3, <5>1 DEF Move, Reached, Body
        <5> QED
          BY <1>0, <2>1, <4>3, <5>1, <5>2 DEF InList
      <4> QED
        BY <4>1, <4>2, <4>3
    <3>3. lrun <= lrun'
      BY <1>0, <2>1 DEF Move
    <3>4. lrun' \in Nat
      BY <1>0, <2>1 DEF Move
    <3>5. PICK l \in 0..(env.lrun - 1) : l <= lrun /\ SmokeDirs[n] \in timedOut[l]
      BY <2>3, <3>1, <3>2 DEF OfThisSession
    <3>6. l <= lrun'
      BY <1>0, <3>3, <3>4, <3>5
    <3> QED
      BY <3>5, <3>6
  <2> QED
    BY <2>1, <2>2, <2>3 DEF OfThisSession
<1> QED
  BY <1>1, <1>2

\* Both hold in every reachable state.
Timeouts == NotYet /\ OfThisSession
LEMMA TimeoutsInvariant == Spec => []Timeouts
<1>1. Init => Timeouts
  BY ConstantsAssumption
  DEF Init, Timeouts, NotYet, OfThisSession, Reached, Body
<1>2. Types /\ Timeouts /\ [Next]_vars => Timeouts'
  <2> SUFFICES ASSUME Types, Timeouts, UNCHANGED vars PROVE Timeouts'
    BY NotYetStep, OfThisSessionStep DEF Timeouts
  <2>1. Dir' = Dir /\ \A n : Reached(n)' = Reached(n)
    BY DEF vars, Dir, Reached
  <2> QED
    BY <2>1 DEF vars, Timeouts, NotYet, OfThisSession
<1> QED
  BY <1>1, <1>2, TypesInvariant, PTL DEF Spec

\* "don't rerun timeouts": without the sanitizer no execution of a test starts in
\* a list iteration in which one of it has timed out.
THEOREM TimeoutsEndTheReruns == Spec => []TimeoutsNotRerun
<1>1. Timeouts => TimeoutsNotRerun
  BY DEF Timeouts, NotYet, TimeoutsNotRerun, Body
<1> QED
  BY <1>1, TimeoutsInvariant, PTL

\* A test is left before its reruns are done only if it has timed out in this
\* session; the status file of an earlier one never ends them.
THEOREM OnlyTimeoutsGiveUp == Spec => GivesUpOnlyTimeouts
<1> DEFINE Justified == at' = at + 1 /\ phase # "dir" =>
             \/ phase = "rerun" /\ run >= MyNrun(Dir)
             \/ \E l \in 0..lrun : Dir \in timedOut[l]
<1>1. Types /\ Timeouts /\ [Next]_vars => [Justified]_vars
  <2> SUFFICES ASSUME Types, Timeouts, Next, at' = at + 1, phase # "dir"
               PROVE  \/ phase = "rerun" /\ run >= MyNrun(Dir)
                      \/ \E l \in 0..lrun : Dir \in timedOut[l]
    OBVIOUS
  <2>0. at \in Nat \ {0} /\ lrun \in Nat /\ Len(SmokeDirs) \in Nat /\ env.lrun \in Nat
    BY Numbers DEF Types, PosOK
  <2>1. testStatus[Dir] = 124 \/ RerunsDone
    <3>1. CASE Execute
      BY <2>0, <3>1 DEF Execute, Goto
    <3>2. CASE ~Execute
      <4>1. phase \in Body /\ Move
        BY <2>0, <3>2, MoveStep DEF Move
      <4>2. Dir \in Dirs /\ fcStatus[Dir] # 124
        BY <4>1, Numbers DEF Types, PosOK, DiskOK
      <4>3. MakeFails \/ CheckFails \/ Poll \/ RerunsDone
        <5>1. ~(DirMissing \/ EnterDir \/ NextList \/ ListsDone \/ Gather \/ Cleanup)
          BY <4>1 DEF Body, DirMissing, EnterDir, NextList, ListsDone, Gather, Cleanup, InList
        <5>2. ~(MakeOk \/ Target \/ FreeRun \/ Verify \/ CheckBuilds)
          <6>1. MakeOk \/ Target \/ FreeRun \/ Verify \/ CheckBuilds =>
                  \E where : Goto(where)
            BY DEF MakeOk, Target, FreeRun, Verify, CheckBuilds
          <6> QED
            BY <2>0, <6>1 DEF Goto
        <5>3. ~(FlagsBegin \/ OptionMake \/ OptionRun)
          BY <2>0 DEF FlagsBegin, OptionMake, OptionRun
        <5> QED
          BY <3>2, <5>1, <5>2, <5>3 DEF Next, BoundedStep, UntimedStep
      <4>4. Poll => testStatus[Dir] = 124
        BY <2>0, <4>2 DEF Poll, NextRun, PolledStatus
      <4> QED
        BY <2>0, <4>3, <4>4 DEF MakeFails, CheckFails, NextRun, Goto
    <3> QED
      BY <3>1, <3>2
  <2>2. CASE RerunsDone
    BY <2>2 DEF RerunsDone
  <2>3. CASE testStatus[Dir] = 124 /\ ~RerunsDone
    <3>1. phase \in Body
      <4>1. CASE Execute
        BY <4>1 DEF Execute, Body
      <4>2. CASE ~Execute
        BY <2>0, <4>2, MoveStep DEF Move
      <4> QED
        BY <4>1, <4>2
    <3>2. at \in 1..Len(SmokeDirs) /\ Dir = SmokeDirs[at] /\ Reached(at)
      BY <2>0, <3>1 DEF Types, PosOK, Dir, Reached
    <3>3. PICK l \in 0..(env.lrun - 1) : l <= lrun /\ SmokeDirs[at] \in timedOut[l]
      BY <2>3, <3>1, <3>2 DEF Timeouts, OfThisSession
    <3> QED
      BY <2>0, <3>2, <3>3
  <2> QED
    BY <2>1, <2>2, <2>3
<1> QED
  BY <1>1, TypesInvariant, TimeoutsInvariant, PTL DEF Spec, GivesUpOnlyTimeouts

-----------------------------------------------------------------------------
(* The sequential harness is a result book.                                *)

\* The report is written once, when every line is there.
ReportOnce == totals = NoReport <=> phase \notin {"cleanup", "done"}

\* What the report prints is a report.
LEMMA ReportIsNew ==
    ASSUME Types
    PROVE  Lines(passing) \in Nat
<1>1. Lines(passing) = Sum(passing)
  BY DEF Lines, Sum
<1> QED
  BY <1>1, SumType, ConstantsAssumption DEF Types, BookOK

LEMMA ReportStep ==
    ASSUME Types, Next
    PROVE  \/ Gather
           \/ Cleanup
           \/ UNCHANGED totals /\ {phase, phase'} \cap {"cleanup", "done"} = {}
<1>1. CASE DirMissing
  BY <1>1 DEF DirMissing, InList, Goto, NextDir, NextRun
<1>2. CASE EnterDir
  BY <1>2 DEF EnterDir, InList, Goto, NextDir, NextRun
<1>3. CASE NextList
  BY <1>3 DEF NextList, Goto, NextDir, NextRun
<1>4. CASE ListsDone
  BY <1>4 DEF ListsDone, Goto, NextDir, NextRun
<1>5. CASE RerunsDone
  BY <1>5 DEF RerunsDone, Goto, NextDir, NextRun
<1>6. CASE MakeOk
  BY <1>6 DEF MakeOk, Goto, NextDir, NextRun
<1>7. CASE MakeFails
  BY <1>7 DEF MakeFails, Goto, NextDir, NextRun
<1>8. CASE Target
  BY <1>8 DEF Target, Goto, NextDir, NextRun
<1>9. CASE FreeRun
  <2>1. Kind[Dir] \in {"visual", "verify"}
    BY <1>9 DEF FreeRun, Types, PosOK
  <2> QED
    BY <1>9, <2>1 DEF FreeRun, Goto
<1>10. CASE Verify
  BY <1>10 DEF Verify, Goto, NextDir, NextRun
<1>11. CASE CheckBuilds
  BY <1>11 DEF CheckBuilds, Goto, NextDir, NextRun
<1>12. CASE CheckFails
  BY <1>12 DEF CheckFails, Goto, NextDir, NextRun
<1>13. CASE Execute
  BY <1>13 DEF Execute, Goto, NextDir, NextRun
<1>14. CASE FlagsBegin
  BY <1>14 DEF FlagsBegin, Goto, NextDir, NextRun
<1>15. CASE OptionMake
  BY <1>15 DEF OptionMake, NextOption
<1>16. CASE OptionRun
  BY <1>16 DEF OptionRun, NextOption
<1>17. CASE Poll
  BY <1>17 DEF Poll, Goto, NextDir, NextRun
<1>18. CASE Gather
  BY <1>18
<1>19. CASE Cleanup
  BY <1>19
<1> QED
  BY <1>1, <1>2, <1>3, <1>4, <1>5, <1>6, <1>7, <1>8, <1>9, <1>10, <1>11, <1>12,
     <1>13, <1>14, <1>15, <1>16, <1>17, <1>18, <1>19 DEF Next, BoundedStep, UntimedStep

LEMMA ReportOnceStep ==
    ASSUME Types, ReportOnce, Next
    PROVE  ReportOnce'
<1>1. CASE Gather
  <2>1. totals'.passing = Lines(passing) /\ phase' = "cleanup"
    BY <1>1 DEF Gather, Goto
  <2> QED
    BY <2>1, ReportIsNew DEF NoReport, ReportOnce
<1>2. CASE Cleanup
  BY <1>2 DEF Cleanup, Goto, ReportOnce
<1> QED
  BY <1>1, <1>2, ReportStep DEF ReportOnce

\* Lines are added one at a time, counted once when they are all there, and
\* removed only after that.
THEOREM ImplementsResultBook == Spec => IsResultBook
<1>1. Init => Book!Init
  BY DEF Init, Book!Init, Book!Empty, NoReport, Book!NoReport
<1>2. Types /\ ReportOnce /\ [Next]_vars => [Book!Next]_(Book!vars)
  <2> SUFFICES ASSUME Types, ReportOnce, Next PROVE [Book!Next]_(Book!vars)
    BY DEF vars, Book!vars
  <2>1. CASE UNCHANGED <<book, totals>>
    BY <2>1 DEF book, Book!vars
  <2>2. CASE phase \in Body /\ OneLine /\ UNCHANGED totals
    <3>1. Dir \in Dirs /\ totals = NoReport
      BY <2>2, Numbers DEF Types, PosOK, ReportOnce, Body
    <3>2. \E t \in Dirs : Book!RecordPass(t) \/ Book!RecordFail(t) \/ Book!RecordMake(t)
      <4>1. PICK t \in Dirs : t = Dir
        BY <3>1
      <4>2. Book!RecordPass(t) \/ Book!RecordFail(t) \/ Book!RecordMake(t)
        BY <2>2, <3>1, <4>1 DEF OneLine, Bump, Book!RecordPass, Book!RecordFail,
           Book!RecordMake, Book!Record, Book!NoReport, NoReport
      <4> QED
        BY <4>2
    <3> QED
      BY <3>2 DEF Book!Next
  <2>3. CASE phase = "report" /\ Gather
    <3>1. totals = NoReport
      BY <2>3 DEF ReportOnce
    <3>2. /\ Lines(passing) = Book!Count(passing)
          /\ Lines(failing) = Book!Count(failing)
          /\ Lines(makeFail) = Book!Count(makeFail)
      BY DEF Lines, Book!Count, FoldFunction, Book!FoldFunction, FoldFunctionOnSet,
         Book!FoldFunctionOnSet, MapThenFoldSet, Book!MapThenFoldSet
    <3>3. Book!Gather
      BY <2>3, <3>1, <3>2 DEF Gather, Book!Gather, Book!NoReport, NoReport, book
    <3> QED
      BY <3>3 DEF Book!Next
  <2>4. CASE phase = "cleanup" /\ Cleanup
    <3>1. totals # NoReport
      BY <2>4 DEF ReportOnce
    <3>2. Book!Cleanup \/ UNCHANGED Book!vars
      BY <2>4, <3>1 DEF Cleanup, Book!Cleanup, Book!Empty, Book!NoReport, NoReport,
         Book!vars, book
    <3> QED
      BY <3>2 DEF Book!Next
  <2> QED
    BY <2>1, <2>2, <2>3, <2>4, BookStep DEF Types
<1>3. Spec => []ReportOnce
  <2>1. Init => ReportOnce
    BY DEF Init, ReportOnce
  <2>2. Types /\ ReportOnce /\ [Next]_vars => ReportOnce'
    BY ReportOnceStep DEF ReportOnce, vars
  <2> QED
    BY <2>1, <2>2, TypesInvariant, PTL DEF Spec
<1> QED
  BY <1>1, <1>2, <1>3, TypesInvariant, PTL DEF Spec, IsResultBook, Book!Spec
=============================================================================
