-------------------------- MODULE BuildAomp_proofs --------------------------
(***************************************************************************)
(* Proofs about BuildAomp for every list of components, every selection and *)
(* mode a user may give, and every bound on commits and faults.             *)
(***************************************************************************)
EXTENDS BuildAomp, CountingLemmas, SequenceTheorems

\* The types, by what they are about.  A status is shown exactly when no script
\* runs; nothing after the access test is reached by "prereq", only "project"
\* has a banner and links $AOMP, only install installs.
ControlOK ==
    /\ request \in [list : Seq(Components), args : Seq(AllModes)]
    /\ pos \in Nat \ {0} /\ arg \in Nat \ {0}
    /\ step \in Steps /\ status \in {Running, 0, 1, Killed}
    /\ step = "idle" <=> status # Running
    /\ step # "idle" => /\ pos \in 1..Len(request.list)
                        /\ arg \in 1..Len(request.args)
    /\ missing \in 1..(Len(Order) + 1)
StepOK ==
    /\ step \notin {"idle", "begin"} => This # "prereq"
    /\ step \in {"banner", "unlink", "link", "restore"} => IsProject
    /\ step = "cmake" => Fresh
    /\ step \in {"install", "unlink", "link", "restore"} => Arg = "install"
DiskOK ==
    /\ head \in Commits
    /\ banner \in Commits \cup {None} /\ temp \in Commits \cup {None}
    /\ build \in [Components -> Trees] /\ inst \in [Components -> Trees]
    /\ aomp \in {"absent", "link", "directory"}
    /\ faults \in 0..MaxFaults
Types == ControlOK /\ StepOK /\ DiskOK

\* What the position in an invocation stands for.
LEMMA Position ==
    ASSUME ControlOK, step # "idle"
    PROVE  /\ This \in Components /\ Arg \in AllModes
           /\ Len(request.list) \in Nat /\ Len(request.args) \in Nat
<1>1. \A S, s, i : s \in Seq(S) /\ i \in 1..Len(s) => s[i] \in S /\ Len(s) \in Nat
  OBVIOUS
<1> QED
  BY <1>1 DEF ControlOK, This, Arg

\* The first component that is not up to date is a place in the list, or the
\* place after it.
LEMMA FirstMissingPlace ==
    /\ FirstMissing \in 1..(Len(Order) + 1)
    /\ FirstMissing <= Len(Order) => ~UpToDate(Order[FirstMissing])
    /\ \A j \in 1..(FirstMissing - 1) : UpToDate(Order[j])
<1> DEFINE S == {i \in 1..(Len(Order) + 1) : i <= Len(Order) => ~UpToDate(Order[i])}
<1>1. Len(Order) \in Nat
  BY BuildAssumption
<1>2. Len(Order) + 1 \in S /\ S \in SUBSET Nat
  BY <1>1
<1>3. PICK m \in S : \A k \in S : m <= k
  <2> HIDE DEF S
  <2> QED
    BY <1>2, LeastNumber
<1>4. \A j \in 1..(m - 1) : UpToDate(Order[j])
  BY <1>1, <1>3
<1>5. \E i \in 1..(Len(Order) + 1) :
          /\ i <= Len(Order) => ~UpToDate(Order[i])
          /\ \A j \in 1..(i - 1) : UpToDate(Order[j])
  BY <1>3, <1>4
<1> QED
  BY <1>5 DEF FirstMissing

-----------------------------------------------------------------------------
(* What a step may do.                                                     *)

\* An invocation is started with a list of components and arguments for their
\* scripts.
Starts == BuildAll \/ Continue \/ Select \/ PassOn \/ ByHand
LEMMA StartsWith ==
    ASSUME Starts
    PROVE  \E list \in Seq(Components), args \in Seq(AllModes) :
              args # <<>> /\ Start(list, args)
<1>1. Order \in Seq(Components) /\ Len(Order) \in Nat
  BY BuildAssumption DEF Components
<1>2. Driver \in Seq(AllModes) /\ Driver # <<>>
  BY DEF Driver, AllModes
<1>3. CASE BuildAll
  BY <1>1, <1>2, <1>3 DEF BuildAll
<1>4. CASE Continue
  <2>1. PICK i \in 1..(Len(Order) + 1) : Start(From(i), Driver)
    BY <1>4 DEF Continue
  <2>2. \A k \in i..Len(Order) : Order[k] \in Components
    BY <1>1 DEF Components
  <2>3. From(i) \in Seq(Components)
    BY <1>1, <2>2, SubSeqProperties DEF From
  <2> QED
    BY <1>2, <2>1, <2>3
<1>5. CASE Select
  BY <1>2, <1>5, BuildAssumption DEF Select
<1>6. CASE PassOn
  <2>1. PICK a \in AllModes : Start(Order, <<a>>)
    BY <1>6, BuildAssumption DEF PassOn
  <2>2. <<a>> \in Seq(AllModes) /\ <<a>> # <<>>
    OBVIOUS
  <2> QED
    BY <1>1, <2>1, <2>2
<1>7. CASE ByHand
  <2>1. PICK c \in Components, a \in AllModes : Start(<<c>>, <<a>>)
    BY <1>7, BuildAssumption DEF ByHand
  <2>2. <<a>> \in Seq(AllModes) /\ <<a>> # <<>> /\ <<c>> \in Seq(Components)
    OBVIOUS
  <2> QED
    BY <2>1, <2>2
<1> QED
  BY <1>3, <1>4, <1>5, <1>6, <1>7 DEF Starts

\* A step of a component script ends it, goes on in it, or gives up.
Quits == \E rc \in {1, Killed} : Exit(rc)
GoesOn == \E s \in Steps \ {"idle", "begin"} : Goto(s)

LEMMA ScriptMoves ==
    ASSUME ScriptStep \/ Kill
    PROVE  step # "idle" /\ (Quits \/ Done \/ GoesOn)
<1> USE DEF Quits, GoesOn, Steps
<1>1. CASE Prereq
  BY <1>1 DEF Prereq
<1>2. CASE Begin
  BY <1>2 DEF Begin
<1>3. CASE Prepare
  BY <1>3 DEF Prepare
<1>4. CASE Banner
  BY <1>4 DEF Banner
<1>5. CASE Cmake
  BY <1>5 DEF Cmake
<1>6. CASE Make
  BY <1>6 DEF Make, Halfway
<1>7. CASE MakeFails
  BY <1>7 DEF MakeFails
<1>8. CASE Install
  BY <1>8 DEF Install
<1>9. CASE Unlink
  BY <1>9 DEF Unlink
<1>10. CASE Link
  BY <1>10 DEF Link
<1>11. CASE Restore
  BY <1>11 DEF Restore
<1>12. CASE Kill
  BY <1>12 DEF Kill, Halfway
<1> QED
  BY <1>1, <1>2, <1>3, <1>4, <1>5, <1>6, <1>7, <1>8, <1>9, <1>10, <1>11, <1>12 DEF
     ScriptStep

LEMMA ControlStep ==
    ASSUME Types, Next
    PROVE  ControlOK'
<1>1. CASE Starts
  <2>1. PICK list \in Seq(Components), args \in Seq(AllModes) :
          args # <<>> /\ Start(list, args)
    BY <1>1, StartsWith
  <2>2. CASE list = <<>>
    BY <2>1, <2>2 DEF Start, Types, ControlOK, control, Running
  <2>3. CASE list # <<>>
    <3>1. Len(list) \in Nat \ {0} /\ Len(args) \in Nat \ {0}
      BY <2>1, <2>3
    <3>2. missing' \in 1..(Len(Order) + 1)
      BY <2>1, <2>3, FirstMissingPlace DEF Start
    <3> QED
      BY <2>1, <2>3, <3>1, <3>2 DEF Start, ControlOK, Steps, Running
  <2> QED
    BY <2>2, <2>3
<1>2. CASE Update
  BY <1>2 DEF Update, Types, ControlOK, control
<1>3. CASE ScriptStep \/ Kill
  <2>1. step # "idle" /\ (Quits \/ Done \/ GoesOn)
    BY <1>3, ScriptMoves
  <2>2. \A rc \in {0, 1, Killed} : Exit(rc) => ControlOK'
    <3>1. Len(Order) + 1 \in Nat \ {0}
      BY BuildAssumption
    <3> QED
      BY <3>1 DEF Exit, ControlOK, Running, Killed, Steps, NoRequest
  <2>3. Done => ControlOK'
    <3>1. Len(request.list) \in Nat /\ Len(request.args) \in Nat
      BY <2>1, Position DEF Types
    <3> QED
      BY <2>1, <2>2, <3>1 DEF Done, Types, ControlOK, Steps
  <2>4. GoesOn => ControlOK'
    BY <2>1 DEF GoesOn, Goto, Types, ControlOK, control
  <2> QED
    BY <2>1, <2>2, <2>3, <2>4 DEF Quits
<1> QED
  BY <1>1, <1>2, <1>3 DEF Next, Starts

LEMMA StepOKStep ==
    ASSUME Types, Next
    PROVE  StepOK'
<1>0. step' \in {"idle", "begin"} => StepOK'
  BY DEF StepOK
<1>20. \A s : Goto(s) => This' = This /\ Arg' = Arg /\ step' = s
  BY DEF Goto, control, This, Arg
<1>21. CASE Starts
  <2>1. PICK list \in Seq(Components), args \in Seq(AllModes) :
          args # <<>> /\ Start(list, args)
    BY <1>21, StartsWith
  <2> QED
    BY <1>0, <2>1 DEF Start
<1>22. CASE Update
  BY <1>0, <1>22 DEF Update
<1>23. CASE ScriptStep \/ Kill
  <2>1. Done \/ Quits => StepOK'
    BY <1>0 DEF Done, Quits, Exit
  <2>2. CASE GoesOn
    <3>1. PICK s \in Steps \ {"idle", "begin"} : Goto(s)
      BY <2>2 DEF GoesOn
    <3> USE DEF Types, StepOK, IsProject, Fresh
    <3>2. CASE Prereq
      BY <1>20, <2>1, <3>1, <3>2 DEF Prereq, Quits
    <3>3. CASE Begin
      BY <1>20, <2>1, <3>1, <3>3 DEF Begin, Quits
    <3>4. CASE Prepare
      BY <1>20, <2>1, <3>1, <3>4 DEF Prepare, Quits
    <3>5. CASE Banner
      BY <1>20, <2>1, <3>1, <3>5 DEF Banner, Quits
    <3>6. CASE Cmake
      BY <1>20, <2>1, <3>1, <3>6 DEF Cmake, Quits
    <3>7. CASE Make
      BY <1>20, <2>1, <3>1, <3>7 DEF Make, Quits
    <3>8. CASE MakeFails
      BY <1>20, <2>1, <3>1, <3>8 DEF MakeFails, Quits
    <3>9. CASE Install
      BY <1>20, <2>1, <3>1, <3>9 DEF Install, Quits
    <3>10. CASE Unlink
      BY <1>20, <2>1, <3>1, <3>10 DEF Unlink, Quits
    <3>11. CASE Link
      BY <1>20, <2>1, <3>1, <3>11 DEF Link, Quits
    <3>12. CASE Restore
      BY <1>20, <2>1, <3>1, <3>12 DEF Restore, Quits
    <3>13. CASE Kill
      BY <1>20, <2>1, <3>1, <3>13 DEF Kill, Quits
    <3> QED
      BY <1>23, <3>2, <3>3, <3>4, <3>5, <3>6, <3>7, <3>8, <3>9, <3>10, <3>11,
         <3>12, <3>13 DEF ScriptStep

  <2> QED
    BY <1>23, <2>1, <2>2, ScriptMoves
<1> QED
  BY <1>21, <1>22, <1>23 DEF Next, Starts

\* Compiled trees are trees.
LEMMA CompiledTree ==
    ASSUME Types, step # "idle"
    PROVE  /\ This \in Components
           /\ [state |-> "made", commit |-> head, by |-> CompiledBy] \in Trees
           /\ [state |-> "dir", commit |-> None, by |-> CompiledBy] \in Trees
           /\ EmptyTree \in Trees /\ Torn \in Trees
<1>1. This \in Components
  BY Position DEF Types
<1>2. inst["project"] \in Trees /\ build[This] \in Trees
  BY <1>1, BuildAssumption DEF Types, DiskOK
<1>3. CompiledBy \in SUBSET (Commits \cup {None})
  BY <1>2 DEF CompiledBy, Compiler, Trees, Types, DiskOK
<1>4. EmptyTree = [state |-> "dir", commit |-> None, by |-> {}] /\ Torn = EmptyTree
  BY DEF EmptyTree, NoTree, Torn
<1>5. head \in Commits
  BY DEF Types, DiskOK
<1> QED
  BY <1>1, <1>3, <1>4, <1>5 DEF Trees

LEMMA DiskStep ==
    ASSUME Types, Next
    PROVE  DiskOK'
<1>0. step # "idle" =>
        /\ This \in Components
        /\ [state |-> "made", commit |-> head, by |-> CompiledBy] \in Trees
        /\ [state |-> "dir", commit |-> None, by |-> CompiledBy] \in Trees
        /\ EmptyTree \in Trees /\ Torn \in Trees
  BY CompiledTree
<1>20. CASE Starts
  BY <1>20, StartsWith DEF Start, Types, DiskOK, sources, disk
<1>21. CASE Update
  BY <1>21 DEF Update, Types, DiskOK, disk
<1>22. CASE ScriptStep \/ Kill
  <2>1. faults' \in 0..MaxFaults
    BY <1>22, BuildAssumption DEF Types, DiskOK, ScriptStep, Prereq, Begin, Prepare,
       Banner, Cmake, Make, MakeFails, Install, Unlink, Link, Restore, Kill, Fault
  <2>2. head' = head /\ banner' \in {None, banner, temp} /\ temp' \in {None, temp, head, banner}
    BY <1>22 DEF ScriptStep, Prereq, Begin, Prepare,
       Banner, Cmake, Make, MakeFails, Install, Unlink, Link, Restore, Kill, sources
  <2>3. aomp' \in {aomp, "absent", "link"}
    BY <1>22 DEF ScriptStep, Prereq, Begin, Prepare,
       Banner, Cmake, Make, MakeFails, Install, Unlink, Link, Restore, Kill, disk
  <2>4. \/ build' = build
        \/ \E tree \in Trees : build' = [build EXCEPT ![This] = tree]
    <3> USE DEF disk, Halfway
    <3>1. CASE Prereq
      BY <1>0, <3>1 DEF Prereq
    <3>2. CASE Begin
      BY <1>0, <3>2 DEF Begin
    <3>3. CASE Prepare
      BY <1>0, <3>3 DEF Prepare
    <3>4. CASE Banner
      BY <1>0, <3>4 DEF Banner
    <3>5. CASE Cmake
      BY <1>0, <3>5 DEF Cmake
    <3>6. CASE Make
      BY <1>0, <3>6 DEF Make
    <3>7. CASE MakeFails
      BY <1>0, <3>7 DEF MakeFails
    <3>8. CASE Install
      BY <1>0, <3>8 DEF Install
    <3>9. CASE Unlink
      BY <1>0, <3>9 DEF Unlink
    <3>10. CASE Link
      BY <1>0, <3>10 DEF Link
    <3>11. CASE Restore
      BY <1>0, <3>11 DEF Restore
    <3>12. CASE Kill
      BY <1>0, <3>12 DEF Kill
    <3> QED
      BY <1>22, <3>1, <3>2, <3>3, <3>4, <3>5, <3>6, <3>7, <3>8, <3>9, <3>10,
         <3>11, <3>12 DEF ScriptStep

  <2>5. \/ inst' = inst
        \/ \E tree \in Trees : inst' = [inst EXCEPT ![This] = tree]
    <3>0. step # "idle" => build[This] \in Trees
      BY <1>0 DEF Types, DiskOK
    <3> USE DEF disk
    <3>1. CASE Prereq
      BY <1>0, <3>0, <3>1 DEF Prereq
    <3>2. CASE Begin
      BY <1>0, <3>0, <3>2 DEF Begin
    <3>3. CASE Prepare
      BY <1>0, <3>0, <3>3 DEF Prepare
    <3>4. CASE Banner
      BY <1>0, <3>0, <3>4 DEF Banner
    <3>5. CASE Cmake
      BY <1>0, <3>0, <3>5 DEF Cmake
    <3>6. CASE Make
      BY <1>0, <3>0, <3>6 DEF Make
    <3>7. CASE MakeFails
      BY <1>0, <3>0, <3>7 DEF MakeFails
    <3>8. CASE Install
      BY <1>0, <3>0, <3>8 DEF Install
    <3>9. CASE Unlink
      BY <1>0, <3>0, <3>9 DEF Unlink
    <3>10. CASE Link
      BY <1>0, <3>0, <3>10 DEF Link
    <3>11. CASE Restore
      BY <1>0, <3>0, <3>11 DEF Restore
    <3>12. CASE Kill
      BY <1>0, <3>0, <3>12 DEF Kill
    <3> QED
      BY <1>22, <3>1, <3>2, <3>3, <3>4, <3>5, <3>6, <3>7, <3>8, <3>9, <3>10,
         <3>11, <3>12 DEF ScriptStep

  <2> QED
    BY <1>0, <2>1, <2>2, <2>3, <2>4, <2>5 DEF Types, DiskOK
<1> QED
  BY <1>20, <1>21, <1>22 DEF Next, Starts

\* Every step keeps every variable in its type.
LEMMA TypesInvariant == Spec => []Types
<1>1. Init => Types
  BY BuildAssumption
  DEF Init, Types, ControlOK, StepOK, DiskOK, Steps, Running, NoRequest, NoTree,
      Trees, Commits
<1>2. Types /\ [Next]_vars => Types'
  <2>1. Types /\ Next => Types'
    BY ControlStep, StepOKStep, DiskStep DEF Types
  <2>2. Types /\ UNCHANGED vars => Types'
    BY DEF vars, control, sources, disk, Types, ControlOK, StepOK, DiskOK, This, Arg,
       IsProject, Fresh
  <2> QED
    BY <2>1, <2>2
<1> QED
  BY <1>1, <1>2, PTL DEF Spec

\* The driver never runs past its list of components or a script's arguments, and
\* nothing is ever built or installed but trees of the component at hand.
THEOREM TypeCorrect == Spec => []TypeOK
<1>1. Types => TypeOK
  BY DEF Types, ControlOK, DiskOK, TypeOK
<1> QED
  BY <1>1, TypesInvariant, PTL

-----------------------------------------------------------------------------
(* The banner.                                                             *)

\* The file names the checked-out commit whenever the compiler is compiled, the
\* copy of it whenever it is copied, and the trees of the compiler, in the build
\* directory and installed, the commit they were made from.
Named(tree) == tree.state = "made" => tree.by = {tree.commit}
Bannered ==
    /\ banner \in {None, head}
    /\ step \in {"prepare", "banner"} /\ IsProject => temp = head
    /\ step \in {"cmake", "make", "install", "unlink", "link", "restore"} /\ IsProject =>
          banner = head
    /\ Named(build["project"]) /\ Named(inst["project"])

LEMMA BanneredStep ==
    ASSUME Types, Bannered, Next
    PROVE  Bannered'
<1>0. /\ step' \in {"idle", "begin"} /\ UNCHANGED <<sources, build, inst>> => Bannered'
      /\ "project" \in Components /\ build \in [Components -> Trees]
      /\ inst \in [Components -> Trees]
  BY BuildAssumption DEF Bannered, sources, Types, DiskOK, Named
<1>1. CASE Starts
  <2>1. PICK list \in Seq(Components), args \in Seq(AllModes) :
          args # <<>> /\ Start(list, args)
    BY <1>1, StartsWith
  <2> QED
    BY <1>0, <2>1 DEF Start, disk
<1>2. CASE Update
  BY <1>0, <1>2 DEF Update, Bannered, disk, Named
<1>3. CASE ScriptStep \/ Kill
  <2>1. head' = head /\ step # "idle" /\ (Quits \/ Done \/ GoesOn)
    BY <1>3, ScriptMoves DEF ScriptStep, Prereq, Begin, Prepare,
       Banner, Cmake, Make, MakeFails, Install, Unlink, Link, Restore, Kill, sources
  <2>2. /\ Quits \/ Done => step' \in {"idle", "begin"}
        /\ GoesOn => This' = This /\ Arg' = Arg /\ IsProject' = IsProject
    BY DEF Quits, Exit, Done, GoesOn, Goto, control, This, Arg, IsProject
  <2>3. /\ \A s : Goto(s) => GoesOn \/ s \notin Steps \ {"idle", "begin"}
        /\ \A s : Goto(s) => step' = s
    BY DEF GoesOn, Goto
  <2>4. banner' \in {None, head}
    BY <1>3 DEF ScriptStep, Prereq, Begin, Prepare,
       Banner, Cmake, Make, MakeFails, Install, Unlink, Link, Restore, Kill, sources,
       Bannered, Types, StepOK
  <2>5. step' \in {"prepare", "banner"} /\ IsProject' => temp' = head
    <3>1. SUFFICES ASSUME step' \in {"prepare", "banner"}, IsProject' PROVE temp' = head
      OBVIOUS
    <3>2. IsProject /\ GoesOn
      BY <2>1, <2>2, <3>1
    <3> USE DEF Bannered
    <3>3. CASE Prereq
      BY <3>1, <3>2, <3>3 DEF Prereq, Quits, Done, Exit, Goto
    <3>4. CASE Begin
      BY <3>1, <3>2, <3>4 DEF Begin, Quits, Done, Exit, Goto
    <3>5. CASE Prepare
      BY <3>1, <3>2, <3>5 DEF Prepare, Quits, Done, Exit, Goto
    <3>6. CASE Banner
      BY <3>1, <3>2, <3>6 DEF Banner, Quits, Done, Exit, Goto
    <3>7. CASE Cmake
      BY <3>1, <3>2, <3>7 DEF Cmake, Quits, Done, Exit, Goto
    <3>8. CASE Make
      BY <3>1, <3>2, <3>8 DEF Make, Quits, Done, Exit, Goto
    <3>9. CASE MakeFails
      BY <3>1, <3>2, <3>9 DEF MakeFails, Quits, Done, Exit, Goto
    <3>10. CASE Install
      BY <3>1, <3>2, <3>10 DEF Install, Quits, Done, Exit, Goto
    <3>11. CASE Unlink
      BY <3>1, <3>2, <3>11 DEF Unlink, Quits, Done, Exit, Goto
    <3>12. CASE Link
      BY <3>1, <3>2, <3>12 DEF Link, Quits, Done, Exit, Goto
    <3>13. CASE Restore
      BY <3>1, <3>2, <3>13 DEF Restore, Quits, Done, Exit, Goto
    <3>14. CASE Kill
      BY <3>1, <3>2, <3>14 DEF Kill, Quits, Done, Exit, Goto
    <3> QED
      BY <1>3, <3>3, <3>4, <3>5, <3>6, <3>7, <3>8, <3>9, <3>10, <3>11, <3>12,
         <3>13, <3>14 DEF ScriptStep

  <2>6. step' \in {"cmake", "make", "install", "unlink", "link", "restore"} /\ IsProject' =>
          banner' = head
    <3>1. SUFFICES ASSUME step' \in {"cmake", "make", "install", "unlink", "link", "restore"},
                          IsProject'
                   PROVE  banner' = head
      OBVIOUS
    <3>2. IsProject /\ GoesOn
      BY <2>1, <2>2, <3>1
    <3> USE DEF Bannered, sources
    <3>3. CASE Prereq
      BY <3>1, <3>2, <3>3 DEF Prereq, Quits, Done, Exit, Goto
    <3>4. CASE Begin
      BY <3>1, <3>2, <3>4 DEF Begin, Quits, Done, Exit, Goto
    <3>5. CASE Prepare
      BY <3>1, <3>2, <3>5 DEF Prepare, Quits, Done, Exit, Goto
    <3>6. CASE Banner
      BY <3>1, <3>2, <3>6 DEF Banner, Quits, Done, Exit, Goto
    <3>7. CASE Cmake
      BY <3>1, <3>2, <3>7 DEF Cmake, Quits, Done, Exit, Goto
    <3>8. CASE Make
      BY <3>1, <3>2, <3>8 DEF Make, Quits, Done, Exit, Goto
    <3>9. CASE MakeFails
      BY <3>1, <3>2, <3>9 DEF MakeFails, Quits, Done, Exit, Goto
    <3>10. CASE Install
      BY <3>1, <3>2, <3>10 DEF Install, Quits, Done, Exit, Goto
    <3>11. CASE Unlink
      BY <3>1, <3>2, <3>11 DEF Unlink, Quits, Done, Exit, Goto
    <3>12. CASE Link
      BY <3>1, <3>2, <3>12 DEF Link, Quits, Done, Exit, Goto
    <3>13. CASE Restore
      BY <3>1, <3>2, <3>13 DEF Restore, Quits, Done, Exit, Goto
    <3>14. CASE Kill
      BY <3>1, <3>2, <3>14 DEF Kill, Quits, Done, Exit, Goto
    <3> QED
      BY <1>3, <3>3, <3>4, <3>5, <3>6, <3>7, <3>8, <3>9, <3>10, <3>11, <3>12,
         <3>13, <3>14 DEF ScriptStep

  <2>7. Named(build["project"])'
    <3>0. This \in Components /\ (IsProject <=> This = "project")
      BY <2>1, Position DEF Types, IsProject
    <3>1. CASE Prepare /\ Fresh
      BY <1>0, <3>0, <3>1 DEF Prepare, Bannered, Named, EmptyTree, NoTree
    <3>2. CASE Make
      <4>1. IsProject => CompiledBy = {head}
        BY <3>2 DEF Make, CompiledBy, Bannered
      <4> QED
        BY <1>0, <3>0, <3>2, <4>1 DEF Make, Bannered, Named
    <3>3. CASE Halfway
      BY <1>0, <3>0, <3>3 DEF Halfway, Bannered, Named
    <3>4. CASE build' = build
      BY <3>4 DEF Bannered, Named
    <3> QED
      BY <1>3, <3>1, <3>2, <3>3, <3>4 DEF ScriptStep, Prereq, Begin, Prepare,
         Banner, Cmake, MakeFails, Install, Unlink, Link, Restore, Kill, disk
  <2>8. Named(inst["project"])'
    <3>0. This \in Components
      BY <2>1, Position DEF Types
    <3>1. CASE inst' = [inst EXCEPT ![This] = build[This]]
      BY <1>0, <3>0, <3>1 DEF Bannered, Named
    <3>2. CASE inst' = [inst EXCEPT ![This] = Torn]
      BY <1>0, <3>0, <3>2 DEF Bannered, Named, Torn, NoTree
    <3>3. CASE inst' = inst
      BY <3>3 DEF Bannered, Named
    <3> QED
      BY <1>3, <3>1, <3>2, <3>3 DEF ScriptStep, Prereq, Begin, Prepare,
         Banner, Cmake, Make, MakeFails, Install, Unlink, Link, Restore, Kill, disk
  <2> QED
    BY <2>1, <2>4, <2>5, <2>6, <2>7, <2>8 DEF Bannered, Named
<1> QED
  BY <1>1, <1>2, <1>3 DEF Next, Starts

\* Bannered holds in every reachable state.
LEMMA BanneredInvariant == Spec => []Bannered
<1>1. Init => Bannered
  BY BuildAssumption DEF Init, Bannered, Named, NoTree
<1>2. Types /\ Bannered /\ [Next]_vars => Bannered'
  <2>1. UNCHANGED vars /\ Bannered => Bannered'
    BY DEF vars, Bannered, Named, IsProject, This
  <2> QED
    BY <2>1, BanneredStep
<1> QED
  BY <1>1, <1>2, TypesInvariant, PTL DEF Spec

\* Whatever was killed, restored, stashed or left over: the "Source ID" that an
\* installed compiler prints is the commit it was built from.
THEOREM BannerTellsTheCommit == Spec => []BannerIsTrue
<1>1. Bannered => BannerIsTrue
  BY DEF Bannered, Named, BannerIsTrue
<1> QED
  BY <1>1, BanneredInvariant, PTL

-----------------------------------------------------------------------------
(* The full build.                                                         *)

\* A tree made from the checked-out commit by the compiler of that commit.
Good(tree) == tree = [state |-> "made", commit |-> head, by |-> {head}]

\* The driver builds the rest of the list, from the i-th component, and everything
\* before that was up to date when it began.  Then the components it has done are
\* up to date; the build directory of the one at hand is empty before it is made
\* and good after it; and of "project" the installation is good before it is
\* linked.
OnWalk(i) ==
    /\ step # "idle" /\ i \in 1..missing
    /\ request.list = From(i) /\ request.args = Driver
DoneBefore(i) == \A j \in 1..(i + pos - 2) : UpToDate(Order[j])
AtHand ==
    /\ This # "prereq" /\ arg = 1 /\ step \in {"banner", "cmake", "make"} =>
          build[This] = EmptyTree
    /\ This # "prereq" /\ arg = 2 => Good(build[This])
    /\ step \in {"unlink", "link", "restore"} => Good(inst[This])
    /\ step = "restore" => aomp = "link"
Walk == \A i \in 1..missing : OnWalk(i) => DoneBefore(i) /\ AtHand

\* Where such a build is.
LEMMA Place ==
    ASSUME Types, NEW i, OnWalk(i)
    PROVE  /\ i \in Nat /\ pos \in Nat /\ i + pos - 1 \in 1..Len(Order)
           /\ Len(Order) \in Nat /\ Len(request.list) = Len(Order) - i + 1
           /\ This = Order[i + pos - 1]
           /\ Len(request.args) = 2 /\ arg \in {1, 2}
           /\ Arg = IF arg = 1 THEN "fresh" ELSE "install"
<1>1. /\ i \in 1..(Len(Order) + 1) /\ Len(Order) \in Nat /\ pos \in Nat
      /\ pos \in 1..Len(request.list) /\ arg \in 1..Len(request.args)
  BY BuildAssumption DEF OnWalk, Types, ControlOK
<1>2. \A k \in i..Len(Order) : Order[k] \in Components
  BY <1>1 DEF Components
<1>3. /\ Len(From(i)) = IF i <= Len(Order) THEN Len(Order) - i + 1 ELSE 0
      /\ \A k \in 1..(Len(Order) - i + 1) : From(i)[k] = Order[i + k - 1]
  BY <1>1, <1>2, SubSeqProperties DEF From
<1>4. Len(Driver) = 2 /\ Driver[1] = "fresh" /\ Driver[2] = "install"
  BY DEF Driver
<1> QED
  BY <1>1, <1>3, <1>4 DEF OnWalk, This, Arg

\* The components before the one at hand are others.
LEMMA OthersBefore ==
    ASSUME Types, NEW i, OnWalk(i), NEW j \in 1..(i + pos - 2)
    PROVE  Order[j] \in Components /\ Order[j] # This
BY Place, BuildAssumption DEF Components

\* Everything but "prereq" is compiled by the compiler of the checked-out commit.
LEMMA RightCompiler ==
    ASSUME Types, Bannered, NEW i, OnWalk(i), DoneBefore(i), This # "prereq"
    PROVE  ~IsProject => Good(inst["project"])
<1> SUFFICES ASSUME ~IsProject PROVE Good(inst["project"])
  OBVIOUS
<1>1. PICK k \in 1..Len(Order) : Order[k] = "project"
  BY BuildAssumption DEF Components
<1>2. k \in 1..(i + pos - 2)
  <2> DEFINE m == i + pos - 1
  <2>1. m \in 1..Len(Order) /\ This = Order[m] /\ i \in Nat /\ pos \in Nat
    BY Place
  <2>2. m # k /\ Order[m] # "prereq"
    BY <1>1, <2>1 DEF IsProject
  <2>3. m \in 1..(k - 1) => Order[m] = "prereq"
    BY <1>1, BuildAssumption
  <2> QED
    BY <1>1, <2>1, <2>2, <2>3
<1> QED
  BY <1>1, <1>2 DEF DoneBefore, UpToDate, Good

\* What is up to date stays so while another component is built.
LEMMA StaysUpToDate ==
    ASSUME Types, ScriptStep \/ Kill, NEW c \in Components, c # This, UpToDate(c)
    PROVE  UpToDate(c)'
<1>1. head' = head /\ (IsProject \/ aomp' = aomp)
  BY DEF ScriptStep, Prereq, Begin, Prepare, Banner, Cmake, Make, MakeFails,
     Install, Unlink, Link, Restore, Kill, sources, disk, Types, StepOK
<1>2. \/ inst' = inst
      \/ \E tree : inst' = [inst EXCEPT ![This] = tree]
  BY DEF ScriptStep, Prereq, Begin, Prepare, Banner, Cmake, Make, MakeFails,
     Install, Unlink, Link, Restore, Kill, disk
<1>3. inst'[c] = inst[c]
  BY <1>2 DEF Types, DiskOK
<1> QED
  BY <1>1, <1>3 DEF UpToDate, IsProject

\* A whole make from an empty directory, or once more from a good one, is good.
LEMMA MakesGood ==
    ASSUME Types, Bannered, NEW i, OnWalk(i), DoneBefore(i), AtHand, Make
    PROVE  build' = [build EXCEPT ![This] =
                        [state |-> "made", commit |-> head, by |-> {head}]]
<1>1. This # "prereq" /\ step = "make" /\ This \in Components
  BY Position DEF Make, Types, StepOK
<1>2. CompiledBy = {head}
  <2>1. IsProject => CompiledBy = {head}
    BY <1>1 DEF CompiledBy, Bannered
  <2>2. ~IsProject => Compiler = head
    BY <1>1, RightCompiler DEF Compiler, Good
  <2>3. build[This] = EmptyTree \/ Good(build[This])
    BY <1>1, Place DEF AtHand
  <2> QED
    BY <2>1, <2>2, <2>3 DEF CompiledBy, Good, EmptyTree, NoTree
<1> QED
  BY <1>2 DEF Make

\* What follows a script: after the build of a component its build directory is
\* good, after its install the component is up to date.
LEMMA ScriptEnds ==
    ASSUME Types, Bannered, NEW i, OnWalk(i), DoneBefore(i), AtHand,
           ScriptStep \/ Kill, Done
    PROVE  /\ arg = 1 /\ This # "prereq" =>
                build' = [build EXCEPT ![This] =
                             [state |-> "made", commit |-> head, by |-> {head}]]
           /\ arg = 2 => \A c \in Components : c = This => UpToDate(c)'
<1>0. /\ arg \in {1, 2} /\ Arg = IF arg = 1 THEN "fresh" ELSE "install"
      /\ This \in Components /\ step # "idle"
  BY Place, Position DEF OnWalk, Types
<1>1. Prereq \/ Make \/ Install \/ Restore
  <2>1. ~Quits
    BY <1>0 DEF Done, Quits, Exit, OnWalk, Types, ControlOK, Killed
  <2>2. ~GoesOn
    BY DEF Done, GoesOn, Goto, Exit
  <2> USE DEF Quits, GoesOn
  <2>3. CASE Prereq
    BY <1>0, <2>1, <2>2, <2>3 DEF Prereq, Steps
  <2>4. CASE Begin
    BY <1>0, <2>1, <2>2, <2>4 DEF Begin, Steps
  <2>5. CASE Prepare
    BY <1>0, <2>1, <2>2, <2>5 DEF Prepare, Fresh, Steps
  <2>6. CASE Banner
    BY <1>0, <2>1, <2>2, <2>6 DEF Banner, Fresh, Steps
  <2>7. CASE Cmake
    BY <1>0, <2>1, <2>2, <2>7 DEF Cmake, Steps
  <2>8. CASE Make
    BY <1>0, <2>1, <2>2, <2>8 DEF Make, Steps
  <2>9. CASE MakeFails
    BY <1>0, <2>1, <2>2, <2>9 DEF MakeFails, Steps
  <2>10. CASE Install
    BY <1>0, <2>1, <2>2, <2>10 DEF Install, Steps
  <2>11. CASE Unlink
    BY <1>0, <2>1, <2>2, <2>11 DEF Unlink, Steps
  <2>12. CASE Link
    BY <1>0, <2>1, <2>2, <2>12 DEF Link, Steps
  <2>13. CASE Restore
    BY <1>0, <2>1, <2>2, <2>13 DEF Restore, Steps
  <2>14. CASE Kill
    BY <1>0, <2>1, <2>2, <2>14 DEF Kill, Steps
  <2> QED
    BY <2>3, <2>4, <2>5, <2>6, <2>7, <2>8, <2>9, <2>10, <2>11, <2>12, <2>13, <2>14
       DEF ScriptStep

<1>2. CASE Prereq
  BY <1>2, BuildAssumption DEF Prereq, UpToDate
<1>3. CASE Make
  <2>1. arg = 1
    BY <1>0, <1>3 DEF Make, Goto, Done, Exit
  <2> QED
    BY <1>3, <2>1, MakesGood
<1>4. CASE Install
  <2>1. arg = 2 /\ This # "prereq" /\ ~IsProject /\ inst' = [inst EXCEPT ![This] = build[This]]
    BY <1>0, <1>4 DEF Install, Done, Exit, Goto, Types, StepOK
  <2>2. Good(build[This]) /\ head' = head
    BY <1>4, <2>1 DEF AtHand, Install, sources
  <2> QED
    BY <1>0, <2>1, <2>2 DEF UpToDate, Good, IsProject, Types, DiskOK
<1>5. CASE Restore
  <2>1. arg = 2 /\ step = "restore" /\ head' = head /\ inst' = inst /\ aomp' = aomp
    BY <1>0, <1>5 DEF Restore, disk, Types, StepOK
  <2> QED
    BY <2>1 DEF AtHand, Good, UpToDate
<1> QED
  BY <1>1, <1>2, <1>3, <1>4, <1>5

\* Going on with a component keeps what is known of it.
LEMMA GoingOn ==
    ASSUME Types, Bannered, NEW i, OnWalk(i), DoneBefore(i), AtHand,
           ScriptStep \/ Kill, GoesOn
    PROVE  AtHand'
<1>0. /\ arg \in {1, 2} /\ Arg = IF arg = 1 THEN "fresh" ELSE "install"
      /\ This \in Components /\ step # "idle"
      /\ build \in [Components -> Trees] /\ inst \in [Components -> Trees]
  BY Place, Position DEF OnWalk, Types, DiskOK
<1>1. This' = This /\ arg' = arg /\ step' \notin {"idle", "begin"} /\ ~Done /\ ~Quits
  BY DEF GoesOn, Goto, control, This, Done, Quits, Exit
<1>2. \A s : Goto(s) => step' = s
  BY DEF Goto
<1>3. head' = head
  BY DEF ScriptStep, Prereq, Begin, Prepare,
     Banner, Cmake, Make, MakeFails, Install, Unlink, Link, Restore, Kill, sources
<1> USE DEF AtHand, Good, sources, disk
<1>4. CASE Prereq
  BY <1>0, <1>1, <1>2, <1>3, <1>4 DEF Prereq, Quits
<1>5. CASE Begin
  BY <1>0, <1>1, <1>2, <1>3, <1>5 DEF Begin, Quits
<1>6. CASE Prepare
  BY <1>0, <1>1, <1>2, <1>3, <1>6 DEF Prepare, Fresh
<1>7. CASE Banner
  BY <1>0, <1>1, <1>2, <1>3, <1>7 DEF Banner, Fresh
<1>8. CASE Cmake
  BY <1>0, <1>1, <1>2, <1>3, <1>8 DEF Cmake, Fresh, Quits
<1>9. CASE Make
  <2>1. arg = 2 /\ step' = "install"
    BY <1>0, <1>1, <1>2, <1>9 DEF Make
  <2>2. Good(build'[This]) /\ This # "prereq"
    BY <1>0, <1>9, MakesGood DEF Make, Types, StepOK
  <2> QED
    BY <1>1, <1>3, <1>9, <2>1, <2>2 DEF Make
<1>10. CASE MakeFails
  BY <1>0, <1>1, <1>2, <1>3, <1>10 DEF MakeFails, Quits
<1>11. CASE Install
  <2>1. arg = 2 /\ inst' = [inst EXCEPT ![This] = build[This]] /\ build' = build
        /\ step' = "unlink" /\ This # "prereq"
    BY <1>0, <1>1, <1>2, <1>11 DEF Install, Quits, Types, StepOK
  <2>2. Good(build[This])
    BY <1>11, <2>1
  <2> QED
    BY <1>0, <1>1, <1>3, <2>1, <2>2
<1>12. CASE Unlink
  BY <1>0, <1>1, <1>2, <1>3, <1>12 DEF Unlink
<1>13. CASE Link
  BY <1>0, <1>1, <1>2, <1>3, <1>13 DEF Link
<1>14. CASE Restore
  BY <1>0, <1>1, <1>2, <1>3, <1>14 DEF Restore
<1>15. CASE Kill
  BY <1>0, <1>1, <1>2, <1>3, <1>15 DEF Kill, Quits
<1> QED
  BY <1>4, <1>5, <1>6, <1>7, <1>8, <1>9, <1>10, <1>11, <1>12, <1>13, <1>14, <1>15
     DEF ScriptStep

LEMMA WalkStep ==
    ASSUME Types, Bannered, Walk, Next
    PROVE  Walk'
<1>1. CASE Starts
  <2>1. PICK list \in Seq(Components), args \in Seq(AllModes) :
          args # <<>> /\ Start(list, args)
    BY <1>1, StartsWith
  <2>2. CASE list = <<>>
    BY <2>1, <2>2 DEF Start, Walk, OnWalk, control
  <2>3. CASE list # <<>>
    <3>1. /\ missing' = FirstMissing /\ step' = "begin" /\ pos' = 1 /\ arg' = 1
          /\ UNCHANGED <<head, inst, aomp>>
      BY <2>1, <2>3 DEF Start, sources, disk
    <3>2. \A j \in 1..(FirstMissing - 1) : UpToDate(Order[j])'
      BY <3>1, FirstMissingPlace DEF UpToDate
    <3>3. ASSUME NEW i \in 1..missing' PROVE DoneBefore(i)'
      <4>1. \A j \in 1..(i + pos' - 2) : j \in 1..(FirstMissing - 1)
        BY <3>1, <3>3, FirstMissingPlace, BuildAssumption
      <4> QED
        BY <3>2, <4>1 DEF DoneBefore
    <3>4. AtHand'
      BY <3>1 DEF AtHand
    <3> QED
      BY <3>3, <3>4 DEF Walk
  <2> QED
    BY <2>2, <2>3
<1>2. CASE Update
  BY <1>2 DEF Update, Walk, OnWalk, control
<1>3. CASE ScriptStep \/ Kill
  <2> SUFFICES ASSUME NEW i \in 1..missing', OnWalk(i)' PROVE DoneBefore(i)' /\ AtHand'
    BY DEF Walk
  <2>1. step # "idle" /\ ~Quits /\ (Done \/ GoesOn)
    BY <1>3, ScriptMoves DEF OnWalk, Quits, Exit
  <2>2. OnWalk(i) /\ i \in 1..missing
    BY <2>1 DEF OnWalk, Done, GoesOn, Goto, control, Exit
  <2>3. DoneBefore(i) /\ AtHand
    BY <2>2 DEF Walk
  <2>4. \A j \in 1..(i + pos - 2) : UpToDate(Order[j])'
    BY <1>3, <2>2, <2>3, OthersBefore, StaysUpToDate DEF DoneBefore
  <2>7. /\ i \in Nat /\ pos \in Nat /\ Len(request.args) = 2 /\ arg \in {1, 2}
        /\ i + pos - 1 \in 1..Len(Order) /\ This = Order[i + pos - 1]
    BY <2>2, Place
  <2>5. CASE GoesOn
    <3>1. pos' = pos
      BY <2>5 DEF GoesOn, Goto, control
    <3>2. DoneBefore(i)'
      BY <2>4, <3>1 DEF DoneBefore
    <3> QED
      BY <1>3, <2>2, <2>3, <2>5, <3>2, GoingOn
  <2>6. CASE Done
    <3>1. step' = "begin"
      BY <2>6 DEF Done, Exit, OnWalk
    <3>2. CASE arg = 1
      <4>1. pos' = pos /\ arg' = 2 /\ This' = This
        BY <2>6, <2>7, <3>1, <3>2 DEF Done, Exit, This
      <4>2. This # "prereq" => Good(build'[This]) /\ head' = head
        <5>1. This # "prereq" => build' = [build EXCEPT ![This] =
                                [state |-> "made", commit |-> head, by |-> {head}]]
          BY <1>3, <2>2, <2>3, <2>6, <3>2, ScriptEnds
        <5>2. This \in Components
          BY <2>1, Position DEF Types
        <5>3. head' = head
          BY <1>3 DEF ScriptStep, Prereq, Begin, Prepare, Banner, Cmake, Make,
             MakeFails, Install, Unlink, Link, Restore, Kill, sources
        <5> QED
          BY <5>1, <5>2, <5>3 DEF Good, Types, DiskOK
      <4>3. AtHand'
        BY <3>1, <4>1, <4>2 DEF AtHand, Good
      <4> QED
        BY <2>4, <4>1, <4>3 DEF DoneBefore
    <3>3. CASE arg = 2
      <4>1. pos' = pos + 1 /\ arg' = 1
        BY <2>6, <2>7, <3>1, <3>3 DEF Done, Exit
      <4>2. PICK k \in 1..Len(Order) : k = i + pos - 1
        BY <2>7
      <4>3. UpToDate(Order[k])'
        <5>1. Order[k] = This /\ Order[k] \in Components
          BY <2>7, <4>2 DEF Components
        <5> QED
          BY <1>3, <2>2, <2>3, <2>6, <3>3, <5>1, ScriptEnds
      <4>4. \A j \in 1..(i + pos' - 2) : j \in 1..(i + pos - 2) \/ j = k
        BY <2>7, <4>1, <4>2
      <4>5. DoneBefore(i)'
        BY <2>4, <4>3, <4>4 DEF DoneBefore
      <4> QED
        BY <3>1, <4>1, <4>5 DEF AtHand
    <3> QED
      BY <2>7, <3>2, <3>3
  <2> QED
    BY <2>1, <2>5, <2>6
<1> QED
  BY <1>1, <1>2, <1>3 DEF Next, Starts

\* Walk holds in every reachable state.
LEMMA WalkInvariant == Spec => []Walk
<1>1. Init => Walk
  BY DEF Init, Walk, OnWalk
<1>2. Types /\ Bannered /\ Walk /\ [Next]_vars => Walk'
  <2>1. UNCHANGED vars /\ Walk => Walk'
    BY DEF vars, Walk, OnWalk, DoneBefore, AtHand, UpToDate, Good, This
  <2> QED
    BY <2>1, WalkStep
<1> QED
  BY <1>1, <1>2, TypesInvariant, BanneredInvariant, PTL DEF Spec

\* "in the following order and stop if any fails occur": the full build installs a
\* component only when all those before it are installed from the checked-out
\* commit and were compiled by its compiler.
THEOREM InstallsInOrder == Spec => BuildsInOrder
<1> DEFINE InOrder == request.args = Driver /\ request.list = Order /\ inst' # inst =>
                        \A i \in 1..(pos - 1) : UpToDate(Order[i])
<1>1. Types /\ Walk /\ [Next]_vars => [InOrder]_vars
  <2> SUFFICES ASSUME Types, Walk, Next, request.args = Driver, request.list = Order,
                      inst' # inst
               PROVE  \A i \in 1..(pos - 1) : UpToDate(Order[i])
    OBVIOUS
  <2>1. step # "idle"
    <3>1. ScriptStep \/ Kill
      BY StartsWith DEF Next, Starts, Start, Update, disk
    <3> QED
      BY <3>1, ScriptMoves
  <2>2. From(1) = Order
    BY BuildAssumption DEF From
  <2>3. OnWalk(1) /\ 1 \in 1..missing /\ pos \in Nat
    BY <2>1, <2>2, BuildAssumption DEF OnWalk, Types, ControlOK
  <2>4. DoneBefore(1)
    BY <2>3 DEF Walk
  <2> QED
    BY <2>3, <2>4 DEF DoneBefore
<1> QED
  BY <1>1, TypesInvariant, WalkInvariant, PTL DEF Spec, BuildsInOrder

\* When build_aomp.sh ends with 0, after a full build or one continued no later
\* than at the first component that was missing, the whole compiler is installed,
\* from the checked-out commit, whatever kills, failures, builds by hand and
\* updates came before.
THEOREM SuccessMeansComplete == Spec => SuccessIsComplete
<1> DEFINE Complete ==
             /\ status = Running /\ status' = 0
             /\ request.args = Driver
             /\ \E i \in 1..missing : request.list = From(i)
             => \A c \in Components : UpToDate(c)'
<1>1. Types /\ Bannered /\ Walk /\ [Next]_vars => [Complete]_vars
  <2> SUFFICES ASSUME Types, Bannered, Walk, Next, status = Running, status' = 0,
                      request.args = Driver,
                      NEW i \in 1..missing, request.list = From(i),
                      NEW c \in Components
               PROVE  UpToDate(c)'
    OBVIOUS
  <2>1. step # "idle" /\ OnWalk(i)
    BY DEF OnWalk, Types, ControlOK
  <2>2. ScriptStep \/ Kill
    BY <2>1, StartsWith DEF Next, Starts, Start, Update
  <2>3. Done /\ arg = 2 /\ pos = Len(request.list)
    <3>1. /\ Len(request.args) = 2 /\ arg \in {1, 2} /\ pos \in Nat
          /\ Len(request.list) \in Nat /\ pos <= Len(request.list)
      BY <2>1, Place, Position DEF Types, ControlOK
    <3>2. Quits \/ Done \/ GoesOn
      BY <2>2, ScriptMoves
    <3> QED
      BY <3>1, <3>2 DEF Quits, Done, GoesOn, Goto, Exit, Killed, Running
  <2>4. DoneBefore(i) /\ AtHand
    BY <2>1 DEF Walk
  <2>5. /\ i \in Nat /\ pos \in Nat /\ i + pos - 1 = Len(Order)
        /\ This = Order[Len(Order)] /\ Len(Order) \in Nat
    BY <2>1, <2>3, Place
  <2>6. CASE c = This
    BY <2>1, <2>2, <2>3, <2>4, <2>6, ScriptEnds
  <2>7. CASE c # This
    <3>1. PICK j \in 1..Len(Order) : c = Order[j]
      BY BuildAssumption DEF Components
    <3>2. j \in 1..(i + pos - 2)
      BY <2>5, <2>7, <3>1
    <3>3. UpToDate(c)
      BY <2>4, <3>1, <3>2 DEF DoneBefore
    <3> QED
      BY <2>2, <2>7, <3>3, StaysUpToDate
  <2> QED
    BY <2>6, <2>7
<1> QED
  BY <1>1, TypesInvariant, BanneredInvariant, WalkInvariant, PTL
  DEF Spec, SuccessIsComplete
=============================================================================
