-------------------------- MODULE PatchRepo_proofs --------------------------
(***************************************************************************)
(* Proofs about PatchRepo for every list of patches, every content of the   *)
(* upstream branch and any number of faults, pulls and changes of the list. *)
(***************************************************************************)
EXTENDS PatchRepo, TLAPS

\* While the script runs, $? of the invocation is open.
Open == step # "idle" => status = Running

Types == TypeOK /\ Open

\* Position n of the list holds a patch.
LEMMA ListedPatches ==
    /\ Listed \in Seq(STRING) /\ Len(Listed) \in Nat
    /\ \A n \in 1..Len(Listed) : Listed[n] \in Patches
<1>1. CASE ApplyPatches
  <2>1. Listed = PatchList
    BY <1>1 DEF Listed
  <2> QED
    BY <2>1, PatchAssumption DEF Patches
<1>2. CASE ~ApplyPatches
  <2>1. Listed = <<>>
    BY <1>2 DEF Listed
  <2> QED
    BY <2>1
<1> QED
  BY <1>1, <1>2

\* Rewriting regions to either side of a patch leaves a tree.
LEMMA RewriteType ==
    ASSUME Types, NEW p \in Patches, NEW R \in SUBSET Touched(p),
           NEW side, side \in {From, To}
    PROVE  Rewrite(side, p, R) \in [Regions -> VersionNumbers]
<1>1. \A r \in R : From[p][r] \in VersionNumbers /\ To[p][r] \in VersionNumbers
  <2> TAKE r \in R
  <2>1. r \in DOMAIN From[p] /\ r \in DOMAIN To[p]
    BY PatchAssumption DEF Touched
  <2>2. From[p][r] \in Written(From) /\ To[p][r] \in Written(To)
    BY <2>1 DEF Written
  <2> QED
    BY <2>2 DEF VersionNumbers
<1> QED
  BY <1>1 DEF Rewrite, Types, TypeOK

\* Every step keeps every variable in its type and $? open.
LEMMA TypesStep == Types /\ [Next]_vars => Types'
<1> SUFFICES ASSUME Types, [Next]_vars PROVE Types'
  OBVIOUS
<1>0. \A p \in Patches : \A R \in SUBSET Touched(p) :
         /\ Rewrite(To, p, R) \in [Regions -> VersionNumbers]
         /\ Rewrite(From, p, R) \in [Regions -> VersionNumbers]
  BY RewriteType
<1> USE ListedPatches DEF Types, TypeOK, Open, Steps, Running, Killed, This
<1>1. CASE Invoke
  BY <1>1 DEF Invoke
<1>2. CASE PatchFileMissing
  BY <1>2 DEF PatchFileMissing, PatchStep, Exit
<1>3. CASE ApplyPatch
  <2>1. This \in Patches /\ next + 1 \in 1..(Len(Listed) + 1)
    BY <1>3 DEF ApplyPatch, Appliable, PatchStep
  <2>2. tree' \in [Regions -> VersionNumbers]
    BY <1>0, <1>3, <2>1 DEF ApplyPatch
  <2> QED
    BY <1>3, <2>1, <2>2 DEF ApplyPatch, Appliable, PatchStep
<1>4. CASE AlreadyApplied
  BY <1>4 DEF AlreadyApplied, PatchStep
<1>5. CASE WillNotApply
  BY <1>5 DEF WillNotApply, PatchStep, Exit
<1>6. CASE PatchDone
  BY <1>6 DEF PatchDone
<1>7. CASE Build
  BY <1>7 DEF Build, Exit
<1>8. CASE Install
  BY <1>8 DEF Install
<1>9. CASE ReversePatch
  <2>1. This \in Patches /\ next + 1 \in 1..(Len(Listed) + 1)
    BY <1>9 DEF ReversePatch, Reversible, UnpatchStep
  <2>2. tree' \in [Regions -> VersionNumbers]
    BY <1>0, <1>9, <2>1 DEF ReversePatch
  <2> QED
    BY <1>9, <2>1, <2>2 DEF ReversePatch, Reversible, UnpatchStep
<1>10. CASE PassOver \/ UnpatchDone
  BY <1>10 DEF PassOver, UnpatchStep, UnpatchDone, Exit
<1>11. CASE Fault
  <2>1. ASSUME CutShort
        PROVE  /\ tree' \in [Regions -> VersionNumbers] /\ cut' \subseteq Patches
               /\ next + 1 \in 1..(Len(Listed) + 1)
    <3>1. This \in Patches /\ next + 1 \in 1..(Len(Listed) + 1)
      BY <2>1 DEF CutShort, Appliable, Reversible, PatchStep, UnpatchStep
    <3>2. tree' \in [Regions -> VersionNumbers]
      BY <1>0, <2>1, <3>1 DEF CutShort
    <3> QED
      BY <2>1, <3>1, <3>2 DEF CutShort
  <2>2. faults' \in 0..MaxFaults
    BY <1>11, PatchAssumption DEF Fault, PatchCommandFails, BuildFails, Kill, AFault
  <2>3. CASE PatchCommandFails
    BY <2>1, <2>2, <2>3 DEF PatchCommandFails, AFault
  <2>4. CASE BuildFails
    BY <2>2, <2>4 DEF BuildFails, AFault, Exit
  <2>5. CASE Kill
    BY <2>1, <2>2, <2>5 DEF Kill, AFault, Exit
  <2> QED
    BY <1>11, <2>3, <2>4, <2>5 DEF Fault
<1>12. CASE Pull
  BY <1>12, PatchAssumption DEF Pull
<1>13. CASE PullAomp
  BY <1>13 DEF PullAomp
<1>14. CASE UNCHANGED vars
  BY <1>14 DEF vars
<1> QED
  BY <1>1, <1>2, <1>3, <1>4, <1>5, <1>6, <1>7, <1>8, <1>9, <1>10, <1>11, <1>12,
     <1>13, <1>14 DEF Next, ScriptStep

\* Types holds in every reachable state.
LEMMA TypesInvariant == Spec => []Types
<1>1. Init => Types
  BY PatchAssumption, ListedPatches DEF Init, Types, TypeOK, Open, Steps
<1> QED
  BY <1>1, TypesStep, PTL DEF Spec

\* patchrepo and removepatch never leave the list of patches and the tree only
\* ever holds versions of upstream or of a patch.
THEOREM TypeCorrect == Spec => []TypeOK
<1>1. Types => TypeOK
  BY DEF Types
<1> QED
  BY <1>1, TypesInvariant, PTL

-----------------------------------------------------------------------------
(* The inductive invariant behind the safety properties.                   *)

\* No two patches of the line rewrite the same text.  Reversing in the order of
\* application is only right then; README.md has the evidence from the control
\* files that the lines are written that way.
Disjoint ==
    \A p, q \in Patches : p # q => Touched(p) \cap Touched(q) = {}

Positions == 1..Len(Listed)

\* Where a patch reaches, the tree is upstream's, or upstream fits the patch and
\* the tree has one of the patch's sides.
Untouched(p) == \A r \in Touched(p) : tree[r] = upstream[r]
Kept ==
    \A n \in Positions :
        Untouched(Listed[n]) \/ (Fits(Listed[n]) /\ PassesReverseTest(Listed[n]))

\* Where no patch reaches it is upstream's.
Outside ==
    \A r \in Regions :
        (\A n \in Positions : r \notin Touched(Listed[n])) => tree[r] = upstream[r]

\* Only a rewriting that was cut short tears a patch.
Whole ==
    \A n \in Positions :
        \/ Listed[n] \in cut
        \/ Untouched(Listed[n])
        \/ AppliesForward(Listed[n]) \/ AppliesReverse(Listed[n])

\* What patchrepo, and what removepatch, has done to a patch when it is past it.
Done(p) ==
    \/ AppliesReverse(p)
    \/ (p \in cut \/ HalfMerged(p)) /\ PassesReverseTest(p)
Undone(p) == p \in cut \/ Untouched(p) \/ AppliesForward(p)

\* patchrepo up to next, all of it while the component is built, removepatch up
\* to next.
Walked ==
    /\ step = "patch" =>
          \A n \in 1..(next - 1) : Done(Listed[n]) /\ Listed[n] \notin missing
    /\ step \in {"build", "install"} =>
          \A n \in Positions : Done(Listed[n]) /\ Listed[n] \notin missing
    /\ step = "unpatch" =>
          \A n \in Positions :
              Listed[n] \notin missing /\ (n < next => Undone(Listed[n]))

\* After an install that succeeded no patch is left, whatever was pulled since.
Reversed ==
    step = "idle" /\ mode = "install" /\ status = 0 =>
        \A n \in Positions : Undone(Listed[n])

Safe == Kept /\ Outside /\ Whole /\ Walked /\ Reversed

\* Rewriting regions of one patch leaves the regions of the others alone.
LEMMA RewriteFrame ==
    ASSUME Types, Disjoint, NEW p \in Patches, NEW R \in SUBSET Touched(p),
           NEW side, tree' = Rewrite(side, p, R)
    PROVE  /\ \A r \in R : tree'[r] = side[p][r]
           /\ \A r \in Regions \ R : tree'[r] = tree[r]
           /\ \A q \in Patches \ {p} : \A r \in Touched(q) : tree'[r] = tree[r]
<1>1. \A q \in Patches : Touched(q) \subseteq Regions
  BY PatchAssumption DEF Touched
<1> QED
  BY <1>1 DEF Disjoint, Rewrite

\* Applying or reversing a patch, completely or in part, keeps the tree between
\* the sides of the patches.
LEMMA RewriteKeeps ==
    ASSUME Types, Disjoint, Kept, Outside, NEW k \in Positions,
           AppliesForward(Listed[k]) \/ AppliesReverse(Listed[k]),
           NEW R \in SUBSET Touched(Listed[k]), NEW side, side \in {From, To},
           tree' = Rewrite(side, Listed[k], R), upstream' = upstream
    PROVE  Kept' /\ Outside'
<1> DEFINE p == Listed[k]
<1>1. p \in Patches /\ \A n \in Positions : Listed[n] \in Patches
  BY ListedPatches DEF Positions
<1>2. /\ \A r \in R : tree'[r] = side[p][r]
      /\ \A r \in Regions \ R : tree'[r] = tree[r]
      /\ \A q \in Patches \ {p} : \A r \in Touched(q) : tree'[r] = tree[r]
  BY <1>1, RewriteFrame
<1>3. Touched(p) \subseteq Regions
  BY <1>1, PatchAssumption DEF Touched
<1>4. Fits(p) /\ PassesReverseTest(p)
  <2>1. CASE Untouched(p)
    BY <2>1 DEF Untouched, AppliesForward, AppliesReverse, Fits, Merged, PassesReverseTest
  <2>2. CASE Fits(p) /\ PassesReverseTest(p)
    BY <2>2
  <2> QED
    BY <2>1, <2>2 DEF Kept
<1>5. Fits(p)' /\ PassesReverseTest(p)'
  <2>1. \A r \in Touched(p) : tree'[r] \in {From[p][r], To[p][r]}
    BY <1>2, <1>3, <1>4 DEF PassesReverseTest
  <2> QED
    BY <1>4, <2>1 DEF Fits, Merged, PassesReverseTest
<1>6. Kept'
  <2> SUFFICES ASSUME NEW n \in Positions
               PROVE  (Untouched(Listed[n]) \/ (Fits(Listed[n]) /\ PassesReverseTest(Listed[n])))'
    BY DEF Kept, Positions, Listed
  <2>1. CASE Listed[n] = p
    BY <1>5, <2>1
  <2>2. CASE Listed[n] # p
    BY <1>1, <1>2, <2>2 DEF Kept, Untouched, Fits, Merged, PassesReverseTest
  <2> QED
    BY <2>1, <2>2
<1>7. Outside'
  BY <1>2 DEF Outside, Positions, Listed, Touched
<1> QED
  BY <1>6, <1>7

\* No step of the script, no fault and no pull brings a listed patch into a state
\* it does not leave again.
LEMMA KeepsStep == Types /\ Disjoint /\ Safe /\ [Next]_vars => Kept' /\ Outside'
<1> SUFFICES ASSUME Types, Disjoint, Safe, [Next]_vars PROVE Kept' /\ Outside'
  OBVIOUS
<1> USE DEF Safe
<1>1. CASE UNCHANGED <<tree, upstream>>
  BY <1>1
  DEF Kept, Outside, Untouched, PassesReverseTest, Fits, Merged, Positions, Listed, Touched
<1>2. ASSUME NEW R \in SUBSET Touched(This), NEW side, side \in {From, To},
             next \in Positions, tree' = Rewrite(side, This, R), upstream' = upstream,
             AppliesForward(This) \/ AppliesReverse(This)
      PROVE  Kept' /\ Outside'
  BY <1>2, RewriteKeeps DEF This
<1>3. next <= Len(Listed) => next \in Positions
  BY ListedPatches DEF Types, TypeOK, Positions
<1>4. CASE ApplyPatch
  BY <1>2, <1>3, <1>4 DEF ApplyPatch, Appliable, PatchStep
<1>5. CASE ReversePatch
  BY <1>2, <1>3, <1>5 DEF ReversePatch, Reversible, UnpatchStep
<1>6. CASE CutShort /\ upstream' = upstream
  BY <1>2, <1>3, <1>6 DEF CutShort, Appliable, Reversible, PatchStep, UnpatchStep
<1>7. CASE Pull
  BY <1>7, PatchAssumption
  DEF Pull, Kept, Outside, Untouched, Positions, Listed, Touched
<1>8. CASE Fault
  BY <1>1, <1>6, <1>8 DEF Fault, PatchCommandFails, BuildFails, Kill
<1> QED
  BY <1>1, <1>4, <1>5, <1>7, <1>8
  DEF Next, ScriptStep, vars, Invoke, PatchFileMissing, AlreadyApplied, WillNotApply,
      PatchDone, Build, Install, PassOver, UnpatchDone, PullAomp

\* A step that rewrites regions of the patch at next leaves the other patches
\* where they are.
LEMMA RewriteOthers ==
    ASSUME Types, Disjoint, next \in Positions, NEW R \in SUBSET Touched(This),
           NEW side, tree' = Rewrite(side, This, R), upstream' = upstream
    PROVE  /\ \A r \in R : tree'[r] = side[This][r]
           /\ \A n \in Positions : Listed[n] # This =>
                 /\ AppliesForward(Listed[n])' <=> AppliesForward(Listed[n])
                 /\ AppliesReverse(Listed[n])' <=> AppliesReverse(Listed[n])
                 /\ PassesReverseTest(Listed[n])' <=> PassesReverseTest(Listed[n])
                 /\ Untouched(Listed[n])' <=> Untouched(Listed[n])
                 /\ HalfMerged(Listed[n])' <=> HalfMerged(Listed[n])
<1>1. This \in Patches /\ \A n \in Positions : Listed[n] \in Patches
  BY ListedPatches DEF Positions, This
<1>2. /\ \A r \in R : tree'[r] = side[This][r]
      /\ \A q \in Patches \ {This} : \A r \in Touched(q) : tree'[r] = tree[r]
  BY <1>1, RewriteFrame
<1>3. Listed' = Listed
  BY DEF Listed
<1> QED
  BY <1>1, <1>2, <1>3
  DEF AppliesForward, AppliesReverse, PassesReverseTest, Untouched, HalfMerged, Fits,
      Merged, Touched

\* Whatever is cut short while a patch is applied or reversed, the patch is done
\* and undone for the rest of the walk: it is one of those cut short.
LEMMA CutStep ==
    ASSUME Types, Disjoint, Safe, CutShort, UNCHANGED <<upstream, missing, mode>>
    PROVE  /\ next \in Positions /\ This \notin missing
           /\ Positions' = Positions /\ Listed' = Listed /\ Whole'
           /\ \A n \in Positions : Listed[n] = This => Done(Listed[n])' /\ Undone(Listed[n])'
           /\ \A n \in Positions : /\ Done(Listed[n]) => Done(Listed[n])'
                                   /\ Undone(Listed[n]) => Undone(Listed[n])'
<1>1. /\ next \in Positions /\ This \notin missing /\ cut' = cut \cup {This}
      /\ Positions' = Positions /\ Listed' = Listed
  BY ListedPatches
  DEF CutShort, Appliable, Reversible, PatchStep, UnpatchStep, Types, TypeOK, Positions,
      Listed
<1>2. PICK R \in SUBSET Touched(This), side \in {From, To} :
         tree' = Rewrite(side, This, R)
  BY DEF CutShort
<1>3. \A n \in Positions : Listed[n] # This =>
         /\ AppliesForward(Listed[n])' <=> AppliesForward(Listed[n])
         /\ AppliesReverse(Listed[n])' <=> AppliesReverse(Listed[n])
         /\ PassesReverseTest(Listed[n])' <=> PassesReverseTest(Listed[n])
         /\ Untouched(Listed[n])' <=> Untouched(Listed[n])
         /\ HalfMerged(Listed[n])' <=> HalfMerged(Listed[n])
  BY <1>1, <1>2, RewriteOthers
<1>4. \A n \in Positions : Listed[n] = This => PassesReverseTest(Listed[n])'
  <2>1. /\ \A r \in R : tree'[r] = side[This][r]
        /\ \A r \in Regions \ R : tree'[r] = tree[r]
    BY <1>1, <1>2, ListedPatches, RewriteFrame DEF Positions, This
  <2>2. \A r \in Touched(This) : tree[r] \in {From[This][r], To[This][r]}
    BY DEF CutShort, Appliable, Reversible, AppliesForward, AppliesReverse
  <2>3. Touched(This) \subseteq Regions
    BY <1>1, ListedPatches, PatchAssumption DEF Positions, This, Touched
  <2>4. \A r \in Touched(This) : tree'[r] \in {From[This][r], To[This][r]}
    BY <2>1, <2>2, <2>3
  <2> QED
    BY <1>1, <2>4 DEF PassesReverseTest, Touched
<1>5. \A n \in Positions : Listed[n] = This => Done(Listed[n])' /\ Undone(Listed[n])'
  BY <1>1, <1>4 DEF Done, Undone
<1>6. \A n \in Positions : /\ Done(Listed[n]) => Done(Listed[n])'
                           /\ Undone(Listed[n]) => Undone(Listed[n])'
  BY <1>1, <1>3, <1>5 DEF Done, Undone
<1>7. Whole'
  BY <1>1, <1>3 DEF Safe, Whole
<1> QED
  BY <1>1, <1>5, <1>6, <1>7

\* The loops of patchrepo and removepatch get every patch of the line to the side
\* they are for, unless it is one that was cut short or upstream has half of it.
LEMMA WalkStep ==
    ASSUME Types, Disjoint, Safe, [Next]_vars
    PROVE  Whole' /\ Walked' /\ Reversed'
<1> USE DEF Safe
<1>1. /\ next \in Nat /\ Len(Listed) \in Nat
      /\ Listed' = Listed /\ Positions' = Positions /\ Positions = 1..Len(Listed)
      /\ next <= Len(Listed) => next \in Positions
  BY ListedPatches DEF Types, TypeOK, Positions, Listed
<1>2. /\ step \in Steps /\ mode \in {"build", "install"}
      /\ step # "idle" => status = Running
  BY DEF Types, TypeOK, Open
<1>3. ASSUME UNCHANGED <<tree, upstream, cut>>
      PROVE  /\ \A p : /\ AppliesForward(p)' <=> AppliesForward(p)
                       /\ AppliesReverse(p)' <=> AppliesReverse(p)
                       /\ Untouched(p)' <=> Untouched(p)
                       /\ Done(p)' <=> Done(p)
                       /\ Undone(p)' <=> Undone(p)
             /\ Whole'
  BY <1>1, <1>3
  DEF AppliesForward, AppliesReverse, PassesReverseTest, Untouched, Done, Undone,
      HalfMerged, Fits, Merged, Touched, Whole
<1>4. CASE Invoke
  BY <1>1, <1>3, <1>4 DEF Invoke, Walked, Reversed, Running
<1>5. CASE PatchFileMissing \/ WillNotApply
  BY <1>1, <1>3, <1>5 DEF PatchFileMissing, WillNotApply, PatchStep, Exit, Walked, Reversed
<1>6. CASE ApplyPatch \/ ReversePatch
  <2>1. next \in Positions /\ This \notin missing /\ cut' = cut \ {This}
    BY <1>1, <1>6
    DEF ApplyPatch, ReversePatch, Appliable, Reversible, PatchStep, UnpatchStep
  <2> DEFINE side == IF step = "patch" THEN To ELSE From
  <2>2. tree' = Rewrite(side, This, Touched(This)) /\ upstream' = upstream
    BY <1>6
    DEF ApplyPatch, ReversePatch, Appliable, Reversible, PatchStep, UnpatchStep
  <2> HIDE DEF side
  <2>3. /\ \A r \in Touched(This) : tree'[r] = side[This][r]
        /\ \A n \in Positions : Listed[n] # This =>
              /\ AppliesForward(Listed[n])' <=> AppliesForward(Listed[n])
              /\ AppliesReverse(Listed[n])' <=> AppliesReverse(Listed[n])
              /\ PassesReverseTest(Listed[n])' <=> PassesReverseTest(Listed[n])
              /\ Untouched(Listed[n])' <=> Untouched(Listed[n])
              /\ HalfMerged(Listed[n])' <=> HalfMerged(Listed[n])
    BY <2>1, <2>2, RewriteOthers
  <2>4. \A n \in Positions : Listed[n] # This =>
           /\ Done(Listed[n])' <=> Done(Listed[n])
           /\ Undone(Listed[n])' <=> Undone(Listed[n])
    BY <1>1, <2>1, <2>3 DEF Done, Undone
  <2>5. CASE ApplyPatch
    <3>1. step = "patch" /\ step' = "patch" /\ next' = next + 1 /\ missing' = missing
      BY <2>5 DEF ApplyPatch, Appliable, PatchStep
    <3>2. \A n \in Positions : Listed[n] = This => AppliesReverse(Listed[n])'
      BY <1>1, <2>3, <3>1 DEF AppliesReverse, Touched, side
    <3>3. Whole'
      BY <1>1, <2>1, <2>3, <3>2 DEF Whole
    <3>4. Walked'
      BY <1>1, <2>1, <2>4, <3>1, <3>2 DEF Walked, Done, This
    <3> QED
      BY <3>1, <3>3, <3>4 DEF Reversed
  <2>6. CASE ReversePatch
    <3>1. step = "unpatch" /\ step' = "unpatch" /\ next' = next + 1 /\ missing' = missing
      BY <2>6 DEF ReversePatch, Reversible, UnpatchStep
    <3>2. \A n \in Positions : Listed[n] = This => AppliesForward(Listed[n])'
      BY <1>1, <2>3, <3>1 DEF AppliesForward, Touched, side
    <3>3. Whole'
      BY <1>1, <2>1, <2>3, <3>2 DEF Whole
    <3>4. Walked'
      BY <1>1, <2>1, <2>4, <3>1, <3>2 DEF Walked, Undone, This
    <3> QED
      BY <3>1, <3>3, <3>4 DEF Reversed
  <2> QED
    BY <1>6, <2>5, <2>6
<1>7. CASE AlreadyApplied
  <2>1. next \in Positions /\ Listed[next] = This
    BY <1>1, <1>7 DEF AlreadyApplied, PatchStep, This
  <2>2. ~AppliesForward(This) /\ PassesReverseTest(This)
    BY <1>7 DEF AlreadyApplied
  <2>3. Untouched(This) => AppliesReverse(This) \/ HalfMerged(This)
    BY <2>2 DEF Untouched, AppliesForward, AppliesReverse, PassesReverseTest, HalfMerged,
                Fits, Merged
  <2>4. Done(This)
    BY <2>1, <2>2, <2>3 DEF Whole, Done
  <2> QED
    BY <1>1, <1>3, <1>7, <2>1, <2>4 DEF AlreadyApplied, PatchStep, Walked, Reversed
<1>8. CASE PatchDone
  BY <1>1, <1>3, <1>8 DEF PatchDone, Walked, Reversed
<1>9. CASE Build
  BY <1>1, <1>2, <1>3, <1>9 DEF Build, Exit, Walked, Reversed
<1>10. CASE Install
  BY <1>1, <1>3, <1>10 DEF Install, Walked, Reversed
<1>11. CASE PassOver
  <2>1. next \in Positions /\ Listed[next] = This
    BY <1>1, <1>11 DEF PassOver, UnpatchStep, This
  <2>2. This \notin missing
    BY <1>11, <2>1 DEF PassOver, UnpatchStep, Walked
  <2>3. ~AppliesReverse(This)
    BY <1>11, <2>2 DEF PassOver, UnpatchStep, Reversible
  <2>4. Undone(This)
    BY <2>1, <2>3 DEF Whole, Undone
  <2> QED
    BY <1>1, <1>3, <1>11, <2>1, <2>4 DEF PassOver, UnpatchStep, Walked, Reversed
<1>12. CASE UnpatchDone
  BY <1>1, <1>3, <1>12 DEF UnpatchDone, Exit, Walked, Reversed
<1>13. CASE PatchCommandFails
  <2>1. /\ CutShort /\ next' = next + 1 /\ UNCHANGED <<upstream, missing, step, mode, status>>
        /\ step \in {"patch", "unpatch"}
    BY <1>13
    DEF PatchCommandFails, CutShort, Appliable, Reversible, PatchStep, UnpatchStep
  <2>2. /\ Whole' /\ next \in Positions /\ This \notin missing
        /\ \A n \in Positions : n = next => Done(Listed[n])' /\ Undone(Listed[n])'
        /\ \A n \in Positions : /\ Done(Listed[n]) => Done(Listed[n])'
                                /\ Undone(Listed[n]) => Undone(Listed[n])'
    BY <2>1, CutStep DEF This
  <2>3. CASE step = "patch"
    <3>1. \A n \in Positions : n < next' => n = next \/ n < next
      BY <1>1, <2>1
    <3>2. \A n \in Positions : n < next => Done(Listed[n]) /\ Listed[n] \notin missing
      BY <1>1, <2>3 DEF Walked
    <3>3. \A n \in Positions : n < next' => Done(Listed[n])'
      BY <2>2, <3>1, <3>2
    <3>4. \A n \in Positions : n < next' => Listed[n] \notin missing
      BY <2>2, <3>1, <3>2 DEF This
    <3>5. Walked'
      BY <1>1, <2>1, <2>2, <2>3, <3>3, <3>4 DEF Walked
    <3> QED
      BY <2>1, <2>2, <2>3, <3>5 DEF Reversed
  <2>4. CASE step = "unpatch"
    <3>1. \A n \in Positions : n < next' => n = next \/ n < next
      BY <1>1, <2>1
    <3>2. \A n \in Positions : n < next => Undone(Listed[n])
      BY <2>4 DEF Walked
    <3>3. \A n \in Positions : n < next' => Undone(Listed[n])'
      BY <2>2, <3>1, <3>2
    <3>4. Walked'
      BY <1>1, <2>1, <2>4, <3>3 DEF Walked
    <3> QED
      BY <2>1, <2>2, <2>4, <3>4 DEF Reversed
  <2> QED
    BY <2>1, <2>3, <2>4
<1>14. CASE BuildFails
  BY <1>1, <1>3, <1>14 DEF BuildFails, Exit, Walked, Reversed
<1>15. CASE Kill
  <2>1. Whole'
    BY <1>3, <1>15, CutStep DEF Kill, Exit
  <2> QED
    BY <1>15, <2>1 DEF Kill, Exit, Killed, Walked, Reversed
<1>16. CASE Pull
  <2>1. \A n \in Positions : Untouched(Listed[n])'
    BY <1>16 DEF Pull, Untouched
  <2> QED
    BY <1>1, <1>16, <2>1 DEF Pull, Whole, Walked, Reversed, Undone
<1>17. CASE PullAomp
  BY <1>1, <1>3, <1>17 DEF PullAomp, Walked, Reversed
<1>18. CASE UNCHANGED vars
  BY <1>1, <1>3, <1>18 DEF vars, Walked, Reversed
<1> QED
  BY <1>4, <1>5, <1>6, <1>7, <1>8, <1>9, <1>10, <1>11, <1>12, <1>13, <1>14, <1>15,
     <1>16, <1>17, <1>18 DEF Next, ScriptStep, Fault

\* With disjoint patches Safe holds in every reachable state.
LEMMA SafeInvariant ==
    ASSUME Disjoint
    PROVE  Spec => [](Types /\ Safe)
<1>1. Init => Safe
  BY ListedPatches, PatchAssumption
  DEF Init, Safe, Kept, Outside, Whole, Walked, Reversed, Undone, Untouched, Positions
<1>2. Types /\ Safe /\ [Next]_vars => Safe'
  BY KeepsStep, WalkStep DEF Safe
<1> QED
  BY <1>1, <1>2, TypesInvariant, PTL DEF Spec

-----------------------------------------------------------------------------
(* What the component scripts promise.                                     *)

\* A component is only ever compiled and installed with every listed patch
\* completely in, except one whose rewriting was cut short since the last pull
\* and one upstream has taken over in part; text that is neither side of a patch
\* is never compiled.
THEOREM BuildsArePatched ==
    ASSUME Disjoint
    PROVE  Spec => []BuildsPatched
<1>1. Safe => BuildsPatched
  BY DEF Safe, Walked, Done, BuildsPatched, Positions
<1> QED
  BY <1>1, SafeInvariant, PTL

\* An install that succeeds leaves the checked-out sources, except where upstream
\* has taken a patch over or a rewriting was cut short since the last pull.
THEOREM InstallCleans ==
    ASSUME Disjoint
    PROVE  Spec => []CleanUnlessMerged
<1>1. Types /\ Safe => CleanUnlessMerged
  <2> SUFFICES ASSUME Types, Safe, step = "idle", mode = "install", status = 0,
                      NEW r \in Regions, tree[r] # upstream[r]
               PROVE  \E p \in Patches : r \in Touched(p) /\ (Merged(p) \/ p \in cut)
    BY DEF CleanUnlessMerged
  <2>1. PICK n \in Positions : r \in Touched(Listed[n])
    BY DEF Safe, Outside
  <2>2. ~Untouched(Listed[n])
    BY <2>1 DEF Untouched
  <2>3. Listed[n] \in Patches
    BY <2>1, ListedPatches DEF Positions
  <2>4. CASE Listed[n] \in cut
    BY <2>1, <2>3, <2>4
  <2>5. CASE Listed[n] \notin cut
    <3>1. Fits(Listed[n]) /\ AppliesForward(Listed[n])
      BY <2>2, <2>5 DEF Safe, Kept, Reversed, Undone
    <3>2. Merged(Listed[n])
      BY <2>1, <3>1 DEF Fits, AppliesForward
    <3> QED
      BY <2>1, <2>3, <3>2
  <2> QED
    BY <2>4, <2>5
<1> QED
  BY <1>1, SafeInvariant, PTL

\* patchrepo refuses a patch only when its file is missing or upstream has text
\* the patch does not know: neither a build that left the tree patched nor a
\* rewriting that was cut short locks the developer out.
THEOREM RefusalsAreJustified ==
    ASSUME Disjoint
    PROVE  Spec => RefusesOnlyAtOdds
<1> DEFINE Justified ==
      step = "patch" /\ status' = 1 =>
          \/ This \in missing
          \/ \E r \in Touched(This) :
                upstream[r] \notin {From[This][r], To[This][r]}
<1>1. Types /\ Safe /\ [Next]_vars => [Justified]_vars
  <2> SUFFICES ASSUME Types, Safe, Next, step = "patch", status' = 1,
                      This \notin missing
               PROVE  \E r \in Touched(This) :
                         upstream[r] \notin {From[This][r], To[This][r]}
    OBVIOUS
  <2>1. status = -1 /\ next \in Nat /\ next >= 1
    BY ListedPatches DEF Types, TypeOK, Open, Running
  <2>2. WillNotApply
    BY <2>1
    DEF Next, ScriptStep, Invoke, PatchFileMissing, ApplyPatch, AlreadyApplied,
        PatchDone, Build, Install, ReversePatch, PassOver, UnpatchDone, Reversible,
        UnpatchStep, Fault, PatchCommandFails, BuildFails, Kill, Killed, Exit, Pull,
        PullAomp
  <2>3. next \in Positions /\ This = Listed[next]
    BY <2>1, <2>2, ListedPatches DEF WillNotApply, PatchStep, Positions, This
  <2>4. ~PassesReverseTest(This)
    BY <2>2 DEF WillNotApply
  <2>5. Untouched(This)
    BY <2>3, <2>4 DEF Safe, Kept
  <2> QED
    BY <2>4, <2>5 DEF PassesReverseTest, Untouched
<1> QED
  BY <1>1, SafeInvariant, PTL DEF Spec, RefusesOnlyAtOdds
=============================================================================
