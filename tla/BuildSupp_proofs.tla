-------------------------- MODULE BuildSupp_proofs --------------------------
(***************************************************************************)
(* Proofs about BuildSupp for every set of components, versions and         *)
(* requests and any number of faults.                                       *)
(***************************************************************************)
EXTENDS BuildSupp, TLAPS

\* The steps of a build function after checkversion.
Building == {"fetch", "rminstall", "mkinstall", "make", "install"}
Linking == {"rmlink", "ln"}

\* Past the start of the loop body, $_component is a component.
InBody ==
    step \in {"check"} \cup Building \cup Linking =>
        pos \in 1..Len(request) /\ This \in Components

Types == TypeOK /\ InBody

\* Every variable stays in its type, and the build steps only run for a
\* component the script knows.
LEMMA TypesInvariant == Spec => []Types
<1>1. Init => Types
  BY SuppAssumption
  DEF Init, Types, TypeOK, InBody, Building, Linking, Steps, DirStates
<1>2. Types /\ [Next]_vars => Types'
  <2> SUFFICES ASSUME Types, [Next]_vars PROVE Types'
    OBVIOUS
  <2> USE SuppAssumption DEF Types, TypeOK, InBody, Building, Linking, Steps,
                             DirStates, This, Running, disk
  <2>1. pos \in Nat /\ Len(request) \in Nat
    OBVIOUS
  <2>2. CASE Invoke
    BY <2>2 DEF Invoke
  <2>3. CASE Finish
    BY <2>3 DEF Finish, Exit
  <2>4. CASE InvalidName
    BY <2>4 DEF InvalidName, Exit
  <2>5. CASE NoClang
    BY <2>5 DEF NoClang, Exit
  <2>6. CASE Start
    BY <2>6 DEF Start, Continue
  <2>7. CASE Skip
    BY <2>1, <2>7 DEF Skip, NextComponent
  <2>8. CASE HwlocNeedsSmi
    BY <2>8 DEF HwlocNeedsSmi, Exit
  <2>9. CASE Rebuild
    BY <2>9 DEF Rebuild, Continue
  <2>10. CASE Fetch
    BY <2>10 DEF Fetch, Continue
  <2>11. CASE RmInstall
    BY <2>11 DEF RmInstall, Continue, SetInst
  <2>12. CASE MkInstall
    BY <2>12 DEF MkInstall, Continue, SetInst
  <2>13. CASE Make
    BY <2>13 DEF Make, Continue
  <2>14. CASE Install
    BY <2>14 DEF Install, Continue, SetInst
  <2>15. CASE RmLink
    BY <2>15 DEF RmLink, Continue
  <2>16. CASE Ln
    BY <2>1, <2>16 DEF Ln, NextComponent
  <2>17. CASE ToolMissing
    BY <2>17 DEF ToolMissing, Exit
  <2>18. CASE Fault
    BY <2>18 DEF Fault, Exit, SetInst
  <2>19. CASE RemoveInstall
    BY <2>19 DEF RemoveInstall
  <2>20. CASE UNCHANGED vars
    BY <2>20 DEF vars
  <2> QED
    BY <2>2, <2>3, <2>4, <2>5, <2>6, <2>7, <2>8, <2>9, <2>10, <2>11, <2>12,
       <2>13, <2>14, <2>15, <2>16, <2>17, <2>18, <2>19, <2>20
    DEF Next, ScriptStep
<1> QED
  BY <1>1, <1>2, PTL DEF Spec

\* The disk, the link targets and the position in the argument list stay in
\* their types through every build, fault and later invocation.
THEOREM TypeCorrect == Spec => []TypeOK
<1>1. Types => TypeOK
  BY DEF Types
<1> QED
  BY <1>1, TypesInvariant, PTL

-----------------------------------------------------------------------------
(* The inductive invariant behind the two safety properties.               *)

\* Every link leads to a directory, and to a complete installation unless that
\* was unpacked by rpm2cpio; only the user breaks this.
LinksComplete ==
    \A c \in Components \ removed : link[c] # NoLink =>
        inst[c][link[c]] # "none" /\ (Reliable(c) => Usable(c))

\* A version is only built while the link points elsewhere (or into the void),
\* and the link is only set to a version that has been installed.
BuildsUnlinked ==
    step \in Building \cup {"rmlink"} => link[This] # version \/ This \in removed
LinksInstalled ==
    step \in Linking =>
        /\ inst[This][version] # "none"
        /\ (This \in Packages => PackageManager = "deb") =>
               inst[This][version] = "complete"

\* The arguments the loop has passed are linked in the wanted version.
PassedLinked ==
    step # "idle" \/ status = 0 =>
        \A n \in 1..(pos - 1) : request[n] \in Components /\ link[request[n]] = version

\* While the script runs their directories exist, so that none of them is built
\* again when it is named twice.
PassedInstalled ==
    step # "idle" =>
        \A n \in 1..(pos - 1) : inst[request[n]][version] # "none"
BuildsOnce ==
    step \in Building \cup Linking => \A n \in 1..(pos - 1) : request[n] # This

\* After an exit status of 0 the loop has reached the end or an invalid name.
StoppedEarly ==
    step = "idle" /\ status = 0 => pos > Len(request) \/ This \notin Components

Safe == LinksComplete /\ BuildsUnlinked /\ LinksInstalled /\ PassedLinked
        /\ PassedInstalled /\ BuildsOnce /\ StoppedEarly

\* Every step of the script, every fault and every invocation keeps Safe.
LEMMA SafeStep ==
    ASSUME Types, Safe, [Next]_vars
    PROVE  Safe'
<1> USE SuppAssumption DEF Types, TypeOK, InBody, Building, Linking, Steps,
        DirStates, This, Running, disk, Safe, LinksComplete, BuildsUnlinked,
        LinksInstalled, PassedLinked, PassedInstalled, BuildsOnce, StoppedEarly,
        Usable, Reliable
<1>1. pos \in Nat /\ Len(request) \in Nat
  OBVIOUS
<1>2. CASE Invoke
  BY <1>2 DEF Invoke
<1>3. CASE Finish
  BY <1>1, <1>3 DEF Finish, Exit
<1>4. CASE InvalidName
  BY <1>1, <1>4 DEF InvalidName, Exit
<1>5. CASE NoClang
  BY <1>5 DEF NoClang, Exit
<1>6. CASE Start
  BY <1>6 DEF Start, Continue
<1>7. CASE Skip
  BY <1>1, <1>7 DEF Skip, NextComponent, AlreadyExists
<1>8. CASE HwlocNeedsSmi
  BY <1>8 DEF HwlocNeedsSmi, Exit
<1>9. CASE Rebuild
  BY <1>9 DEF Rebuild, Continue, AlreadyExists
<1>10. CASE Fetch
  BY <1>10 DEF Fetch, Continue
<1>11. CASE RmInstall
  BY <1>11 DEF RmInstall, Continue, SetInst
<1>12. CASE MkInstall
  BY <1>12 DEF MkInstall, Continue, SetInst
<1>13. CASE Make
  BY <1>13 DEF Make, Continue
<1>14. CASE Install
  BY <1>14 DEF Install, Continue, SetInst
<1>15. CASE RmLink
  BY <1>1, <1>15 DEF RmLink, Continue
<1>16. CASE Ln
  <2>1. /\ This \in Components /\ version \in Versions /\ step = "ln"
        /\ step' = "start" /\ pos' = pos + 1
        /\ link' = [link EXCEPT ![This] = version]
        /\ removed' = removed \ {This}
        /\ UNCHANGED <<inst, request, version, status>>
    BY <1>16 DEF Ln, NextComponent
  <2>2. LinksComplete'
    <3> SUFFICES ASSUME NEW c \in Components, c \notin removed', link'[c] # NoLink
                 PROVE  inst[c][link'[c]] # "none"
                        /\ ((c \in Packages => PackageManager = "deb") =>
                              inst[c][link'[c]] = "complete")
      BY <2>1
    <3>1. CASE c = This
      BY <2>1, <3>1
    <3>2. CASE c # This
      BY <2>1, <3>2
    <3> QED
      BY <3>1, <3>2
  <2>3. PassedLinked' /\ PassedInstalled'
    BY <1>1, <2>1
  <2> QED
    BY <2>1, <2>2, <2>3
<1>17. CASE ToolMissing
  BY <1>17 DEF ToolMissing, Exit
<1>18. CASE Fault
  BY <1>18 DEF Fault, Exit, SetInst
<1>19. CASE RemoveInstall
  BY <1>19 DEF RemoveInstall
<1>20. CASE UNCHANGED vars
  BY <1>20 DEF vars
<1> QED
  BY <1>2, <1>3, <1>4, <1>5, <1>6, <1>7, <1>8, <1>9, <1>10, <1>11, <1>12,
     <1>13, <1>14, <1>15, <1>16, <1>17, <1>18, <1>19, <1>20
  DEF Next, ScriptStep

\* Safe holds in every reachable state.
LEMMA SafeInvariant == Spec => [](Types /\ Safe)
<1>1. Init => Safe
  BY SuppAssumption
  DEF Init, Safe, LinksComplete, BuildsUnlinked, LinksInstalled,
      PassedLinked, PassedInstalled, BuildsOnce, StoppedEarly, Building, Linking
<1>2. Types /\ Safe /\ [Next]_vars => Safe'
  BY SafeStep
<1> QED
  BY <1>1, <1>2, TypesInvariant, PTL DEF Spec

\* The symbolic links lead to complete installations only, whichever commands
\* fail and wherever the script is killed, except where the user has deleted the
\* target of a link.
THEOREM LinksAreComplete == Spec => []LinkedIsComplete
<1>1. Safe => LinkedIsComplete
  BY DEF Safe, LinksComplete, LinkedIsComplete, Reliable
<1> QED
  BY <1>1, SafeInvariant, PTL

\* With the same exception an exit status of 0 means that all requested
\* components up to the first invalid name are linked in the wanted version.
THEOREM ExitZeroIsUsable == Spec => []ExitZeroMeansUsable
<1>1. Types /\ Safe => ExitZeroMeansUsable
  <2> SUFFICES ASSUME Types, Safe, step = "idle", status = 0,
                      NEW c \in ValidPrefix(request)
               PROVE  link[c] = version /\ (Reliable(c) => Usable(c))
    BY DEF ExitZeroMeansUsable
  <2>1. PICK n \in 1..Len(request) :
           c = request[n] /\ \A k \in 1..n : request[k] \in Components
    BY DEF ValidPrefix
  <2>2. pos \in Nat /\ Len(request) \in Nat
    BY DEF Types, TypeOK
  <2>3. n < pos
    BY <2>1, <2>2 DEF Types, TypeOK, Safe, StoppedEarly, This
  <2> QED
    BY <2>1, <2>2, <2>3, SuppAssumption
    DEF Types, TypeOK, Safe, PassedLinked, LinksComplete, Reliable
<1> QED
  BY <1>1, SafeInvariant, PTL

-----------------------------------------------------------------------------
(* The version in use.                                                     *)

\* What is being built is not in use: where the link leads to it, the directory was
\* missing when the build began.  Before the link is set there is none.
Aside ==
    /\ step \in Building /\ link[This] = version => inst[This][version] # "complete"
    /\ step = "ln" => link[This] = NoLink

LEMMA AsideStep ==
    ASSUME Types, Aside, [Next]_vars
    PROVE  Aside'
<1> USE SuppAssumption DEF Types, TypeOK, InBody, Building, Linking, Steps,
        DirStates, This, disk, Aside
<1>1. CASE Invoke \/ Finish \/ InvalidName \/ NoClang \/ Start \/ Skip \/ HwlocNeedsSmi
  BY <1>1 DEF Invoke, Finish, InvalidName, NoClang, Start, Skip, HwlocNeedsSmi, Exit,
              Continue, NextComponent
<1>2. CASE Rebuild
  BY <1>2 DEF Rebuild, Continue, AlreadyExists
<1>3. CASE Fetch \/ Make
  BY <1>3 DEF Fetch, Make, Continue
<1>4. CASE RmInstall \/ MkInstall
  BY <1>4 DEF RmInstall, MkInstall, Continue, SetInst
<1>5. CASE Install
  BY <1>5 DEF Install, Continue, SetInst
<1>6. CASE RmLink
  BY <1>6 DEF RmLink, Continue
<1>7. CASE Ln
  BY <1>7 DEF Ln, NextComponent
<1>8. CASE ToolMissing \/ Fault \/ RemoveInstall
  BY <1>8 DEF ToolMissing, Fault, RemoveInstall, Exit
<1>9. CASE UNCHANGED vars
  BY <1>9 DEF vars
<1> QED
  BY <1>1, <1>2, <1>3, <1>4, <1>5, <1>6, <1>7, <1>8, <1>9 DEF Next, ScriptStep

LEMMA AsideInvariant == Spec => []Aside
<1>1. Init => Aside
  BY DEF Init, Aside, Building
<1>2. Types /\ Aside /\ [Next]_vars => Aside'
  BY AsideStep
<1> QED
  BY <1>1, <1>2, TypesInvariant, PTL DEF Spec

\* Whatever is downloaded, built, interrupted or fails, the script takes a component
\* that can be used away only in the moment before it links another directory of it,
\* which is there.
THEOREM OldVersionStays == Spec => OnlyRelinkBreaks
<1> DEFINE Relinked ==
      \A c \in Components :
          Usable(c) /\ ~Usable(c)' =>
              \/ step = "rmlink" /\ c = This /\ inst'[c][version] # "none"
              \/ step = "idle"
<1>1. Types /\ Safe /\ Aside /\ [Next]_vars => [Relinked]_vars
  <2> SUFFICES ASSUME Types, LinksInstalled, Aside, Next, step # "idle",
                      NEW c \in Components, Usable(c), ~Usable(c)'
               PROVE  step = "rmlink" /\ c = This /\ inst'[c][version] # "none"
    BY DEF Safe
  <2>1. /\ inst \in [Components -> [Versions -> DirStates]]
        /\ link \in [Components -> Versions \cup {NoLink}] /\ NoLink \notin Versions
        /\ version \in Versions
        /\ link[c] # NoLink /\ inst[c][link[c]] = "complete"
    BY SuppAssumption DEF Types, TypeOK, Usable
  <2>2. step \in Building \cup Linking => This \in Components
    BY DEF Types, InBody, Building, Linking
  <2>3. ~(inst' = inst /\ link' = link)
    BY DEF Usable
  <2>4. ASSUME step \in Building, link' = link, NEW d, SetInst(d)
        PROVE  FALSE
    <3>1. c = This /\ link[c] = version
      BY <2>1, <2>2, <2>4 DEF SetInst, Usable
    <3> QED
      BY <2>1, <2>4, <3>1 DEF Aside
  <2>5. ~(RmInstall \/ MkInstall \/ Install \/ Fault)
    BY <2>3, <2>4 DEF RmInstall, MkInstall, Install, Fault, Building
  <2>6. ~Ln
    BY <2>1, <2>2 DEF Ln, Aside, Usable, Linking
  <2>7. CASE RmLink
    <3>1. step = "rmlink" /\ inst' = inst /\ link' = [link EXCEPT ![This] = NoLink]
      BY <2>7 DEF RmLink
    <3>2. c = This
      BY <2>1, <3>1 DEF Usable
    <3>3. inst[This][version] # "none"
      BY <3>1 DEF LinksInstalled, Linking
    <3> QED
      BY <3>1, <3>2, <3>3
  <2>8. ~(Finish \/ InvalidName \/ NoClang \/ Start \/ Skip \/ HwlocNeedsSmi \/ Rebuild
            \/ Fetch \/ Make \/ ToolMissing \/ Invoke \/ RemoveInstall)
    BY <2>3 DEF Finish, InvalidName, NoClang, Start, Skip, HwlocNeedsSmi, Rebuild, Fetch,
                Make, ToolMissing, Invoke, RemoveInstall, disk
  <2> QED
    BY <2>5, <2>6, <2>7, <2>8 DEF Next, ScriptStep
<1> QED
  BY <1>1, SafeInvariant, AsideInvariant, PTL DEF Spec, OnlyRelinkBreaks
=============================================================================
