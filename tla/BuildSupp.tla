----------------------------- MODULE BuildSupp ------------------------------
(***************************************************************************)
(* bin/build_supp.sh (and its alias build_prereq.sh): every component is    *)
(* built into $AOMP_SUPP/install/<cname>-<version>, and the symbolic link   *)
(* $AOMP_SUPP/<cname> is moved to that directory at the end.  The script is *)
(* invoked again and again, by hand and by build_aomp.sh, possibly after    *)
(* an update of the repository has changed the versions.  Any command may   *)
(* fail (runcmd then exits) and the script may be killed at any point; what *)
(* survives on disk decides what the next invocation does.                  *)
(***************************************************************************)
EXTENDS Integers, Sequences

CONSTANTS
    Components,     \* component names
    Versions,       \* the versions the script may name over its history
    Requests,       \* argument lists (sequences of names) used to invoke it
    HaveClang,      \* openmpi finds a clang executable
    PackageManager, \* "deb" or "rpm": what getrocmpackage unpacks
    MaxFaults,      \* bound: failed commands, kills and deletions
    NoLink

ASSUME SuppAssumption ==
    /\ HaveClang \in BOOLEAN
    /\ PackageManager \in {"deb", "rpm"}
    /\ MaxFaults \in Nat
    /\ Requests \subseteq Seq(STRING)
    /\ NoLink \notin Versions
    /\ "ninja" \in Components => "cmake" \in Components
    /\ "rocmsmilib" \in Components => "cmake" \in Components
    /\ "hwloc" \in Components => "rocmsmilib" \in Components

VARIABLES
    inst,     \* inst[c][v]: the directory install/c-v
    link,     \* link[c]: the version $AOMP_SUPP/c points to
    step,     \* where the running invocation is, "idle" if none runs
    request,  \* its arguments
    pos,      \* position of $_component in the for loop over them
    version,  \* $_version, fixed by the checkout the invocation uses
    status,   \* exit status of the last invocation
    faults,
    removed   \* components whose link the user has left dangling

disk == <<inst, link, removed>>
vars == <<inst, link, step, request, pos, version, status, faults, removed>>

\* A directory is missing, there but not the result of a whole installation,
\* or complete.
DirStates == {"none", "partial", "complete"}
Steps == {"idle", "start", "check", "fetch", "rminstall", "mkinstall", "make",
          "install", "rmlink", "ln"}
Running == -1

\* buildrocmsmilib and buildhwloc configure before they touch the install
\* directory, the others after.
ConfiguresFirst == {"rocmsmilib", "hwloc"}

\* The components that call $AOMP_SUPP/cmake/bin/cmake.
UsesCmake == {"rocmsmilib", "ninja"}

\* Those that only unpack a ROCm package (getrocmpackage).
Packages == {"aqlprofile", "openclicdloader"}

Init ==
    /\ inst = [c \in Components |-> [v \in Versions |-> "none"]]
    /\ link = [c \in Components |-> NoLink]
    /\ step = "idle" /\ request = <<>> /\ pos = 1
    /\ version \in Versions
    /\ status = 0 /\ faults = 0 /\ removed = {}

This == request[pos]

\* $AOMP_SUPP/c resolves to a directory.
Resolves(c) == link[c] # NoLink /\ inst[c][link[c]] # "none"
Usable(c) == link[c] # NoLink /\ inst[c][link[c]] = "complete"

\* A file below $AOMP_SUPP/c is found for sure in a complete installation
\* and may or may not be there in a partial one.
FileFound(c, found) == IF Usable(c) THEN found ELSE found => Resolves(c)

SetInst(state) == inst' = [inst EXCEPT ![This][version] = state]

Exit(rc) == step' = "idle" /\ status' = rc /\ UNCHANGED <<request, version>>
Continue(next) ==
    step' = next /\ UNCHANGED <<request, pos, version, status, faults>>

-----------------------------------------------------------------------------
(* The main loop.                                                          *)

\* Mutant: the loop starts one before the first argument.
InvokeFromZero ==
    /\ step = "idle"
    /\ \E r \in Requests, v \in Versions :
          request' = r /\ version' = v
    /\ pos' = 0 /\ step' = "start" /\ status' = Running
    /\ UNCHANGED disk /\ UNCHANGED faults

Invoke ==
    /\ step = "idle"
    /\ \E r \in Requests, v \in Versions :
          request' = r /\ version' = v
    /\ pos' = 1 /\ step' = "start" /\ status' = Running
    /\ UNCHANGED disk /\ UNCHANGED faults

Finish ==
    /\ step = "start" /\ pos > Len(request)
    /\ Exit(0)
    /\ UNCHANGED disk /\ UNCHANGED <<pos, faults>>

\* An invalid name ends the whole invocation, with exit status 0.
InvalidName ==
    /\ step = "start" /\ pos <= Len(request) /\ This \notin Components
    /\ Exit(0)
    /\ UNCHANGED disk /\ UNCHANGED <<pos, faults>>

NoClang ==
    /\ step = "start" /\ pos <= Len(request) /\ This = "openmpi" /\ ~HaveClang
    /\ Exit(1)
    /\ UNCHANGED disk /\ UNCHANGED <<pos, faults>>

Start ==
    /\ step = "start" /\ pos <= Len(request) /\ This \in Components
    /\ This = "openmpi" => HaveClang
    /\ Continue("check")
    /\ UNCHANGED disk

NextComponent == pos' = pos + 1 /\ step' = "start"
                 /\ UNCHANGED <<request, version, status, faults>>

\* Mutants: the version of an existing link is not compared; existing
\* installations are always rebuilt.
SkipAnyVersion == Resolves(This)
NeverExists == FALSE

\* checkversion: the link is there, its target is a directory and the version
\* parsed from the target's name is the wanted one.
AlreadyExists == link[This] = version /\ inst[This][version] # "none"

Skip ==
    /\ step = "check" /\ AlreadyExists
    /\ NextComponent
    /\ UNCHANGED disk

\* Mutant: the test looks for a directory that is never there.
HwlocNeverFindsSmi ==
    /\ step = "check" /\ ~AlreadyExists /\ This = "hwloc"
    /\ Exit(1)
    /\ UNCHANGED disk /\ UNCHANGED <<pos, faults>>

\* hwloc wants a lib directory below rocmsmilib.
HwlocNeedsSmi ==
    /\ step = "check" /\ ~AlreadyExists /\ This = "hwloc"
    /\ FileFound("rocmsmilib", FALSE)
    /\ Exit(1)
    /\ UNCHANGED disk /\ UNCHANGED <<pos, faults>>

Rebuild ==
    /\ step = "check" /\ ~AlreadyExists
    /\ This = "hwloc" => FileFound("rocmsmilib", TRUE)
    /\ Continue("fetch")
    /\ UNCHANGED disk

-----------------------------------------------------------------------------
(* The steps every build function shares; each is a group of runcmd calls  *)
(* with the same effect on the disk when it fails.                         *)

\* Recreate the build directory, download, unpack; rocmsmilib and hwloc also
\* configure here.
Fetch ==
    /\ step = "fetch"
    /\ This \in ConfiguresFirst \cap UsesCmake => FileFound("cmake", TRUE)
    /\ Continue("rminstall")
    /\ UNCHANGED disk

RmInstall ==
    /\ step = "rminstall"
    /\ SetInst("none")
    /\ Continue("mkinstall")
    /\ UNCHANGED <<link, removed>>

\* Mutant: the link is moved before the installation, as soon as the
\* directory has been created.
MkInstallAndLink ==
    /\ step = "mkinstall"
    /\ SetInst("partial")
    /\ link' = [link EXCEPT ![This] = version]
    /\ Continue("make")
    /\ UNCHANGED removed

MkInstall ==
    /\ step = "mkinstall"
    /\ SetInst("partial")
    /\ Continue("make")
    /\ UNCHANGED <<link, removed>>

\* configure, make
Make ==
    /\ step = "make"
    /\ This \in UsesCmake \ ConfiguresFirst => FileFound("cmake", TRUE)
    /\ Continue("install")
    /\ UNCHANGED disk

\* make install, or the copy of the unpacked package: the exit status of
\* rpm2cpio | cpio is not looked at, so an rpm may have been unpacked in part.
Install ==
    /\ step = "install"
    /\ \E d \in {"partial", "complete"} :
          /\ d = "partial" => This \in Packages /\ PackageManager = "rpm"
          /\ SetInst(d)
    /\ Continue("rmlink")
    /\ UNCHANGED <<link, removed>>

RmLink ==
    /\ step = "rmlink"
    /\ link' = [link EXCEPT ![This] = NoLink]
    /\ Continue("ln")
    /\ UNCHANGED <<inst, removed>>

\* ln -sf, and "DONE: successful build" in the log.
Ln ==
    /\ step = "ln"
    /\ link' = [link EXCEPT ![This] = version]
    /\ removed' = removed \ {This}
    /\ NextComponent
    /\ UNCHANGED inst

-----------------------------------------------------------------------------
(* Faults.                                                                 *)

\* A missing tool makes its command fail, and runcmd exits.
ToolMissing ==
    /\ \/ step = "fetch" /\ This \in ConfiguresFirst \cap UsesCmake
       \/ step = "make" /\ This \in UsesCmake \ ConfiguresFirst
    /\ FileFound("cmake", FALSE)
    /\ Exit(127)
    /\ UNCHANGED disk /\ UNCHANGED <<pos, faults>>

\* A command fails or the script is killed.  An interrupted rm -rf leaves a
\* partial directory.
Fault ==
    /\ step # "idle" /\ faults < MaxFaults
    /\ Exit(1)
    /\ faults' = faults + 1
    /\ \/ UNCHANGED inst
       \/ /\ step = "rminstall" /\ inst[This][version] = "complete"
          /\ SetInst("partial")
    /\ UNCHANGED <<link, removed, pos>>

\* The user deletes an installation to free space or to force a rebuild;
\* checkversion expects that ("Missing existing_install_dir").
RemoveInstall ==
    /\ step = "idle" /\ faults < MaxFaults
    /\ \E c \in Components, v \in Versions :
          /\ inst[c][v] # "none"
          /\ inst' = [inst EXCEPT ![c][v] = "none"]
          /\ removed' = removed \cup {d \in {c} : link[d] = v}
    /\ faults' = faults + 1
    /\ UNCHANGED <<link, step, request, pos, version, status>>

ScriptStep ==
    \/ Finish \/ InvalidName \/ NoClang \/ Start \/ Skip \/ HwlocNeedsSmi
    \/ Rebuild \/ Fetch \/ RmInstall \/ MkInstall \/ Make \/ Install
    \/ RmLink \/ Ln \/ ToolMissing

Next == Invoke \/ ScriptStep \/ Fault \/ RemoveInstall

Spec == Init /\ [][Next]_vars

\* The script makes progress; a user who needs the components invokes it
\* again, sooner or later with each of the argument lists and versions.
FairSpec ==
    /\ Spec
    /\ WF_vars(ScriptStep)
    /\ \A r \in Requests, v \in Versions :
          SF_vars(Invoke /\ request' = r /\ version' = v)

-----------------------------------------------------------------------------
(* Properties.                                                             *)

TypeOK ==
    /\ inst \in [Components -> [Versions -> DirStates]]
    /\ link \in [Components -> Versions \cup {NoLink}]
    /\ step \in Steps
    /\ request \in Seq(STRING)
    /\ pos \in 1..(Len(request) + 1)
    /\ version \in Versions
    /\ status \in {Running, 0, 1, 127}
    /\ faults \in 0..MaxFaults
    /\ removed \subseteq Components

\* Components that are not unpacked by rpm2cpio | cpio, and that the user has
\* not deleted behind a link.
Reliable(c) == (c \in Packages => PackageManager = "deb") /\ c \notin removed

\* "$AOMP_SUPP/<cname>: symbolic link to last install directory".  Whatever
\* fails and whenever the script is killed, a link leads to a complete
\* installation, so that scripts that find a component through it can use it.
LinkedIsComplete ==
    \A c \in Components : Reliable(c) /\ link[c] # NoLink => Usable(c)

\* The components of a request before its first invalid name.
ValidPrefix(r) ==
    {r[n] : n \in {m \in 1..Len(r) : \A k \in 1..m : r[k] \in Components}}

\* An exit status of 0, which build_aomp.sh relies on, means that every
\* component up to the first invalid name is linked in the wanted version and
\* usable.
ExitZeroMeansUsable ==
    step = "idle" /\ status = 0 =>
        \A c \in ValidPrefix(request) :
            link[c] = version /\ (Reliable(c) => Usable(c))

\* A step of the script takes a usable component away only by moving its
\* link: while a new version is downloaded and built, and when that fails,
\* the previous version stays in place.
OnlyRelinkBreaks ==
    [][\A c \in Components :
          Usable(c) /\ ~Usable(c)' =>
              \/ step = "rmlink" /\ c = This /\ inst'[c][version] # "none"
              \/ step = "idle"]_vars

\* Interrupted builds are repaired by invoking the script again: each requested
\* component that can be built at all is usable again and again, unless a link
\* is left dangling by the user.  (Such a link may lead to the remains of a
\* failed rebuild later, which checkversion takes for the installation.)
RerunsRepair ==
    \A r \in Requests : \A c \in ValidPrefix(r) :
        \/ c = "openmpi" /\ ~HaveClang
        \/ c \in Packages /\ PackageManager = "rpm"
        \/ []<>(Usable(c) \/ removed # {})
=============================================================================
