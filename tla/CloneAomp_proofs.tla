-------------------------- MODULE CloneAomp_proofs --------------------------
(***************************************************************************)
(* Proofs about CloneAomp for every set of repositories and manifests, any  *)
(* number of invocations, and any number of faults, edits and changes       *)
(* upstream.                                                               *)
(***************************************************************************)
EXTENDS CloneAomp, CountingLemmas

-----------------------------------------------------------------------------
(* The parser.                                                             *)

\* The last of some fields is one of them.
LEMMA LastIsOne ==
    ASSUME NEW n \in Nat, NEW I \in SUBSET (1..n), I # {}
    PROVE  Max(I) \in I
<1> DEFINE Back == {n - i : i \in I}
<1>1. Back \in SUBSET Nat /\ Back # {}
  <2>1. \A i \in I : n - i \in Nat
    OBVIOUS
  <2> QED
    BY <2>1
<1> HIDE DEF Back
<1>2. PICK m \in Back : \A k \in Back : m <= k
  BY <1>1, LeastNumber
<1>3. PICK i \in I : m = n - i
  BY <1>2 DEF Back
<1>4. \A k \in I : n - k \in Back
  BY DEF Back
<1>5. \A k \in I : i >= k
  BY <1>2, <1>3, <1>4
<1> QED
  BY <1>3, <1>5 DEF Max

\* A line yields references; if it has one of its own, what it yields does not depend
\* on the line before.
LEMMA ParseType ==
    ASSUME NEW refs \in Seq(Attributes), NEW branch \in Refs \cup {NoRef}
    PROVE  /\ Parse(refs, branch).branch \in Refs \cup {NoRef}
           /\ Parse(refs, branch).key \in Refs \cup {NoRef}
           /\ refs # <<>> => Parse(refs, branch) = Parse(refs, NoRef)
                             /\ Parse(refs, branch).branch \in Refs
<1> DEFINE Pins == {i \in DOMAIN refs : /\ refs[i][1] = "revision"
                                        /\ \E j \in 1..(i - 1) : refs[j][1] = "upstream"}
<1>1. /\ Len(refs) \in Nat /\ DOMAIN refs = 1..Len(refs)
      /\ \A i \in DOMAIN refs : refs[i][2] \in Refs
  BY DEF Attributes
<1>2. /\ Pins \in SUBSET (1..Len(refs)) /\ DOMAIN refs \ Pins \in SUBSET (1..Len(refs))
      /\ 1 \notin Pins
  BY <1>1
<1>3. ASSUME NEW b
      PROVE  /\ Parse(refs, b) = [branch |-> LastField(refs, DOMAIN refs \ Pins, b),
                                  key    |-> LastField(refs, Pins, NoRef)]
             /\ Parse(refs, b).branch = LastField(refs, DOMAIN refs \ Pins, b)
             /\ Parse(refs, b).key = LastField(refs, Pins, NoRef)
  BY DEF Parse
<1> HIDE DEF Pins
<1>4. \A I \in SUBSET (1..Len(refs)) : I # {} => \A b : LastField(refs, I, b) = refs[Max(I)][2]
                                                       /\ LastField(refs, I, b) \in Refs
  BY <1>1, LastIsOne DEF LastField
<1>5. \A b : LastField(refs, {}, b) = b
  BY DEF LastField
<1>6. refs # <<>> => DOMAIN refs \ Pins # {}
  BY <1>1, <1>2
<1>7. /\ Parse(refs, branch).branch = LastField(refs, DOMAIN refs \ Pins, branch)
      /\ Parse(refs, branch).key = LastField(refs, Pins, NoRef)
  BY <1>3
<1>8. /\ LastField(refs, DOMAIN refs \ Pins, branch) \in Refs \cup {NoRef}
      /\ LastField(refs, Pins, NoRef) \in Refs \cup {NoRef}
  BY <1>2, <1>4, <1>5
<1>9. ASSUME refs # <<>>
      PROVE  /\ LastField(refs, DOMAIN refs \ Pins, branch)
                   = LastField(refs, DOMAIN refs \ Pins, NoRef)
             /\ LastField(refs, DOMAIN refs \ Pins, branch) \in Refs
  BY <1>2, <1>4, <1>6, <1>9
<1> QED
  BY <1>3, <1>7, <1>8, <1>9

-----------------------------------------------------------------------------
(* Types.                                                                  *)

Body == {"clone", "stash", "pull", "checkout", "again", "pin"}
CloneType ==
    [state : {"none", "partial", "cloned"}, single : BOOLEAN,
     cur : Refs \cup {NoRef}, local : [Branches -> Commits],
     tracked : [Branches -> Commits], dirty : BOOLEAN, stashed : 0..MaxEdits]

EnvOK ==
    /\ upstream \in [Repos -> [Branches -> Commits]] /\ changes \in 0..MaxChanges
    /\ \A r \in Repos, b \in Branches : upstream[r][b] <= changes + 1
    /\ manifest \in Manifests /\ option \in Options \cup {NoOption}
    /\ before \in [Repos -> [Branches -> Commits]]

\* Inside clone_or_pull the line is one the script acts on.
PlaceOK ==
    /\ step \in Steps /\ line \in 1..(Len(manifest) + 1)
    /\ cobranch \in Refs \cup {NoRef} /\ coshakey \in Refs \cup {NoRef}
    /\ status \in {Running, 0, 1, Killed} /\ faults \in 0..MaxFaults
    /\ step = "idle" => line = 1
    /\ step # "idle" => status = Running
    /\ step \in Body => line <= Len(manifest) /\ IsGood(This)

\* Only a repository can have local work.
ClonesOK ==
    /\ clone \in [Repos -> CloneType]
    /\ \A r \in Repos : /\ Work(clone[r]) <= MaxEdits
                        /\ clone[r].state # "cloned" => Work(clone[r]) = 0
    /\ step = "clone" => Clone.state = "none"

Types == EnvOK /\ PlaceOK /\ ClonesOK

\* The line at hand.
LEMMA ThisLine ==
    ASSUME EnvOK, PlaceOK
    PROVE  /\ Len(manifest) \in Nat /\ line \in Nat \ {0}
           /\ line <= Len(manifest) => /\ line \in 1..Len(manifest)
                                       /\ This \in Lines /\ This.refs \in Seq(Attributes)
                                       /\ IsGood(This) => Repo \in Repos
<1>1. manifest \in Seq(Lines)
  BY CloneAssumption DEF EnvOK
<1>2. Len(manifest) \in Nat /\ line \in 1..(Len(manifest) + 1)
  BY <1>1 DEF PlaceOK
<1>3. ASSUME line <= Len(manifest)
      PROVE  /\ line \in 1..Len(manifest)
             /\ This \in Lines /\ This.refs \in Seq(Attributes)
             /\ IsGood(This) => Repo \in Repos
  <2>1. line \in 1..Len(manifest)
    BY <1>2, <1>3
  <2>2. This \in Lines
    BY <1>1, <2>1 DEF This
  <2> QED
    BY <2>1, <2>2 DEF Lines, Repo, IsGood
<1> QED
  BY <1>2, <1>3

-----------------------------------------------------------------------------
(* What git does to a clone.                                               *)

LEMMA PullEffect ==
    ASSUME Types, step \in Body, NEW c \in CloneType
    PROVE  /\ Pulled(c) \in CloneType
           /\ Pulled(c).state = c.state /\ Pulled(c).single = c.single
           /\ Pulled(c).cur = c.cur /\ Work(Pulled(c)) = Work(c)
           /\ PullWorks(c) => /\ c.state = "cloned" /\ c.cur \in Branches
                              /\ upstream[Repo][c.cur] # 0
                              /\ Pulled(c).local[c.cur] = upstream[Repo][c.cur]
<1>1. Repo \in Repos
  BY ThisLine DEF Types, PlaceOK
<1>2. upstream[Repo] \in [Branches -> Commits]
  BY <1>1 DEF Types, EnvOK
<1>3. Fetched(c) \in [Branches -> Commits]
  BY <1>2 DEF Fetched, CloneType
<1>4. ASSUME PullWorks(c)
      PROVE  c.cur \in Branches /\ c.state = "cloned" /\ upstream[Repo][c.cur] # 0
                /\ upstream[Repo][c.cur] \in Commits
  BY <1>2, <1>4 DEF PullWorks, Detached
<1>5. CASE c.state # "cloned"
  BY <1>4, <1>5 DEF Pulled
<1>6. CASE c.state = "cloned" /\ ~PullWorks(c)
  <2>1. Pulled(c) = [c EXCEPT !.tracked = Fetched(c)]
    BY <1>6 DEF Pulled
  <2> QED
    BY <1>3, <1>6, <2>1 DEF CloneType, Work
<1>7. CASE c.state = "cloned" /\ PullWorks(c)
  <2>1. Pulled(c) = [c EXCEPT !.tracked = Fetched(c),
                              !.local[c.cur] = upstream[Repo][c.cur]]
    BY <1>7 DEF Pulled
  <2>2. [c.local EXCEPT ![c.cur] = upstream[Repo][c.cur]] \in [Branches -> Commits]
    BY <1>4, <1>7 DEF CloneType
  <2>3. /\ Pulled(c).state = c.state /\ Pulled(c).single = c.single
        /\ Pulled(c).cur = c.cur /\ Work(Pulled(c)) = Work(c)
    BY <2>1 DEF CloneType, Work
  <2>4. Pulled(c) \in CloneType
    BY <1>3, <2>1, <2>2 DEF CloneType
  <2>5. Pulled(c).local[c.cur] = upstream[Repo][c.cur]
    BY <1>4, <1>7, <2>1 DEF CloneType
  <2> QED
    BY <1>4, <1>7, <2>3, <2>4, <2>5
<1> QED
  BY <1>5, <1>6, <1>7

LEMMA CheckoutEffect ==
    ASSUME NEW c \in CloneType, NEW ref, CheckoutWorks(c, ref)
    PROVE  /\ ref \in Refs /\ CheckedOut(c, ref) \in CloneType
           /\ CheckedOut(c, ref).state = c.state /\ CheckedOut(c, ref).single = c.single
           /\ CheckedOut(c, ref).cur = ref /\ Work(CheckedOut(c, ref)) = Work(c)
           /\ \A b \in Branches : c.local[b] # 0 => CheckedOut(c, ref).local[b] = c.local[b]
<1>1. ref \in Refs
  BY DEF CheckoutWorks, Refs
<1>2. CASE ref \in Branches /\ c.local[ref] = 0
  <2>1. CheckedOut(c, ref) = [c EXCEPT !.cur = ref, !.local[ref] = c.tracked[ref]]
    BY <1>2 DEF CheckedOut
  <2>2. [c.local EXCEPT ![ref] = c.tracked[ref]] \in [Branches -> Commits]
    BY <1>2 DEF CloneType
  <2>3. CheckedOut(c, ref) \in CloneType
    BY <1>1, <2>1, <2>2 DEF CloneType
  <2>4. \A b \in Branches : c.local[b] # 0 => CheckedOut(c, ref).local[b] = c.local[b]
    BY <1>2, <2>1 DEF CloneType
  <2> QED
    BY <1>1, <2>1, <2>3, <2>4 DEF CloneType, Work
<1>3. CASE ~(ref \in Branches /\ c.local[ref] = 0)
  <2>1. CheckedOut(c, ref) = [c EXCEPT !.cur = ref]
    BY <1>3 DEF CheckedOut
  <2> QED
    BY <1>1, <2>1 DEF CloneType, Work
<1> QED
  BY <1>2, <1>3

LEMMA CloneEffect ==
    ASSUME Types, step \in Body, cobranch \in Refs
    PROVE  /\ NewClone \in CloneType
           /\ NewClone.state = "cloned" /\ NewClone.cur = cobranch /\ Work(NewClone) = 0
           /\ cobranch \in Branches => NewClone.local[cobranch] = upstream[Repo][cobranch]
<1>1. Repo \in Repos /\ option.single \in BOOLEAN
  <2>1. Repo \in Repos
    BY ThisLine DEF Types, PlaceOK
  <2>2. option \in [ignore : BOOLEAN, single : BOOLEAN]
    <3>1. Options \subseteq [ignore : BOOLEAN, single : BOOLEAN]
      BY CloneAssumption
    <3>2. NoOption \in [ignore : BOOLEAN, single : BOOLEAN]
      BY DEF NoOption
    <3> QED
      BY <3>1, <3>2 DEF Types, EnvOK
  <2> QED
    BY <2>1, <2>2
<1>2. upstream[Repo] \in [Branches -> Commits] /\ 0 \in Commits /\ 0 \in 0..MaxEdits
  BY <1>1, CloneAssumption DEF Types, EnvOK, Commits
<1> DEFINE here == IF option.single THEN {cobranch} ELSE Branches
           heads == [b \in Branches |-> IF b \in here THEN upstream[Repo][b] ELSE 0]
           own == [b \in Branches |-> IF b = cobranch THEN heads[b] ELSE 0]
<1>3. heads \in [Branches -> Commits] /\ own \in [Branches -> Commits]
  BY <1>2
<1>4. cobranch \in Branches => own[cobranch] = upstream[Repo][cobranch]
  OBVIOUS
<1>5. NewClone = [state |-> "cloned", single |-> option.single, cur |-> cobranch,
                  local |-> own, tracked |-> heads, dirty |-> FALSE, stashed |-> 0]
  <2>1. NewClone = [NoClone EXCEPT !.state = "cloned", !.single = option.single,
                                   !.cur = cobranch, !.tracked = heads, !.local = own]
    BY DEF NewClone
  <2> HIDE DEF here, heads, own
  <2> QED
    BY <2>1 DEF NoClone
<1> HIDE DEF here, heads, own
<1> QED
  BY <1>1, <1>2, <1>3, <1>4, <1>5 DEF CloneType, Work
-----------------------------------------------------------------------------
(* Types are kept.                                                         *)

\* The clone at hand.
LEMMA AtCommand ==
    ASSUME Types, step \in Body
    PROVE  /\ Repo \in Repos /\ Clone = clone[Repo] /\ Clone \in CloneType
           /\ line \in 1..Len(manifest) /\ This \in Lines /\ IsGood(This)
           /\ Work(Clone) \in 0..MaxEdits /\ (Clone.state # "cloned" => Work(Clone) = 0)
<1>1. Repo \in Repos /\ line \in 1..Len(manifest) /\ This \in Lines /\ IsGood(This)
  BY ThisLine DEF Types, PlaceOK
<1>2. Clone = clone[Repo] /\ Clone \in CloneType
  BY <1>1 DEF Clone, Types, ClonesOK
<1>3. Work(Clone) \in Nat
  <2>1. Clone.stashed \in Nat
    BY <1>2, CloneAssumption DEF CloneType
  <2> QED
    BY <2>1 DEF Work
<1>4. Work(Clone) <= MaxEdits /\ (Clone.state # "cloned" => Work(Clone) = 0)
  BY <1>1, <1>2 DEF Types, ClonesOK
<1>5. MaxEdits \in Nat
  BY CloneAssumption
<1> QED
  BY <1>1, <1>2, <1>3, <1>4, <1>5

\* The git commands of a line.
GitStep == Stash \/ Pull \/ Checkout \/ PullAgain \/ GitClone \/ Pin

\* Where a command leads: on inside the line, to the next line, or out.
OnTo(next) == Succeeded(next) /\ next \in Body \ {"clone", "stash"}
Out == (\E rc \in {1, Killed} : Exit(rc)) /\ good' = FALSE
ToNext == NextLine /\ step = "pin"
          /\ UNCHANGED <<option, cobranch, coshakey, status, before, good>>

\* A pull leads to its next step or out.
LEMMA PullControl ==
    ASSUME NEW next \in Body \ {"clone", "stash"}, GitPull(next)
    PROVE  (OnTo(next) \/ Out) /\ (UNCHANGED faults \/ Fault)
BY DEF GitPull, Failed, Succeeded, OnTo, Out

LEMMA CommandControl ==
    ASSUME GitStep
    PROVE  /\ step \in Body /\ UNCHANGED env
           /\ (\E next \in Body : OnTo(next)) \/ Out \/ ToNext
           /\ UNCHANGED faults \/ Fault
<1>1. CASE Stash
  BY <1>1 DEF Stash, OnTo, Body
<1>2. CASE Pull
  <2>1. GitPull("checkout") /\ "checkout" \in Body \ {"clone", "stash"} /\ step = "pull"
    BY <1>2 DEF Pull, Body
  <2>2. (OnTo("checkout") \/ Out) /\ (UNCHANGED faults \/ Fault)
    BY <2>1, PullControl
  <2> QED
    BY <1>2, <2>1, <2>2 DEF Pull, Body
<1>3. CASE Checkout
  BY <1>3 DEF Checkout, Failed, OnTo, Out, Body
<1>4. CASE PullAgain
  <2>1. GitPull("pin") /\ "pin" \in Body \ {"clone", "stash"} /\ step = "again"
    BY <1>4 DEF PullAgain, Body
  <2>2. (OnTo("pin") \/ Out) /\ (UNCHANGED faults \/ Fault)
    BY <2>1, PullControl
  <2> QED
    BY <1>4, <2>1, <2>2 DEF PullAgain, Body
<1>5. CASE GitClone
  BY <1>5 DEF GitClone, CloneFails, OnTo, Out, Body
<1>6. CASE Pin
  BY <1>6 DEF Pin, ToNext, Body
<1> QED
  BY <1>1, <1>2, <1>3, <1>4, <1>5, <1>6 DEF GitStep

\* A command leaves the clone at hand a clone, with all the local work in it, and
\* no other is touched.
Kept(c) ==
    /\ c \in CloneType /\ Work(c) = Work(Clone)
    /\ Clone.state = "cloned" => c.state = "cloned"

LEMMA CommandKeeps ==
    ASSUME Types, GitStep
    PROVE  \E c \in CloneType : SetClone(c) /\ Kept(c)
<1>1. step \in Body
  BY CommandControl
<1>2. Repo \in Repos /\ Clone = clone[Repo] /\ Clone \in CloneType
  BY <1>1, AtCommand
<1>3. SetClone(Clone) <=> UNCHANGED clone
  <2>1. clone = [clone EXCEPT ![Repo] = Clone]
    BY <1>2 DEF Types, ClonesOK
  <2> QED
    BY <2>1 DEF SetClone
<1>4. Kept(Clone)
  BY <1>2 DEF Kept
<1>5. CASE Stash
  <2> DEFINE c == IF Clone.dirty
                  THEN [Clone EXCEPT !.dirty = FALSE, !.stashed = @ + 1] ELSE Clone
  <2>1. SetClone(c)
    BY <1>5 DEF Stash
  <2>2. Kept(c)
    <3>1. CASE Clone.dirty
      <4>1. c = [Clone EXCEPT !.dirty = FALSE, !.stashed = Clone.stashed + 1]
        BY <3>1
      <4>2. Clone.stashed \in 0..MaxEdits /\ MaxEdits \in Nat /\ Clone.stashed + 1 <= MaxEdits
        BY <1>1, <1>2, <3>1, AtCommand, CloneAssumption DEF Work, CloneType
      <4> HIDE DEF c
      <4>3. /\ c \in CloneType /\ c.dirty = FALSE /\ c.stashed = Clone.stashed + 1
            /\ c.state = Clone.state
        <5> DEFINE more == Clone.stashed + 1
        <5>1. more \in 0..MaxEdits
          BY <4>2
        <5>2. c = [Clone EXCEPT !.dirty = FALSE, !.stashed = more]
          BY <4>1
        <5> HIDE DEF more
        <5>3. c \in CloneType /\ c.dirty = FALSE /\ c.stashed = more /\ c.state = Clone.state
          BY <1>2, <5>1, <5>2 DEF CloneType
        <5> QED
          BY <5>3 DEF more
      <4>4. Work(Clone) = Clone.stashed + 1 /\ Work(c) = Clone.stashed + 1
        BY <3>1, <4>2, <4>3 DEF Work
      <4> QED
        BY <4>3, <4>4 DEF Kept
    <3> QED
      BY <1>4, <3>1
  <2> QED
    BY <2>1, <2>2 DEF Kept
<1>6. ASSUME NEW next, GitPull(next)
      PROVE  \E c \in CloneType : SetClone(c) /\ Kept(c)
  <2>1. Kept(Pulled(Clone))
    BY <1>1, <1>2, PullEffect DEF Kept
  <2> QED
    BY <1>3, <1>4, <1>6, <2>1 DEF GitPull, Kept
<1>7. \A ref : CheckoutWorks(Clone, ref) => Kept(CheckedOut(Clone, ref))
  BY <1>2, CheckoutEffect DEF Kept
<1>8. CASE Checkout
  <2>1. \/ CheckoutWorks(Clone, cobranch) /\ SetClone(CheckedOut(Clone, cobranch))
        \/ UNCHANGED clone
    BY <1>8 DEF Checkout
  <2> QED
    BY <1>3, <1>4, <1>7, <2>1 DEF Kept
<1>9. CASE GitClone
  <2>1. \/ cobranch \in Refs /\ SetClone(NewClone)
        \/ UNCHANGED clone
    BY <1>9 DEF GitClone, Refs
  <2>2. cobranch \in Refs => Kept(NewClone)
    <3>1. step = "clone" /\ Clone.state = "none" /\ Work(Clone) = 0
      BY <1>1, <1>9, AtCommand DEF GitClone, Types, ClonesOK
    <3> QED
      BY <1>1, <3>1, CloneEffect DEF Kept
  <2> QED
    BY <1>3, <1>4, <2>1, <2>2 DEF Kept
<1>10. CASE Pin
  <2>1. \/ CheckoutWorks(Clone, coshakey) /\ SetClone(CheckedOut(Clone, coshakey))
        \/ SetClone(Clone)
    BY <1>10 DEF Pin
  <2> QED
    BY <1>3, <1>4, <1>7, <2>1 DEF Kept
<1> QED
  BY <1>5, <1>6, <1>8, <1>9, <1>10 DEF GitStep, Pull, PullAgain

LEMMA TypesInit == Init => Types
<1> SUFFICES ASSUME Init PROVE Types
  OBVIOUS
<1>1. /\ MaxChanges \in Nat /\ MaxFaults \in Nat /\ MaxEdits \in Nat
      /\ 0 \in Commits /\ 1 \in Commits
  BY CloneAssumption DEF Commits
<1>2. EnvOK
  BY <1>1 DEF Init, EnvOK, NoBranches
<1>3. PlaceOK
  <2>1. Len(manifest) \in Nat
    BY CloneAssumption DEF Init
  <2> QED
    BY <1>1, <2>1 DEF Init, PlaceOK, Steps, Body
<1>4. ClonesOK
  <2>1. NoClone \in CloneType /\ NoClone.state = "none"
    BY <1>1 DEF NoClone, NoBranches, CloneType
  <2>2. Work(NoClone) = 0
    BY DEF Work, NoClone
  <2>3. \A r \in Repos : clone[r] = NoClone
    BY DEF Init
  <2>4. clone \in [Repos -> CloneType] /\ step # "clone"
    BY <2>1 DEF Init
  <2> QED
    BY <1>1, <2>1, <2>2, <2>3, <2>4 DEF ClonesOK
<1> QED
  BY <1>2, <1>3, <1>4 DEF Types

LEMMA EnvStep ==
    ASSUME Types, Next
    PROVE  EnvOK'
<1> USE DEF EnvOK
<1>0. /\ upstream \in [Repos -> [Branches -> Commits]] /\ manifest \in Manifests
      /\ before \in [Repos -> [Branches -> Commits]] /\ option \in Options \cup {NoOption}
      /\ changes \in 0..MaxChanges /\ MaxChanges \in Nat
      /\ \A r \in Repos, b \in Branches : upstream[r][b] <= changes + 1
  BY CloneAssumption DEF Types
<1>1. \A rc : Exit(rc) => before' \in [Repos -> [Branches -> Commits]]
                             /\ option' \in Options \cup {NoOption}
  <2>1. 0 \in Commits
    BY <1>0 DEF Commits
  <2> QED
    BY <2>1 DEF Exit, NoBranches
<1>2. ASSUME UNCHANGED env,
             \/ UNCHANGED <<option, before>>
             \/ \E rc : Exit(rc)
      PROVE  EnvOK'
  BY <1>0, <1>1, <1>2 DEF env
<1>3. CASE GitStep
  BY <1>2, <1>3, CommandControl DEF OnTo, Out, ToNext, Succeeded
<1>4. CASE ReadLine \/ AllDone
  BY <1>2, <1>4 DEF ReadLine, AllDone
<1>5. CASE Kill
  BY <1>2, <1>5 DEF Kill, CloneFails
<1>6. CASE Invoke
  BY <1>0, <1>6 DEF Invoke, env
<1>7. CASE Commit
  <2>1. PICK r \in Repos, b \in Branches :
          upstream' = [upstream EXCEPT ![r][b] = @ + 1]
    BY <1>7 DEF Commit
  <2>2. upstream[r] \in [Branches -> Commits] /\ upstream[r][b] + 1 \in Commits
    BY <1>0, <1>7 DEF Commit, Commits
  <2>3. upstream' = [upstream EXCEPT ![r] = [upstream[r] EXCEPT ![b] = upstream[r][b] + 1]]
    BY <2>1
  <2>4. [upstream[r] EXCEPT ![b] = upstream[r][b] + 1] \in [Branches -> Commits]
    BY <2>2
  <2>5. upstream' \in [Repos -> [Branches -> Commits]]
    BY <1>0, <2>3, <2>4
  <2>6. \A q \in Repos, a \in Branches :
          upstream'[q][a] = IF q = r /\ a = b THEN upstream[q][a] + 1 ELSE upstream[q][a]
    BY <1>0, <2>2, <2>3
  <2>7. changes' = changes + 1 /\ changes + 1 \in 0..MaxChanges
    BY <1>0, <1>7 DEF Commit
  <2>8. \A q \in Repos, a \in Branches : upstream[q][a] \in Nat
    BY <1>0 DEF Commits
  <2>9. \A q \in Repos, a \in Branches : upstream'[q][a] <= changes' + 1
    BY <1>0, <2>6, <2>7, <2>8
  <2> QED
    BY <1>0, <1>7, <2>5, <2>7, <2>9 DEF Commit
<1>8. CASE DeleteBranch
  <2>1. PICK r \in Repos, b \in Branches : upstream' = [upstream EXCEPT ![r][b] = 0]
    BY <1>8 DEF DeleteBranch
  <2>2. upstream[r] \in [Branches -> Commits] /\ 0 \in Commits
    BY <1>0 DEF Commits
  <2>3. upstream' = [upstream EXCEPT ![r] = [upstream[r] EXCEPT ![b] = 0]]
    BY <2>1
  <2>4. [upstream[r] EXCEPT ![b] = 0] \in [Branches -> Commits]
    BY <2>2
  <2>5. upstream' \in [Repos -> [Branches -> Commits]]
    BY <1>0, <2>3, <2>4
  <2>6. \A q \in Repos, a \in Branches :
          upstream'[q][a] = IF q = r /\ a = b THEN 0 ELSE upstream[q][a]
    BY <1>0, <2>2, <2>3
  <2>7. changes' = changes + 1 /\ changes + 1 \in 0..MaxChanges
    BY <1>0, <1>8 DEF DeleteBranch
  <2>8. \A q \in Repos, a \in Branches : upstream[q][a] \in Nat
    BY <1>0 DEF Commits
  <2>9. \A q \in Repos, a \in Branches : upstream'[q][a] <= changes' + 1
    BY <1>0, <2>6, <2>7, <2>8
  <2> QED
    BY <1>0, <1>8, <2>5, <2>7, <2>9 DEF DeleteBranch
<1>9. CASE PullAomp
  BY <1>0, <1>9 DEF PullAomp
<1>10. CASE UserEdits \/ UserRemoves
  BY <1>0, <1>10 DEF UserEdits, UserRemoves, env
<1> QED
  BY <1>3, <1>4, <1>5, <1>6, <1>7, <1>8, <1>9, <1>10 DEF Next, ScriptStep, GitStep

LEMMA PlaceStep ==
    ASSUME Types, Next
    PROVE  PlaceOK'
<1> USE DEF PlaceOK
<1>1. /\ Len(manifest) \in Nat /\ line \in 1..(Len(manifest) + 1) /\ faults \in 0..MaxFaults
      /\ step \in Steps /\ cobranch \in Refs \cup {NoRef} /\ coshakey \in Refs \cup {NoRef}
      /\ status \in {Running, 0, 1, Killed} /\ MaxFaults \in Nat
      /\ step = "idle" => line = 1
      /\ step # "idle" => status = Running
      /\ step \in Body => line <= Len(manifest) /\ IsGood(This)
  BY ThisLine, CloneAssumption DEF Types
<1>2. Fault => faults' \in 0..MaxFaults
  BY <1>1 DEF Fault
<1>3. ASSUME Len(manifest') \in Nat, faults' \in 0..MaxFaults,
             NEW rc \in {0, 1, Killed}, Exit(rc)
      PROVE  PlaceOK'
  BY <1>3 DEF Exit, Steps, Body
<1>4. ASSUME UNCHANGED <<manifest, line, cobranch, coshakey, status>>,
             faults' \in 0..MaxFaults, step' = step \/ (step \in Body /\ step' \in Body)
      PROVE  PlaceOK'
  <2>1. This' = This
    BY <1>4 DEF This
  <2>2. Body \subseteq Steps /\ "idle" \notin Body
    BY DEF Body, Steps
  <2> QED
    BY <1>1, <1>4, <2>1, <2>2 DEF IsGood
<1>5. CASE GitStep
  <2>1. /\ step \in Body /\ manifest' = manifest /\ faults' \in 0..MaxFaults
    BY <1>1, <1>2, <1>5, CommandControl DEF env
  <2>2. CASE \E next \in Body : OnTo(next)
    BY <1>4, <2>1, <2>2 DEF OnTo, Succeeded, parser
  <2>3. CASE Out
    BY <1>1, <1>3, <2>1, <2>3 DEF Out
  <2>4. CASE ToNext
    BY <1>1, <2>1, <2>4 DEF ToNext, NextLine, Steps, Body
  <2> QED
    BY <1>5, <2>2, <2>3, <2>4, CommandControl
<1>6. CASE ReadLine
  <2>1. This \in Lines /\ This.refs \in Seq(Attributes)
    BY <1>6, ThisLine DEF ReadLine, Types
  <2>2. cobranch' \in Refs \cup {NoRef} /\ coshakey' \in Refs \cup {NoRef}
    BY <1>1, <1>6, <2>1, ParseType DEF ReadLine
  <2>3. manifest' = manifest /\ faults' = faults /\ status' = status /\ line <= Len(manifest)
    BY <1>6 DEF ReadLine, env
  <2>4. status = Running
    BY <1>1, <1>6 DEF ReadLine
  <2>5. CASE NextLine
    BY <1>1, <2>2, <2>3, <2>4, <2>5 DEF NextLine, Steps, Body
  <2>6. CASE IsGood(This) /\ line' = line /\ step' \in {"clone", "stash"}
    <3>1. This' = This /\ IsGood(This)
      BY <2>3, <2>6 DEF This
    <3> QED
      BY <1>1, <2>2, <2>3, <2>4, <2>6, <3>1 DEF Steps, Body, IsGood
  <2> QED
    BY <1>6, <2>5, <2>6 DEF ReadLine
<1>7. CASE AllDone
  BY <1>1, <1>3, <1>7 DEF AllDone, env
<1>8. CASE Kill
  <2>1. manifest' = manifest /\ Exit(Killed) /\ faults' \in 0..MaxFaults
    BY <1>2, <1>8 DEF Kill, env, CloneFails
  <2> QED
    BY <1>1, <1>3, <2>1
<1>9. CASE Invoke
  BY <1>1, <1>9 DEF Invoke, env, parser, Steps, Body
<1>10. CASE Commit \/ DeleteBranch \/ UserEdits \/ UserRemoves
  <2>1. UNCHANGED <<manifest, line, cobranch, coshakey, status, faults, step>>
    BY <1>10 DEF Commit, DeleteBranch, UserEdits, UserRemoves, env, parser
  <2> QED
    BY <1>1, <1>4, <2>1
<1>11. CASE PullAomp
  <2>1. manifest' \in Seq(Lines)
    BY <1>11, CloneAssumption DEF PullAomp
  <2>2. Len(manifest') \in Nat
    BY <2>1
  <2>3. /\ step = "idle" /\ line = 1
        /\ UNCHANGED <<step, line, cobranch, coshakey, status, faults>>
    BY <1>1, <1>11 DEF PullAomp, parser
  <2> QED
    BY <1>1, <2>2, <2>3 DEF Body
<1> QED
  BY <1>5, <1>6, <1>7, <1>8, <1>9, <1>10, <1>11 DEF Next, ScriptStep, GitStep

LEMMA ClonesStep ==
    ASSUME Types, Next
    PROVE  ClonesOK'
<1> USE DEF ClonesOK
<1>1. /\ clone \in [Repos -> CloneType] /\ MaxEdits \in Nat
      /\ \A r \in Repos : /\ Work(clone[r]) <= MaxEdits
                          /\ clone[r].state # "cloned" => Work(clone[r]) = 0
  BY CloneAssumption DEF Types
<1>2. ASSUME UNCHANGED clone, step' # "clone"
      PROVE  ClonesOK'
  BY <1>1, <1>2
<1>3. ASSUME NEW r \in Repos, NEW c \in CloneType, clone' = [clone EXCEPT ![r] = c],
             Work(c) <= MaxEdits, c.state # "cloned" => Work(c) = 0, step' # "clone"
      PROVE  ClonesOK'
  <2>1. \A q \in Repos : clone'[q] = IF q = r THEN c ELSE clone[q]
    BY <1>1, <1>3
  <2>2. clone' \in [Repos -> CloneType]
    BY <1>1, <1>3
  <2> QED
    BY <1>1, <1>3, <2>1, <2>2
<1>4. NoClone \in CloneType /\ Work(NoClone) = 0
  <2>1. 0 \in Commits /\ 0 \in 0..MaxEdits
    BY CloneAssumption DEF Commits
  <2> QED
    BY <2>1 DEF NoClone, NoBranches, CloneType, Work
<1>5. CASE GitStep
  <2>1. /\ step \in Body /\ Repo \in Repos
        /\ Work(Clone) <= MaxEdits /\ (Clone.state # "cloned" => Work(Clone) = 0)
    BY <1>5, CommandControl, AtCommand
  <2>2. PICK c \in CloneType : SetClone(c) /\ Kept(c)
    BY <1>5, CommandKeeps
  <2>3. step' # "clone"
    BY <1>5, CommandControl DEF OnTo, Out, ToNext, Succeeded, Exit, NextLine
  <2>4. clone' = [clone EXCEPT ![Repo] = c]
    BY <2>2 DEF SetClone
  <2>5. Work(c) <= MaxEdits /\ (c.state # "cloned" => Work(c) = 0)
    BY <2>1, <2>2 DEF Kept
  <2> HIDE DEF ClonesOK
  <2> QED
    BY <1>3, <2>1, <2>2, <2>3, <2>4, <2>5
<1>6. CASE ReadLine
  <2>1. UNCHANGED clone /\ manifest' = manifest
    BY <1>6 DEF ReadLine, env
  <2>2. CASE step' = "clone"
    <3>1. line' = line /\ Clone.state = "none"
      BY <1>6, <2>2 DEF ReadLine, NextLine
    <3>2. Clone' = Clone
      BY <2>1, <3>1 DEF Clone, Repo, This
    <3> QED
      BY <1>1, <2>1, <3>1, <3>2
  <2> QED
    BY <1>2, <2>1, <2>2
<1>7. CASE AllDone \/ Invoke \/ PullAomp
  BY <1>2, <1>7 DEF AllDone, Exit, Invoke, PullAomp
<1>8. CASE Kill
  <2>1. step' # "clone"
    BY <1>8 DEF Kill, CloneFails, Exit
  <2>2. CASE step = "clone" /\ SetClone([NoClone EXCEPT !.state = "partial"])
    <3> DEFINE c == [NoClone EXCEPT !.state = "partial"]
    <3>1. c \in CloneType /\ Work(c) = 0
      BY <1>4 DEF CloneType, Work
    <3>2. Repo \in Repos
      BY <2>2, AtCommand DEF Body
    <3>3. clone' = [clone EXCEPT ![Repo] = c]
      BY <2>2 DEF SetClone
    <3>4. Work(c) <= MaxEdits
      BY <1>1, <3>1
    <3> HIDE DEF c, ClonesOK
    <3> QED
      BY <1>3, <2>1, <3>1, <3>2, <3>3, <3>4
  <2> QED
    BY <1>2, <1>8, <2>1, <2>2 DEF Kill
<1>9. CASE Commit \/ DeleteBranch
  <2>1. UNCHANGED <<clone, manifest, line, step>>
    BY <1>9 DEF Commit, DeleteBranch, parser
  <2>2. Clone' = Clone
    BY <2>1 DEF Clone, Repo, This
  <2> QED
    BY <1>1, <2>1, <2>2 DEF Types
<1>10. CASE UserEdits
  <2>1. PICK r \in Repos : /\ clone[r].state = "cloned" /\ Work(clone[r]) < MaxEdits
                           /\ ~clone[r].dirty
                           /\ clone' = [clone EXCEPT ![r].dirty = TRUE]
    BY CloneAssumption, <1>10 DEF UserEdits
  <2> DEFINE c == [clone[r] EXCEPT !.dirty = TRUE]
  <2>2. clone[r] \in CloneType /\ clone[r].stashed \in 0..MaxEdits
    BY <1>1 DEF CloneType
  <2>3. c \in CloneType /\ c.state = "cloned" /\ c.stashed = clone[r].stashed /\ c.dirty
    BY <2>1, <2>2 DEF CloneType
  <2>4. clone' = [clone EXCEPT ![r] = c]
    BY <2>1
  <2>5. step' # "clone"
    BY <1>10 DEF UserEdits
  <2> HIDE DEF c, ClonesOK
  <2>6. Work(c) <= MaxEdits
    BY <1>1, <2>1, <2>2, <2>3 DEF Work
  <2> QED
    BY <1>3, <2>3, <2>4, <2>5, <2>6
<1>11. CASE UserRemoves
  <2>1. PICK r \in Repos : clone' = [clone EXCEPT ![r] = NoClone]
    BY <1>11 DEF UserRemoves
  <2>2. step' # "clone"
    BY <1>11 DEF UserRemoves
  <2>3. Work(NoClone) <= MaxEdits
    BY <1>1, <1>4
  <2> HIDE DEF ClonesOK
  <2> QED
    BY <1>3, <1>4, <2>1, <2>2, <2>3
<1> QED
  BY <1>5, <1>6, <1>7, <1>8, <1>9, <1>10, <1>11 DEF Next, ScriptStep, GitStep

LEMMA TypesStep == Types /\ [Next]_vars => Types'
<1>1. CASE Next
  BY <1>1, EnvStep, PlaceStep, ClonesStep DEF Types
<1>2. CASE UNCHANGED vars
  BY <1>2 DEF vars, Types, EnvOK, PlaceOK, ClonesOK, IsGood, This, Clone, Repo
<1> QED
  BY <1>1, <1>2

LEMMA TypesInv == Spec => []Types
BY TypesInit, TypesStep, PTL DEF Spec

\* Every variable keeps its type: in particular at most MaxEdits changes of a
\* developer are in a clone or in its stash, and inside clone_or_pull there is a line.
THEOREM TypeCorrect == Spec => []TypeOK
<1>1. Types => TypeOK
  <2> SUFFICES ASSUME Types PROVE TypeOK
    OBVIOUS
  <2> QED
    BY DEF Types, EnvOK, PlaceOK, ClonesOK, TypeOK, CloneType, Body
<1> QED
  BY <1>1, TypesInv, PTL

-----------------------------------------------------------------------------
(* Local work.                                                             *)

\* No step of the script, and nobody else, loses uncommitted changes: what a
\* developer had not committed when clone_aomp.sh came is in the clone or its stash.
THEOREM LocalWorkIsKept == Spec => KeepsLocalWork
<1> DEFINE Keeps == \A r \in Repos : Work(clone'[r]) >= Work(clone[r])
<1>1. ASSUME Types, [Next]_vars
      PROVE  Keeps
  <2>1. /\ clone \in [Repos -> CloneType] /\ MaxEdits \in Nat
        /\ \A r \in Repos : /\ clone[r].stashed \in Nat /\ Work(clone[r]) \in Nat
                            /\ clone[r].state # "cloned" => Work(clone[r]) = 0
    <3>1. /\ clone \in [Repos -> CloneType] /\ MaxEdits \in Nat
          /\ \A r \in Repos : clone[r].state # "cloned" => Work(clone[r]) = 0
      BY <1>1, CloneAssumption DEF Types, ClonesOK
    <3>2. \A r \in Repos : clone[r].stashed \in Nat
      BY <3>1 DEF CloneType
    <3>3. \A r \in Repos : Work(clone[r]) \in Nat
      BY <3>2 DEF Work
    <3> QED
      BY <3>1, <3>2, <3>3
  <2>2. ASSUME NEW r \in Repos, NEW c, clone' = [clone EXCEPT ![r] = c],
               Work(c) \in Nat, Work(c) >= Work(clone[r])
        PROVE  Keeps
    <3>1. \A q \in Repos : clone'[q] = IF q = r THEN c ELSE clone[q]
      BY <2>1, <2>2
    <3> QED
      BY <2>1, <2>2, <3>1
  <2>3. UNCHANGED clone => Keeps
    BY <2>1
  <2>4. CASE GitStep
    <3>1. Repo \in Repos /\ Clone = clone[Repo]
      BY <1>1, <2>4, CommandControl, AtCommand
    <3>2. PICK c \in CloneType : SetClone(c) /\ Kept(c)
      BY <1>1, <2>4, CommandKeeps
    <3>3. clone' = [clone EXCEPT ![Repo] = c] /\ Work(c) = Work(clone[Repo])
      BY <3>1, <3>2 DEF SetClone, Kept
    <3>4. Work(c) \in Nat /\ Work(c) >= Work(clone[Repo])
      BY <2>1, <3>1, <3>3
    <3> HIDE DEF Keeps
    <3> QED
      BY <2>2, <3>1, <3>3, <3>4
  <2>5. CASE Kill
    <3>1. CASE step = "clone" /\ SetClone([NoClone EXCEPT !.state = "partial"])
      <4> DEFINE c == [NoClone EXCEPT !.state = "partial"]
      <4>1. Work(c) = 0
        BY DEF Work, NoClone
      <4>2. Repo \in Repos /\ Work(clone[Repo]) = 0
        <5>1. Repo \in Repos /\ Clone = clone[Repo]
          BY <1>1, <3>1, AtCommand DEF Body
        <5>2. Clone.state = "none"
          BY <1>1, <3>1 DEF Types, ClonesOK
        <5> QED
          BY <2>1, <5>1, <5>2
      <4>3. clone' = [clone EXCEPT ![Repo] = c]
        BY <3>1 DEF SetClone
      <4>4. Work(c) \in Nat /\ Work(c) >= Work(clone[Repo])
        BY <4>1, <4>2
      <4> HIDE DEF c, Keeps
      <4> QED
        BY <2>2, <4>2, <4>3, <4>4
    <3> HIDE DEF Keeps
    <3> QED
      BY <2>3, <2>5, <3>1 DEF Kill
  <2>6. CASE UserEdits
    <3>1. PICK r \in Repos : clone' = [clone EXCEPT ![r].dirty = TRUE]
      BY CloneAssumption, <2>6 DEF UserEdits
    <3> DEFINE c == [clone[r] EXCEPT !.dirty = TRUE]
    <3>2. c.stashed = clone[r].stashed /\ c.dirty
      BY <2>1 DEF CloneType
    <3>3. clone' = [clone EXCEPT ![r] = c]
      BY <3>1
    <3> HIDE DEF c, Keeps
    <3>4. Work(c) \in Nat /\ Work(c) >= Work(clone[r])
      BY <2>1, <3>2 DEF Work
    <3> QED
      BY <2>2, <3>3, <3>4
  <2>7. CASE UserRemoves
    <3>1. PICK r \in Repos : clone[r].state = "partial" /\ clone' = [clone EXCEPT ![r] = NoClone]
      BY <2>7 DEF UserRemoves
    <3>2. Work(NoClone) = 0
      BY DEF Work, NoClone
    <3>3. Work(NoClone) \in Nat /\ Work(NoClone) >= Work(clone[r])
      BY <2>1, <3>1, <3>2
    <3> HIDE DEF Keeps
    <3> QED
      BY <2>2, <3>1, <3>3
  <2>8. CASE ReadLine \/ AllDone \/ Invoke \/ Commit \/ DeleteBranch \/ PullAomp \/ UNCHANGED vars
    <3>1. UNCHANGED clone
      BY <2>8 DEF ReadLine, AllDone, Invoke, Commit, DeleteBranch, PullAomp, vars
    <3> HIDE DEF Keeps
    <3> QED
      BY <2>3, <3>1
  <2> HIDE DEF Keeps
  <2> QED
    BY <1>1, <2>4, <2>5, <2>6, <2>7, <2>8 DEF Next, ScriptStep, GitStep
<1>2. Types /\ [Next]_vars => [Keeps]_vars
  BY <1>1
<1> QED
  BY <1>2, TypesInv, PTL DEF Spec, KeepsLocalWork

-----------------------------------------------------------------------------
(* Up to date.                                                             *)

\* The manifests of the repository: a line the script acts on has a reference, at
\* most a hash is pinned, and no two of these lines have the same path.
WellFormed ==
    \A m \in Manifests :
        /\ \A i, j \in 1..Len(m) :
              IsGood(m[i]) /\ IsGood(m[j]) /\ m[i].path = m[j].path => i = j
        /\ \A i \in 1..Len(m) :
              IsGood(m[i]) => /\ m[i].refs # <<>>
                              /\ Parse(m[i].refs, NoRef).key \in Hashes \cup {NoRef}

\* What a line asks for, whatever the lines before it say.
Own(i) == Parse(manifest[i].refs, NoRef)

\* COBRANCH and COSHAKEY are those of the line at hand.
Parsed == step \in Body => cobranch = Own(line).branch /\ coshakey = Own(line).key

\* While the script runs, upstream only goes on: a branch gets newer or is deleted,
\* and no branch is created.
Onward ==
    step # "idle" => \A r \in Repos, b \in Branches :
                        /\ upstream[r][b] # 0 => upstream[r][b] >= before[r][b]
                        /\ before[r][b] = 0 => upstream[r][b] = 0

\* The clone of r has of b what upstream had when the script began.
Newer(r, b) == b \in Branches => before[r][b] # 0 /\ clone[r].local[b] >= before[r][b]

OnRef(i) ==
    LET l == manifest[i]
        c == clone[l.path] IN
    \/ c.single /\ Wanted(l) \in Hashes
    \/ c.state = "cloned" /\ c.cur = Target(l) /\ Newer(l.path, Target(l))

\* With errors reported, the lines before this one have been brought on their
\* reference; so has the branch of this one, before the second pull and the pin.
Walked ==
    step # "idle" /\ ~option.ignore =>
        /\ \A i \in Listed : i < line => OnRef(i)
        /\ step = "again" => Clone.cur = cobranch
        /\ step = "pin" => /\ Clone.state = "cloned" /\ Clone.cur = cobranch
                           /\ Newer(Repo, cobranch)

\* A listed line.
LEMMA ListedLine ==
    ASSUME Types, WellFormed, NEW i \in Listed
    PROVE  /\ i \in 1..Len(manifest) /\ IsGood(manifest[i]) /\ manifest[i].path \in Repos
           /\ Own(i).branch \in Refs /\ Own(i).key \in Hashes \cup {NoRef}
           /\ \A b \in Refs \cup {NoRef} : Parse(manifest[i].refs, b) = Own(i)
           /\ Own(i).key # NoRef => Wanted(manifest[i]) = Own(i).key
           /\ Own(i).key = NoRef => Wanted(manifest[i]) = Own(i).branch
           /\ Target(manifest[i]) = IF Own(i).key \in {NoRef} \cup Missing THEN Own(i).branch
                                    ELSE Own(i).key
           /\ Wanted(manifest[i]) \in Branches => Target(manifest[i]) = Wanted(manifest[i])
           /\ Wanted(manifest[i]) \in Branches => Own(i).key = NoRef
           /\ \A j \in Listed : manifest[j].path = manifest[i].path => j = i
<1>1. /\ manifest \in Manifests /\ manifest \in Seq(Lines)
      /\ i \in 1..Len(manifest) /\ IsGood(manifest[i])
  BY CloneAssumption DEF Types, EnvOK, Listed
<1>2. /\ manifest[i].path \in Repos /\ manifest[i].refs \in Seq(Attributes)
  <2>1. manifest[i] \in Lines
    BY <1>1
  <2> QED
    BY <1>1, <2>1 DEF Lines, IsGood
<1>3. /\ manifest[i].refs # <<>> /\ Own(i).key \in Hashes \cup {NoRef}
      /\ \A j \in Listed : manifest[j].path = manifest[i].path => j = i
  BY <1>1 DEF WellFormed, Own, Listed
<1>4. \A b \in Refs \cup {NoRef} : /\ Parse(manifest[i].refs, b) = Own(i)
                                   /\ Parse(manifest[i].refs, b).branch \in Refs
  BY <1>2, <1>3, ParseType DEF Own
<1>5. Own(i).branch \in Refs
  BY <1>4
<1>6. /\ Own(i).key # NoRef => Wanted(manifest[i]) = Own(i).key
      /\ Own(i).key = NoRef => Wanted(manifest[i]) = Own(i).branch
  BY DEF Wanted, Own
<1>7. Wanted(manifest[i]) \in Branches => Own(i).key = NoRef
  BY <1>3, <1>6, CloneAssumption
<1>9. Target(manifest[i]) = IF Own(i).key \in {NoRef} \cup Missing THEN Own(i).branch
                           ELSE Own(i).key
  BY <1>6, CloneAssumption DEF Target, Own, Refs
<1>10. Wanted(manifest[i]) \in Branches => Target(manifest[i]) = Wanted(manifest[i])
  BY CloneAssumption DEF Target
<1> QED
  BY <1>1, <1>2, <1>3, <1>4, <1>5, <1>6, <1>7, <1>9, <1>10

LEMMA LineIsListed ==
    ASSUME Types, step \in Body
    PROVE  line \in Listed /\ Repo = manifest[line].path
BY AtCommand DEF Listed, This, Repo

LEMMA ParsedStep ==
    ASSUME Types, WellFormed, Parsed, [Next]_vars
    PROVE  Parsed'
<1>1. ASSUME UNCHANGED <<manifest, line, cobranch, coshakey>>, step \in Body
      PROVE  Parsed'
  BY <1>1 DEF Parsed, Own
<1>2. CASE GitStep
  <2>1. step \in Body /\ manifest' = manifest
    BY <1>2, CommandControl DEF env
  <2>2. CASE \E next \in Body : OnTo(next)
    BY <1>1, <2>1, <2>2 DEF OnTo, Succeeded, parser
  <2>3. CASE Out \/ ToNext
    BY <2>3 DEF Out, ToNext, Exit, NextLine, Parsed, Body
  <2> QED
    BY <1>2, <2>2, <2>3, CommandControl
<1>3. CASE ReadLine
  <2>1. CASE NextLine
    BY <2>1 DEF NextLine, Parsed, Body
  <2>2. CASE IsGood(This) /\ line' = line
    <3>1. line \in Listed
      <4>1. line \in 1..Len(manifest)
        BY <1>3, ThisLine DEF ReadLine, Types
      <4> QED
        BY <2>2, <4>1 DEF Listed, This
    <3>2. cobranch \in Refs \cup {NoRef}
      BY DEF Types, PlaceOK
    <3>3. Parse(This.refs, cobranch) = Own(line)
      BY <3>1, <3>2, ListedLine DEF This
    <3>4. cobranch' = Own(line).branch /\ coshakey' = Own(line).key /\ manifest' = manifest
      BY <1>3, <3>3 DEF ReadLine, env
    <3> QED
      BY <2>2, <3>4 DEF Parsed, Own
  <2> QED
    BY <1>3, <2>1, <2>2 DEF ReadLine
<1>4. CASE AllDone \/ Kill \/ Invoke \/ PullAomp \/ UserEdits \/ UserRemoves
  BY <1>4 DEF AllDone, Kill, CloneFails, Exit, Invoke, PullAomp, UserEdits, UserRemoves,
              Parsed, Body
<1>5. CASE Commit \/ DeleteBranch \/ UNCHANGED vars
  BY <1>5 DEF Commit, DeleteBranch, vars, parser, Parsed, Own
<1> QED
  BY <1>2, <1>3, <1>4, <1>5 DEF Next, ScriptStep, GitStep

LEMMA OnwardStep ==
    ASSUME Types, Onward, [Next]_vars
    PROVE  Onward'
<1>0. /\ upstream \in [Repos -> [Branches -> Commits]]
      /\ before \in [Repos -> [Branches -> Commits]]
      /\ \A r \in Repos, b \in Branches : upstream[r][b] \in Nat /\ before[r][b] \in Nat
  <2>1. /\ upstream \in [Repos -> [Branches -> Commits]]
        /\ before \in [Repos -> [Branches -> Commits]]
    BY DEF Types, EnvOK
  <2> QED
    BY <2>1 DEF Commits
<1>1. ASSUME UNCHANGED <<upstream, before>>, step # "idle"
      PROVE  Onward'
  BY <1>1 DEF Onward
<1>2. step' = "idle" => Onward'
  BY DEF Onward
<1>3. CASE GitStep
  <2>1. step \in Body /\ upstream' = upstream
    BY <1>3, CommandControl DEF env
  <2>2. CASE (\E next \in Body : OnTo(next)) \/ ToNext
    BY <1>1, <2>1, <2>2 DEF OnTo, ToNext, Succeeded, Body
  <2>3. CASE Out
    BY <1>2, <2>3 DEF Out, Exit
  <2> QED
    BY <1>3, <2>2, <2>3, CommandControl
<1>4. CASE ReadLine
  BY <1>1, <1>4 DEF ReadLine, env
<1>5. CASE AllDone \/ Kill \/ PullAomp \/ UserEdits \/ UserRemoves
  BY <1>2, <1>5 DEF AllDone, Kill, CloneFails, Exit, PullAomp, UserEdits, UserRemoves
<1>6. CASE Invoke
  BY <1>0, <1>6 DEF Invoke, Onward, env
<1>7. CASE Commit
  <2>1. PICK r \in Repos, b \in Branches :
          upstream[r][b] # 0 /\ upstream' = [upstream EXCEPT ![r][b] = @ + 1]
    BY <1>7 DEF Commit
  <2>2. \A q \in Repos, a \in Branches :
          upstream'[q][a] = IF q = r /\ a = b THEN upstream[q][a] + 1 ELSE upstream[q][a]
    BY <1>0, <2>1
  <2>3. before' = before /\ step' = step
    BY <1>7 DEF Commit
  <2> QED
    BY <1>0, <2>1, <2>2, <2>3 DEF Onward
<1>8. CASE DeleteBranch
  <2>1. PICK r \in Repos, b \in Branches : upstream' = [upstream EXCEPT ![r][b] = 0]
    BY <1>8 DEF DeleteBranch
  <2>2. \A q \in Repos, a \in Branches :
          upstream'[q][a] = IF q = r /\ a = b THEN 0 ELSE upstream[q][a]
    BY <1>0, <2>1
  <2>3. before' = before /\ step' = step
    BY <1>8 DEF DeleteBranch
  <2> QED
    BY <1>0, <2>2, <2>3 DEF Onward
<1>9. CASE UNCHANGED vars
  BY <1>9 DEF vars, Onward
<1> QED
  BY <1>3, <1>4, <1>5, <1>6, <1>7, <1>8, <1>9 DEF Next, ScriptStep, GitStep

\* The upstream branch a command has just got is not older than when the script began.
LEMMA GotNewer ==
    ASSUME Types, Onward, step # "idle", NEW r \in Repos, NEW b \in Branches,
           upstream[r][b] # 0
    PROVE  before[r][b] # 0 /\ upstream[r][b] >= before[r][b]
BY DEF Onward

\* What a git command of a line that reports its errors has reached when it goes on.
LEMMA CommandReaches ==
    ASSUME Types, WellFormed, Parsed, Onward, Walked, GitStep, ~option.ignore, step' # "idle"
    PROVE  /\ step' = "again" => Clone'.cur = cobranch'
           /\ step' = "pin" => /\ Clone'.state = "cloned" /\ Clone'.cur = cobranch'
                               /\ Newer(Repo, cobranch)'
           /\ step' = "line" => line' = line + 1 /\ \A i \in Nat : i = line => OnRef(i)'
           /\ step' # "line" => line' = line
<1>1. step \in Body /\ step # "idle" /\ UNCHANGED <<manifest, upstream>>
  BY CommandControl DEF env, Body
<1>2. /\ Repo \in Repos /\ Clone = clone[Repo] /\ Clone \in CloneType
      /\ clone \in [Repos -> CloneType]
  BY <1>1, AtCommand DEF Types, ClonesOK
<1>3. ~Out /\ UNCHANGED before
  BY CommandControl DEF Out, Exit, OnTo, ToNext, Succeeded
<1>4. \A next : Failed(next) => Out
  BY DEF Failed, Out
<1>5. /\ step = "clone" \/ step = "stash" \/ step = "pull" \/ step = "checkout"
            \/ step = "again" => line' = line /\ cobranch' = cobranch
      /\ line' = line \/ step = "pin"
  BY <1>3, CommandControl DEF OnTo, ToNext, Succeeded, parser
<1>6. line' = line => /\ Repo' = Repo
                      /\ \A c : SetClone(c) => Clone' = c /\ clone'[Repo] = c
  BY <1>1, <1>2 DEF Repo, This, Clone, SetClone
<1>7. CASE Stash
  BY <1>5, <1>7 DEF Stash, Succeeded
<1>8. CASE Pull
  BY <1>3, <1>4, <1>5, <1>8 DEF Pull, GitPull, Succeeded
<1>9. CASE Checkout
  <2>1. /\ CheckoutWorks(Clone, cobranch) /\ SetClone(CheckedOut(Clone, cobranch))
        /\ step' = "again"
    BY <1>3, <1>4, <1>9 DEF Checkout, Succeeded
  <2>2. CheckedOut(Clone, cobranch).cur = cobranch
    BY <1>2, <2>1, CheckoutEffect
  <2>3. line' = line /\ cobranch' = cobranch
    BY <1>5, <1>9 DEF Checkout
  <2> QED
    BY <1>6, <2>1, <2>2, <2>3
<1>10. CASE PullAgain
  <2>1. PullWorks(Clone) /\ SetClone(Pulled(Clone)) /\ step' = "pin" /\ step = "again"
    BY <1>3, <1>4, <1>10 DEF PullAgain, GitPull, Succeeded
  <2>2. Clone.cur = cobranch
    BY <1>1, <2>1 DEF Walked
  <2>3. /\ Pulled(Clone).state = "cloned" /\ Pulled(Clone).cur = cobranch
        /\ cobranch \in Branches /\ upstream[Repo][cobranch] # 0
        /\ Pulled(Clone).local[cobranch] = upstream[Repo][cobranch]
    BY <1>1, <1>2, <2>1, <2>2, PullEffect
  <2>4. line' = line /\ cobranch' = cobranch
    BY <1>5, <2>1
  <2>5. /\ before[Repo][cobranch] # 0 /\ upstream[Repo][cobranch] >= before[Repo][cobranch]
    BY <1>1, <1>2, <2>3, GotNewer
  <2>6. /\ Clone' = Pulled(Clone) /\ clone'[Repo] = Pulled(Clone) /\ Repo' = Repo
    BY <1>6, <2>1, <2>4
  <2>7. Newer(Repo, cobranch)'
    BY <1>3, <2>3, <2>4, <2>5, <2>6 DEF Newer
  <2> QED
    BY <2>1, <2>3, <2>4, <2>6, <2>7
<1>11. CASE GitClone
  <2>1. /\ cobranch \in Tags \/ (cobranch \in Branches /\ upstream[Repo][cobranch] # 0)
        /\ SetClone(NewClone) /\ step' = "pin" /\ step = "clone"
    BY <1>3, <1>11 DEF GitClone, CloneFails, Exit, Succeeded, Out
  <2>2. /\ NewClone.state = "cloned" /\ NewClone.cur = cobranch
        /\ cobranch \in Branches => NewClone.local[cobranch] = upstream[Repo][cobranch]
    BY <1>1, <2>1, CloneEffect DEF Refs
  <2>3. line' = line /\ cobranch' = cobranch
    BY <1>5, <2>1
  <2>4. cobranch \in Branches => upstream[Repo][cobranch] # 0
    BY <2>1, CloneAssumption
  <2>5. cobranch \in Branches =>
          /\ before[Repo][cobranch] # 0 /\ upstream[Repo][cobranch] >= before[Repo][cobranch]
    BY <1>1, <1>2, <2>4, GotNewer
  <2>6. /\ Clone' = NewClone /\ clone'[Repo] = NewClone /\ Repo' = Repo
    BY <1>6, <2>1, <2>3
  <2>7. Newer(Repo, cobranch)'
    BY <1>3, <2>2, <2>3, <2>5, <2>6 DEF Newer
  <2> QED
    BY <2>1, <2>2, <2>3, <2>6, <2>7
<1>12. CASE Pin
  <2>1. step' = "line" /\ line' = line + 1 /\ step = "pin"
    BY <1>12 DEF Pin, NextLine
  <2>2. /\ line \in Listed /\ Repo = manifest[line].path
        /\ cobranch = Own(line).branch /\ coshakey = Own(line).key
    BY <1>1, LineIsListed DEF Parsed
  <2>3. Clone.state = "cloned" /\ Clone.cur = cobranch /\ Newer(Repo, cobranch)
    BY <1>1, <2>1 DEF Walked
  <2>4. SUFFICES ASSUME NEW i \in Nat, i = line PROVE OnRef(i)'
    BY <2>1
  <2> DEFINE c == IF coshakey # NoRef /\ CheckoutWorks(Clone, coshakey)
                  THEN CheckedOut(Clone, coshakey) ELSE Clone
             l == manifest[i]
  <2>5. clone'[l.path] = c /\ manifest'[i] = l /\ before'[l.path] = before[l.path]
    BY <1>1, <1>2, <1>3, <1>12, <2>2, <2>4 DEF Pin, SetClone
  <2>6. CASE coshakey = NoRef
    <3>1. Target(l) = cobranch /\ c = Clone
      BY <2>2, <2>4, <2>6, ListedLine
    <3>2. /\ c.state = "cloned" /\ c.cur = Target(l)
          /\ Target(l) \in Branches => /\ before[l.path][Target(l)] # 0
                                       /\ c.local[Target(l)] >= before[l.path][Target(l)]
      BY <1>2, <2>2, <2>3, <2>4, <3>1 DEF Newer
    <3> HIDE DEF c, l
    <3> QED
      BY <2>5, <3>2 DEF OnRef, Newer
  <2>7. CASE coshakey \in Missing
    <3>1. Target(l) = cobranch
      BY <2>2, <2>4, <2>7, ListedLine
    <3>2. c = Clone
      BY <2>7, CloneAssumption DEF CheckoutWorks
    <3>3. /\ c.state = "cloned" /\ c.cur = Target(l)
          /\ Target(l) \in Branches => /\ before[l.path][Target(l)] # 0
                                       /\ c.local[Target(l)] >= before[l.path][Target(l)]
      BY <1>2, <2>2, <2>3, <2>4, <3>1, <3>2 DEF Newer
    <3> HIDE DEF c, l
    <3> QED
      BY <2>5, <3>3 DEF OnRef, Newer
  <2>8. CASE coshakey # NoRef /\ coshakey \notin Missing
    <3>1. /\ Wanted(l) = coshakey /\ Wanted(l) \in Hashes /\ Wanted(l) \notin Branches
          /\ Wanted(l) \notin Missing /\ Target(l) = Wanted(l)
      BY <2>2, <2>4, <2>8, ListedLine, CloneAssumption
    <3>2. (c.state = "cloned" /\ c.cur = Wanted(l)) \/ c.single
      <4>1. CASE CheckoutWorks(Clone, coshakey)
        <5>1. c = CheckedOut(Clone, coshakey)
          BY <2>8, <4>1
        <5> QED
          BY <1>2, <2>3, <3>1, <4>1, <5>1, CheckoutEffect
      <4>2. CASE ~CheckoutWorks(Clone, coshakey)
        <5>1. c = Clone /\ Clone.single
          BY <2>3, <3>1, <4>2 DEF CheckoutWorks
        <5> QED
          BY <5>1
      <4> QED
        BY <4>1, <4>2
    <3> HIDE DEF c, l
    <3> QED
      BY <2>5, <3>1, <3>2 DEF OnRef, Newer
  <2> QED
    BY <2>6, <2>7, <2>8
<1> QED
  BY <1>7, <1>8, <1>9, <1>10, <1>11, <1>12 DEF GitStep

LEMMA WalkedStep ==
    ASSUME Types, WellFormed, Parsed, Onward, Walked, [Next]_vars
    PROVE  Walked'
<1>1. ASSUME UNCHANGED <<clone, manifest, line, cobranch, option, step, before>>
      PROVE  Walked'
  BY <1>1 DEF Walked, Listed, OnRef, Newer, Clone, Repo, This
<1>2. step' = "idle" => Walked'
  BY DEF Walked
<1>3. line \in Nat \ {0}
  BY ThisLine DEF Types
<1>4. CASE GitStep
  <2> SUFFICES ASSUME step' # "idle", ~option'.ignore
               PROVE  /\ \A i \in Listed' : i < line' => OnRef(i)'
                      /\ step' = "again" => Clone'.cur = cobranch'
                      /\ step' = "pin" => /\ Clone'.state = "cloned" /\ Clone'.cur = cobranch'
                                          /\ Newer(Repo, cobranch)'
    BY DEF Walked
  <2>1. /\ step \in Body /\ step # "idle" /\ manifest' = manifest /\ Listed' = Listed
        /\ UNCHANGED <<option, before>>
    BY <1>4, CommandControl DEF env, Body, Out, Exit, OnTo, ToNext, Succeeded, Listed
  <2>2. /\ step' = "again" => Clone'.cur = cobranch'
        /\ step' = "pin" => /\ Clone'.state = "cloned" /\ Clone'.cur = cobranch'
                            /\ Newer(Repo, cobranch)'
        /\ step' = "line" => line' = line + 1 /\ \A i \in Nat : i = line => OnRef(i)'
        /\ step' # "line" => line' = line
    BY <1>4, <2>1, CommandReaches
  <2>3. \A i \in Listed : i \in Nat
    BY DEF Listed
  <2>4. PICK c \in CloneType : SetClone(c)
    BY <1>4, CommandKeeps
  <2>5. clone' = [clone EXCEPT ![Repo] = c] /\ line \in Listed /\ Repo = manifest[line].path
    BY <2>1, <2>4, LineIsListed DEF SetClone
  <2>6. ASSUME NEW i \in Listed, i < line
        PROVE  OnRef(i)'
    <3>1. OnRef(i)
      BY <2>1, <2>6 DEF Walked
    <3>2. manifest[i].path \in Repos /\ manifest[i].path # Repo
      BY <1>3, <2>3, <2>5, <2>6, ListedLine
    <3>3. clone'[manifest[i].path] = clone[manifest[i].path]
      BY <2>5, <3>2 DEF Types, ClonesOK
    <3> QED
      BY <2>1, <3>1, <3>3 DEF OnRef, Newer
  <2>7. \A i \in Listed : i < line' => OnRef(i)'
    BY <1>3, <2>2, <2>3, <2>6
  <2> QED
    BY <2>1, <2>2, <2>7
<1>5. CASE ReadLine
  <2>1. /\ step = "line" /\ UNCHANGED <<clone, manifest, option, before>>
        /\ Listed' = Listed /\ \A i : OnRef(i)' = OnRef(i)
    BY <1>5 DEF ReadLine, env, Listed, OnRef, Newer
  <2>2. step' # "again" /\ step' # "pin"
    BY <1>5 DEF ReadLine, NextLine
  <2>3. line' = line \/ (line' = line + 1 /\ line \notin Listed)
    BY <1>5 DEF ReadLine, NextLine, Listed, This
  <2>4. \A i \in Listed : i \in Nat
    BY DEF Listed
  <2>5. ~option.ignore => \A i \in Listed : i < line' => OnRef(i)
    BY <1>3, <2>1, <2>3, <2>4 DEF Walked
  <2> QED
    BY <2>1, <2>2, <2>5 DEF Walked
<1>6. CASE AllDone \/ Kill \/ PullAomp \/ UserEdits \/ UserRemoves
  BY <1>2, <1>6 DEF AllDone, Kill, CloneFails, Exit, PullAomp, UserEdits, UserRemoves
<1>7. CASE Invoke
  <2>1. step' = "line" /\ line' = 1
    BY <1>7 DEF Invoke, parser, Types, PlaceOK
  <2>2. \A i \in Listed' : i \in Nat /\ i >= 1
    BY DEF Listed
  <2> QED
    BY <2>1, <2>2 DEF Walked
<1>8. CASE Commit \/ DeleteBranch \/ UNCHANGED vars
  BY <1>1, <1>8 DEF Commit, DeleteBranch, parser, vars
<1> QED
  BY <1>4, <1>5, <1>6, <1>7, <1>8 DEF Next, ScriptStep, GitStep

LEMMA WalkedInv == WellFormed => (Spec => [](Parsed /\ Onward /\ Walked))
<1> SUFFICES ASSUME WellFormed PROVE Spec => [](Parsed /\ Onward /\ Walked)
  OBVIOUS
<1>1. Init => Parsed /\ Onward /\ Walked
  BY DEF Init, Parsed, Onward, Walked, Body
<1>2. Types /\ Parsed /\ Onward /\ Walked /\ [Next]_vars => (Parsed /\ Onward /\ Walked)'
  BY ParsedStep, OnwardStep, WalkedStep
<1> QED
  BY <1>1, <1>2, TypesInv, PTL DEF Spec

\* Only the end of the manifest gives the status 0.
LEMMA OnlyAllDone ==
    ASSUME Types, Next, status = Running, status' = 0
    PROVE  AllDone
<1>1. ~GitStep
  BY CommandControl DEF OnTo, Out, ToNext, Succeeded, Exit, Running, Killed
<1> QED
  BY <1>1 DEF Next, ScriptStep, GitStep, ReadLine, Kill, CloneFails, Exit, Invoke, Commit,
              DeleteBranch, PullAomp, UserEdits, UserRemoves, Running, Killed, env

\* clone_aomp.sh ends with 0, its errors reported, only when every repository of the
\* manifest is on the reference of its line and has what upstream had at the start,
\* whatever earlier manifests, kills and edits left in the clones.
THEOREM SuccessMeansUpToDate == WellFormed => (Spec => UpToDateOnSuccess)
<1> SUFFICES ASSUME WellFormed PROVE Spec => UpToDateOnSuccess
  OBVIOUS
<1> DEFINE Reached ==
      status = Running /\ status' = 0 /\ ~option.ignore =>
          \A i \in Listed :
             LET l == manifest[i]
                 c == clone[l.path] IN
             \/ c.single /\ Wanted(l) \in Hashes
             \/ /\ c.cur = Target(l)
                /\ Target(l) \in Branches => c.local[c.cur] >= before[l.path][c.cur]
<1>1. Types /\ Walked /\ [Next]_vars => [Reached]_vars
  <2> SUFFICES ASSUME Types, Walked, Next, status = Running, status' = 0, ~option.ignore,
                      NEW i \in Listed
               PROVE  LET l == manifest[i]
                          c == clone[l.path] IN
                      \/ c.single /\ Wanted(l) \in Hashes
                      \/ /\ c.cur = Target(l)
                         /\ Target(l) \in Branches => c.local[c.cur] >= before[l.path][c.cur]
    OBVIOUS
  <2>1. step = "line" /\ line > Len(manifest)
    BY OnlyAllDone DEF AllDone
  <2>2. i < line
    <3>1. Len(manifest) \in Nat /\ line \in Nat /\ i \in 1..Len(manifest)
      BY ThisLine DEF Types, Listed
    <3> QED
      BY <2>1, <3>1
  <2>3. OnRef(i)
    BY <2>1, <2>2 DEF Walked
  <2> QED
    BY <2>3 DEF OnRef, Newer
<1> QED
  BY <1>1, TypesInv, WalkedInv, PTL DEF Spec, UpToDateOnSuccess

-----------------------------------------------------------------------------
(* Calling the script again.                                               *)

\* The clone of a line is on its branch, which upstream still has.
OnBranch(i) ==
    LET l == manifest[i]
        c == clone[l.path] IN
    /\ c.state = "cloned" /\ c.cur = Wanted(l)
    /\ upstream[l.path][Wanted(l)] # 0 /\ c.local[Wanted(l)] # 0

\* After a success, and for as long as the manifest and the branches stay, all are.
Settled == good /\ Unpinned => \A i \in Listed : OnBranch(i)

\* Where the script then stands, every command can only succeed.
LEMMA AtSettled ==
    ASSUME Types, WellFormed, Parsed, Settled, good, Unpinned, step \in Body
    PROVE  /\ line \in Listed /\ Repo = manifest[line].path /\ Repo \in Repos
           /\ Wanted(manifest[line]) = cobranch /\ cobranch \in Branches /\ coshakey = NoRef
           /\ Clone = clone[Repo] /\ Clone.state = "cloned" /\ Clone.cur = cobranch
           /\ upstream[Repo][cobranch] # 0 /\ Clone.local[cobranch] # 0
           /\ PullWorks(Clone) /\ CheckoutWorks(Clone, cobranch) /\ step # "clone"
<1>1. line \in Listed /\ Repo = manifest[line].path
  BY LineIsListed
<1>2. Repo \in Repos /\ Clone = clone[Repo]
  BY AtCommand
<1>3. Wanted(manifest[line]) \in Branches
  BY <1>1 DEF Unpinned, IsPinned
<1>4. Wanted(manifest[line]) = cobranch /\ coshakey = NoRef
  BY <1>1, <1>3, ListedLine DEF Parsed
<1>5. /\ Clone.state = "cloned" /\ Clone.cur = cobranch
      /\ upstream[Repo][cobranch] # 0 /\ Clone.local[cobranch] # 0
  BY <1>1, <1>2, <1>4 DEF Settled, OnBranch
<1>6. PullWorks(Clone) /\ CheckoutWorks(Clone, cobranch)
  BY <1>3, <1>4, <1>5 DEF PullWorks, CheckoutWorks, Detached
<1>7. step # "clone"
  BY <1>5 DEF Types, ClonesOK
<1> QED
  BY <1>1, <1>2, <1>3, <1>4, <1>5, <1>6, <1>7

LEMMA CommandStays ==
    ASSUME Types, WellFormed, Parsed, Settled, good, Unpinned, GitStep
    PROVE  \E c \in CloneType : /\ SetClone(c) /\ c.state = "cloned" /\ c.cur = cobranch
                                /\ c.local[cobranch] # 0
<1>1. step \in Body
  BY CommandControl
<1>2. /\ cobranch \in Branches /\ coshakey = NoRef /\ Clone = clone[Repo] /\ Repo \in Repos
      /\ Clone.state = "cloned" /\ Clone.cur = cobranch
      /\ upstream[Repo][cobranch] # 0 /\ Clone.local[cobranch] # 0
      /\ PullWorks(Clone) /\ CheckoutWorks(Clone, cobranch) /\ step # "clone"
  BY <1>1, AtSettled
<1>3. Clone \in CloneType /\ (UNCHANGED clone => SetClone(Clone))
  <2>1. Clone \in CloneType /\ clone = [clone EXCEPT ![Repo] = Clone]
    BY <1>2 DEF Types, ClonesOK
  <2> QED
    BY <2>1 DEF SetClone
<1>4. CASE Stash
  <2> DEFINE c == IF Clone.dirty
                  THEN [Clone EXCEPT !.dirty = FALSE, !.stashed = @ + 1] ELSE Clone
  <2>1. SetClone(c)
    BY <1>4 DEF Stash
  <2>2. PICK d \in CloneType : SetClone(d)
    BY <1>4, CommandKeeps DEF GitStep
  <2>3. c = d
    <3> HIDE DEF c
    <3>1. clone'[Repo] = c /\ clone'[Repo] = d
      BY <1>2, <2>1, <2>2 DEF SetClone, Types, ClonesOK
    <3> QED
      BY <3>1
  <2>4. c.state = Clone.state /\ c.cur = Clone.cur /\ c.local = Clone.local
    BY <1>3 DEF CloneType
  <2> HIDE DEF c
  <2> QED
    BY <1>2, <2>1, <2>3, <2>4
<1>5. CASE Pull \/ PullAgain
  <2>1. SetClone(Pulled(Clone)) \/ UNCHANGED clone
    BY <1>5 DEF Pull, PullAgain, GitPull
  <2>2. /\ Pulled(Clone) \in CloneType /\ Pulled(Clone).state = "cloned"
        /\ Pulled(Clone).cur = cobranch /\ Pulled(Clone).local[cobranch] # 0
    BY <1>1, <1>2, <1>3, PullEffect
  <2> QED
    BY <1>2, <1>3, <2>1, <2>2
<1>6. CASE Checkout
  <2>1. SetClone(CheckedOut(Clone, cobranch))
    BY <1>2, <1>6 DEF Checkout
  <2>2. LET c == CheckedOut(Clone, cobranch) IN
          c \in CloneType /\ c.state = "cloned" /\ c.cur = cobranch /\ c.local[cobranch] # 0
    BY <1>2, <1>3, CheckoutEffect
  <2> QED
    BY <2>1, <2>2
<1>7. CASE Pin
  <2>1. SetClone(Clone)
    BY <1>2, <1>7 DEF Pin
  <2> QED
    BY <1>2, <1>3, <2>1
<1>8. ~GitClone
  BY <1>2 DEF GitClone
<1> QED
  BY <1>4, <1>5, <1>6, <1>7, <1>8 DEF GitStep

LEMMA SettledStep ==
    ASSUME Types, WellFormed, Parsed, Walked, Settled, [Next]_vars
    PROVE  Settled'
<1> SUFFICES ASSUME good', Unpinned', NEW i \in Listed'
             PROVE  OnBranch(i)'
  BY DEF Settled
<1>1. \A r \in Repos, b \in Branches : upstream[r][b] \in Nat /\ before[r][b] \in Nat
  <2>1. /\ upstream \in [Repos -> [Branches -> Commits]]
        /\ before \in [Repos -> [Branches -> Commits]]
    BY DEF Types, EnvOK
  <2> QED
    BY <2>1 DEF Commits
<1>2. ASSUME manifest' = manifest
      PROVE  Unpinned /\ Listed' = Listed /\ manifest'[i] = manifest[i]
  BY <1>2 DEF Unpinned, Listed
<1>3. ASSUME manifest' = manifest, good
      PROVE  /\ OnBranch(i) /\ manifest[i].path \in Repos /\ Wanted(manifest[i]) \in Branches
             /\ i \in Listed /\ manifest'[i] = manifest[i]
  <2>1. i \in Listed /\ Wanted(manifest[i]) \in Branches
    BY <1>2, <1>3 DEF Unpinned, IsPinned
  <2> QED
    BY <1>2, <1>3, <2>1, ListedLine DEF Settled
<1>4. CASE GitStep
  <2>1. step \in Body /\ manifest' = manifest /\ upstream' = upstream
    BY <1>4, CommandControl DEF env
  <2>2. good
    BY <1>4, CommandControl DEF Out, OnTo, ToNext, Succeeded
  <2>3. PICK c \in CloneType : /\ SetClone(c) /\ c.state = "cloned" /\ c.cur = cobranch
                               /\ c.local[cobranch] # 0
    BY <1>2, <1>4, <2>1, <2>2, CommandStays
  <2>4. /\ line \in Listed /\ Repo = manifest[line].path /\ Repo \in Repos
        /\ Wanted(manifest[line]) = cobranch /\ upstream[Repo][cobranch] # 0
    BY <1>2, <2>1, <2>2, AtSettled
  <2>5. clone'[Repo] = c /\ \A r \in Repos : r # Repo => clone'[r] = clone[r]
    BY <2>3, <2>4 DEF SetClone, Types, ClonesOK
  <2>6. CASE i = line
    BY <1>3, <2>1, <2>2, <2>3, <2>4, <2>5, <2>6 DEF OnBranch
  <2>7. CASE i # line
    <3>1. manifest[i].path # Repo
      BY <1>3, <2>1, <2>2, <2>4, <2>7, ListedLine
    <3> QED
      BY <1>3, <2>1, <2>2, <2>5, <3>1 DEF OnBranch
  <2> QED
    BY <2>6, <2>7
<1>5. CASE AllDone
  <2>1. /\ manifest' = manifest /\ step = "line" /\ line > Len(manifest) /\ ~option.ignore
        /\ UNCHANGED <<clone, upstream>>
        /\ \A r \in Repos, b \in Branches : before[r][b] # 0 => upstream[r][b] # 0
    BY <1>5 DEF AllDone, env
  <2>2. i \in Listed /\ Wanted(manifest[i]) \in Branches /\ manifest[i].path \in Repos
    <3>1. i \in Listed /\ Wanted(manifest[i]) \in Branches
      BY <1>2, <2>1 DEF Unpinned, IsPinned
    <3> QED
      BY <3>1, ListedLine
  <2>3. i < line
    <3>1. Len(manifest) \in Nat /\ line \in Nat /\ i \in 1..Len(manifest)
      BY <2>2, ThisLine DEF Types, Listed
    <3> QED
      BY <2>1, <3>1
  <2>4. /\ OnRef(i) /\ Wanted(manifest[i]) \notin Hashes
        /\ Target(manifest[i]) = Wanted(manifest[i])
    BY <2>1, <2>2, <2>3, ListedLine, CloneAssumption DEF Walked
  <2>5. OnBranch(i)
    <3> DEFINE r == manifest[i].path
               b == Wanted(manifest[i])
    <3>1. /\ clone[r].state = "cloned" /\ clone[r].cur = b
          /\ before[r][b] # 0 /\ clone[r].local[b] >= before[r][b]
      BY <2>2, <2>4 DEF OnRef, Newer
    <3>2. upstream[r][b] # 0 /\ before[r][b] \in Nat
      BY <1>1, <2>1, <2>2, <3>1
    <3>3. clone[r].local[b] # 0
      BY <3>1, <3>2
    <3> QED
      BY <3>1, <3>2, <3>3 DEF OnBranch
  <2> QED
    BY <1>2, <2>1, <2>5 DEF OnBranch
<1>6. CASE ReadLine \/ Invoke \/ UNCHANGED vars
  <2>1. UNCHANGED <<manifest, clone, upstream, good>>
    BY <1>6 DEF ReadLine, Invoke, env, vars
  <2> QED
    BY <1>3, <2>1 DEF OnBranch
<1>7. CASE Commit
  <2>1. UNCHANGED <<manifest, clone, good>>
    BY <1>7 DEF Commit
  <2>2. PICK r \in Repos, b \in Branches : upstream' = [upstream EXCEPT ![r][b] = @ + 1]
    BY <1>7 DEF Commit
  <2>3. \A q \in Repos, a \in Branches : upstream[q][a] # 0 => upstream'[q][a] # 0
    <3>1. upstream \in [Repos -> [Branches -> Commits]]
      BY DEF Types, EnvOK
    <3>2. \A q \in Repos, a \in Branches :
            upstream'[q][a] = IF q = r /\ a = b THEN upstream[q][a] + 1 ELSE upstream[q][a]
      BY <2>2, <3>1
    <3> QED
      BY <1>1, <3>2
  <2> QED
    BY <1>3, <2>1, <2>3 DEF OnBranch
<1>8. CASE UserEdits
  <2>1. UNCHANGED <<manifest, upstream, good>>
    BY <1>8 DEF UserEdits, env
  <2>2. PICK r \in Repos : clone' = [clone EXCEPT ![r].dirty = TRUE]
    BY CloneAssumption, <1>8 DEF UserEdits
  <2>3. \A q \in Repos : /\ clone'[q].state = clone[q].state /\ clone'[q].cur = clone[q].cur
                         /\ clone'[q].local = clone[q].local
    <3>1. clone \in [Repos -> CloneType]
      BY DEF Types, ClonesOK
    <3> QED
      BY <2>2, <3>1 DEF CloneType
  <2> QED
    BY <1>3, <2>1, <2>3 DEF OnBranch
<1>9. CASE UserRemoves
  <2>1. UNCHANGED <<manifest, upstream, good>>
    BY <1>9 DEF UserRemoves, env
  <2>2. PICK r \in Repos : clone[r].state = "partial" /\ clone' = [clone EXCEPT ![r] = NoClone]
    BY <1>9 DEF UserRemoves
  <2>3. \A q \in Repos : clone[q].state = "cloned" => clone'[q] = clone[q]
    BY <2>2 DEF Types, ClonesOK
  <2> QED
    BY <1>3, <2>1, <2>3 DEF OnBranch
<1>10. ~(Kill \/ DeleteBranch \/ PullAomp)
  BY DEF Kill, CloneFails, DeleteBranch, PullAomp
<1> QED
  BY <1>4, <1>5, <1>6, <1>7, <1>8, <1>9, <1>10 DEF Next, ScriptStep, GitStep

LEMMA SettledInv == WellFormed => (Spec => []Settled)
<1> SUFFICES ASSUME WellFormed PROVE Spec => []Settled
  OBVIOUS
<1>1. Init => Settled
  BY DEF Init, Settled
<1>2. Types /\ Parsed /\ Walked /\ Settled /\ [Next]_vars => Settled'
  BY SettledStep
<1> QED
  BY <1>1, <1>2, TypesInv, WalkedInv, PTL DEF Spec

\* After a success, with a manifest of branches that stays and branches that stay,
\* clone_aomp.sh fails only by the network or a kill: the state its own commands have
\* left is one they can go on from.
THEOREM BranchesPull == WellFormed => (Spec => BranchesCanBePulled)
<1> SUFFICES ASSUME WellFormed PROVE Spec => BranchesCanBePulled
  OBVIOUS
<1> DEFINE OnlyFaults == good /\ Unpinned /\ status = Running /\ status' = 1 => faults' # faults
<1>1. Types /\ Parsed /\ Settled /\ [Next]_vars => [OnlyFaults]_vars
  <2> SUFFICES ASSUME Types, Parsed, Settled, Next, good, Unpinned,
                      status = Running, status' = 1
               PROVE  faults' # faults
    OBVIOUS
  <2>1. Fault => faults' # faults
    BY DEF Types, PlaceOK, Fault
  <2>2. ASSUME GitStep
        PROVE  faults' # faults
    <3>1. step \in Body
      BY <2>2, CommandControl
    <3>2. PullWorks(Clone) /\ CheckoutWorks(Clone, cobranch) /\ step # "clone"
      BY <3>1, AtSettled
    <3>3. \A next : ~Succeeded(next)
      BY DEF Succeeded, Running
    <3>4. CASE Pull \/ PullAgain
      BY <2>1, <3>2, <3>3, <3>4 DEF Pull, PullAgain, GitPull
    <3>5. ~Stash /\ ~Checkout
      BY <3>2, <3>3 DEF Stash, Checkout
    <3>6. ~GitClone /\ ~Pin
      BY <3>2 DEF GitClone, Pin, Running
    <3> QED
      BY <2>2, <3>4, <3>5, <3>6 DEF GitStep
  <2>3. CASE Kill
    BY <2>1, <2>3 DEF Kill
  <2>4. ~(ReadLine \/ AllDone \/ Invoke \/ Commit \/ DeleteBranch \/ PullAomp \/ UserEdits
            \/ UserRemoves)
    BY DEF ReadLine, AllDone, Exit, Invoke, Commit, DeleteBranch, PullAomp, UserEdits,
           UserRemoves, Running
  <2> QED
    BY <2>2, <2>3, <2>4 DEF Next, ScriptStep, GitStep
<1> QED
  BY <1>1, TypesInv, WalkedInv, SettledInv, PTL DEF Spec, BranchesCanBePulled
=============================================================================
