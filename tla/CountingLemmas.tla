---------------------------- MODULE CountingLemmas ----------------------------
(***************************************************************************)
(* Facts about the sums of result files and about least numbers, for the    *)
(* proofs of the other modules.  Facts about finite sets and numbers are    *)
(* proved from a minimal counterexample: a set (or a number) for which the   *)
(* fact fails, while it holds for all smaller ones.                         *)
(***************************************************************************)
EXTENDS Integers, Functions, Folds, FiniteSetTheorems, WellFoundedInduction, TLAPS

\* A nonempty set of numbers has a least one.
LEMMA LeastNumber ==
    ASSUME NEW S \in SUBSET Nat, S # {}
    PROVE  \E m \in S : \A k \in S : m <= k
<1>1. PICK m \in S : \A k \in S : <<k, m>> \notin OpToRel(<, Nat)
  BY NatLessThanWellFounded, WFMin
<1>2. \A k \in S : ~(k < m)
  BY <1>1 DEF OpToRel
<1> QED
  BY <1>2

\* A nonempty family of finite sets has a member without a smaller one.
LEMMA MinimalSet ==
    ASSUME NEW S, IsFiniteSet(S), NEW F \in SUBSET SUBSET S, F # {}
    PROVE  \E s \in F : \A t \in F : t \subseteq s => t = s
<1>1. \A s \in SUBSET S : IsFiniteSet(s)
  BY FS_Subset
<1>2. F \subseteq FiniteSubsetsOf(S)
  BY <1>1 DEF FiniteSubsetsOf
<1>3. PICK s \in F : \A t \in F : <<t, s>> \notin StrictSubsetOrdering(S)
  BY <1>2, WFMin, FS_StrictSubsetOrderingWellFounded
<1>4. \A t \in F : t \subseteq s => t = s
  BY <1>3 DEF StrictSubsetOrdering
<1> QED
  BY <1>4

-----------------------------------------------------------------------------
(* Sums.                                                                   *)

\* The lines of a result file, as the models count them.
Sum(file) == FoldFunction(LAMBDA x, y : x + y, 0, file)

\* The order in which the fold adds up.
Chosen(s) == CHOOSE x \in s : TRUE

\* g gives the sum of every set of tests.
Sums(file, S, g) ==
    g = [s \in SUBSET S |-> IF s = {} THEN 0 ELSE file[Chosen(s)] + g[s \ {Chosen(s)}]]

\* The fold is such a g.
LEMMA SumUnfold ==
    ASSUME NEW file
    PROVE  Sum(file) = (CHOOSE g : Sums(file, DOMAIN file, g))[DOMAIN file]
BY DEF Sum, FoldFunction, FoldFunctionOnSet, MapThenFoldSet, Sums, Chosen

\* What Sums says, set by set.
LEMMA SumsStep ==
    ASSUME NEW file, NEW S, NEW g, Sums(file, S, g)
    PROVE  \A s \in SUBSET S :
              g[s] = IF s = {} THEN 0 ELSE file[Chosen(s)] + g[s \ {Chosen(s)}]
BY DEF Sums

\* It is one of them.
LEMMA ChosenIn == \A s : s # {} => Chosen(s) \in s
BY DEF Chosen

\* Two such functions agree where both are defined.
LEMMA SumsUnique ==
    ASSUME NEW file, NEW S, IsFiniteSet(S), NEW T, NEW U,
           T \subseteq S, U \subseteq S, NEW g, NEW h, Sums(file, T, g), Sums(file, U, h)
    PROVE  \A s \in SUBSET (T \cap U) : g[s] = h[s]
<1> DEFINE F == {s \in SUBSET (T \cap U) : g[s] # h[s]}
<1> SUFFICES ASSUME F # {} PROVE FALSE
  OBVIOUS
<1>1. PICK s \in F : \A t \in F : t \subseteq s => t = s
  <2>1. F \in SUBSET SUBSET S
    OBVIOUS
  <2> HIDE DEF F
  <2> QED
    BY <2>1, MinimalSet
<1>2. s \in SUBSET T /\ s \in SUBSET U /\ g[s] # h[s]
  OBVIOUS
<1>3. s # {}
  BY <1>2, SumsStep
<1>4. Chosen(s) \in s /\ g[s \ {Chosen(s)}] = h[s \ {Chosen(s)}]
  BY <1>1, <1>3, ChosenIn
<1> QED
  BY <1>2, <1>3, <1>4, SumsStep

\* There is one.
LEMMA SumsExist ==
    ASSUME NEW file, NEW S, IsFiniteSet(S)
    PROVE  \E g : Sums(file, S, g)
<1> DEFINE Some(T) == CHOOSE g : Sums(file, T, g)
           F == {T \in SUBSET S : ~ \E g : Sums(file, T, g)}
<1> SUFFICES ASSUME F # {} PROVE FALSE
  OBVIOUS
<1>1. PICK T \in F : \A t \in F : t \subseteq T => t = T
  <2>1. F \in SUBSET SUBSET S
    OBVIOUS
  <2> HIDE DEF F
  <2> QED
    BY <2>1, MinimalSet
<1>2. \A t \in SUBSET T : t # T => Sums(file, t, Some(t))
  BY <1>1
<1> DEFINE c == Chosen(T)
           V(s) == IF s = {} THEN 0
                   ELSE IF s = T THEN file[c] + Some(T \ {c})[T \ {c}]
                   ELSE Some(s)[s]
           g == [s \in SUBSET T |-> V(s)]
<1>3. ASSUME NEW s \in SUBSET T
      PROVE  g[s] = IF s = {} THEN 0 ELSE file[Chosen(s)] + g[s \ {Chosen(s)}]
  <2>1. CASE s = {}
    BY <2>1
  <2>2. CASE s # {}
    <3> DEFINE d == s \ {Chosen(s)}
    <3>1. d \in SUBSET T /\ d # T /\ d # s
      BY <2>2, ChosenIn
    <3>2. g[d] = Some(d)[d]
      <4>1. Sums(file, d, Some(d))
        BY <1>2, <3>1
      <4>2. d = {} => Some(d)[d] = 0
        BY <4>1, SumsStep
      <4> QED
        BY <3>1, <4>2
    <3>3. CASE s = T
      BY <2>2, <3>1, <3>2, <3>3
    <3>4. CASE s # T
      <4>1. Sums(file, s, Some(s)) /\ Sums(file, d, Some(d))
        BY <1>2, <3>1, <3>4
      <4>2. Some(s)[s] = file[Chosen(s)] + Some(s)[d]
        BY <2>2, <4>1, SumsStep
      <4>3. Some(s)[d] = Some(d)[d]
        <5>1. s \subseteq S /\ d \subseteq S /\ d \in SUBSET (s \cap d)
          BY <1>1
        <5> HIDE DEF Some
        <5> QED
          BY <4>1, <5>1, SumsUnique
      <4> QED
        BY <2>2, <3>2, <3>4, <4>2, <4>3
    <3> QED
      BY <3>3, <3>4
  <2> QED
    BY <2>1, <2>2
<1>4. Sums(file, T, g)
  <2> HIDE DEF V
  <2>1. g = [s \in SUBSET T |-> g[s]]
    OBVIOUS
  <2> HIDE DEF g
  <2> QED
    BY <1>3, <2>1 DEF Sums
<1> QED
  BY <1>1, <1>4

\* So the fold adds up: the lines of the chosen test and of all the others.
LEMMA SumSums ==
    ASSUME NEW S, IsFiniteSet(S), NEW file \in [S -> Nat]
    PROVE  \E g : Sums(file, S, g) /\ Sum(file) = g[S]
BY SumUnfold, SumsExist

\* The lines of a file are a number.
LEMMA SumType ==
    ASSUME NEW S, IsFiniteSet(S), NEW file \in [S -> Nat]
    PROVE  Sum(file) \in Nat
<1>1. PICK g : Sums(file, S, g) /\ Sum(file) = g[S]
  BY SumSums
<1> DEFINE F == {s \in SUBSET S : g[s] \notin Nat}
<1> SUFFICES ASSUME F # {} PROVE FALSE
  BY <1>1
<1>2. PICK s \in F : \A t \in F : t \subseteq s => t = s
  <2>1. F \in SUBSET SUBSET S
    OBVIOUS
  <2> HIDE DEF F
  <2> QED
    BY <2>1, MinimalSet
<1>3. g[s] = IF s = {} THEN 0 ELSE file[Chosen(s)] + g[s \ {Chosen(s)}]
  BY <1>1, SumsStep
<1>4. s # {} /\ Chosen(s) \in s
  BY <1>3, ChosenIn
<1>5. g[s \ {Chosen(s)}] \in Nat
  BY <1>2, <1>4
<1> QED
  BY <1>3, <1>4, <1>5

\* The same, set by set.
LEMMA SumBySets ==
    ASSUME NEW S, IsFiniteSet(S), NEW file \in [S -> Nat]
    PROVE  \E g : /\ \A u \in SUBSET S :
                       g[u] = IF u = {} THEN 0 ELSE file[Chosen(u)] + g[u \ {Chosen(u)}]
                 /\ Sum(file) = g[S]
<1>1. PICK g : Sums(file, S, g) /\ Sum(file) = g[S]
  BY SumSums
<1>2. \A u \in SUBSET S : g[u] = IF u = {} THEN 0 ELSE file[Chosen(u)] + g[u \ {Chosen(u)}]
  BY <1>1 DEF Sums
<1> QED
  BY <1>1, <1>2

\* Files without a line have no lines together.
LEMMA SumZero ==
    ASSUME NEW S, IsFiniteSet(S), NEW file \in [S -> Nat], \A x \in S : file[x] = 0
    PROVE  Sum(file) = 0
<1>1. PICK g : /\ \A u \in SUBSET S :
                    g[u] = IF u = {} THEN 0 ELSE file[Chosen(u)] + g[u \ {Chosen(u)}]
               /\ Sum(file) = g[S]
  BY SumBySets
<1> DEFINE F == {s \in SUBSET S : g[s] # 0}
<1> SUFFICES ASSUME F # {} PROVE FALSE
  BY <1>1
<1>2. PICK s \in F : \A t \in F : t \subseteq s => t = s
  <2>1. F \in SUBSET SUBSET S
    OBVIOUS
  <2> HIDE DEF F
  <2> QED
    BY <2>1, MinimalSet
<1>3. g[s] = IF s = {} THEN 0 ELSE file[Chosen(s)] + g[s \ {Chosen(s)}]
  BY <1>1
<1>4. s # {} /\ Chosen(s) \in s
  BY <1>3, ChosenIn
<1>5. g[s \ {Chosen(s)}] = 0
  BY <1>2, <1>4
<1> QED
  BY <1>3, <1>4, <1>5

\* A file with n more lines for one test has n more lines.
LEMMA SumMore ==
    ASSUME NEW S, IsFiniteSet(S), NEW file \in [S -> Nat], NEW t \in S, NEW n \in Nat,
           NEW more \in [S -> Nat],
           \A x \in S : more[x] = file[x] + (IF x = t THEN n ELSE 0)
    PROVE  Sum(more) = Sum(file) + n
<1>1. PICK g : /\ \A u \in SUBSET S :
                    g[u] = IF u = {} THEN 0 ELSE file[Chosen(u)] + g[u \ {Chosen(u)}]
               /\ Sum(file) = g[S]
  BY SumBySets
<1>2. PICK h : /\ \A u \in SUBSET S :
                    h[u] = IF u = {} THEN 0 ELSE more[Chosen(u)] + h[u \ {Chosen(u)}]
               /\ Sum(more) = h[S]
  BY SumBySets
<1> DEFINE Extra(s) == IF t \in s THEN n ELSE 0
           F == {s \in SUBSET S : ~(g[s] \in Nat /\ h[s] = g[s] + Extra(s))}
<1> SUFFICES ASSUME F # {} PROVE FALSE
  BY <1>1, <1>2
<1>3. PICK s \in F : \A u \in F : u \subseteq s => u = s
  <2>1. F \in SUBSET SUBSET S
    OBVIOUS
  <2> HIDE DEF F
  <2> QED
    BY <2>1, MinimalSet
<1> DEFINE x == Chosen(s)
           d == s \ {x}
<1>4. /\ g[s] = IF s = {} THEN 0 ELSE file[x] + g[d]
      /\ h[s] = IF s = {} THEN 0 ELSE more[x] + h[d]
  <2>1. s \in SUBSET S
    OBVIOUS
  <2>2. g[s] = IF s = {} THEN 0 ELSE file[x] + g[d]
    BY <1>1, <2>1
  <2>3. h[s] = IF s = {} THEN 0 ELSE more[x] + h[d]
    BY <1>2, <2>1
  <2> QED
    BY <2>2, <2>3
<1>5. s # {} /\ x \in s /\ x \in S
  BY <1>4, ChosenIn
<1>6. g[d] \in Nat /\ h[d] = g[d] + Extra(d)
  BY <1>3, <1>5
<1>7. g[s] = file[x] + g[d] /\ h[s] = more[x] + h[d]
  BY <1>4, <1>5
<1>8. file[x] \in Nat /\ more[x] = file[x] + (IF x = t THEN n ELSE 0)
  BY <1>5
<1>9. Extra(s) = (IF x = t THEN n ELSE 0) + Extra(d)
  BY <1>5
<1>10. Extra(d) \in Nat
  OBVIOUS
<1>11. g[s] \in Nat /\ h[s] = g[s] + Extra(s)
  <2> HIDE DEF x, d, Extra
  <2> QED
    BY <1>6, <1>7, <1>8, <1>9, <1>10
<1> QED
  BY <1>11

\* Recording a line.
LEMMA SumBump ==
    ASSUME NEW S, IsFiniteSet(S), NEW file \in [S -> Nat], NEW t \in S
    PROVE  Sum([file EXCEPT ![t] = @ + 1]) = Sum(file) + 1
<1> DEFINE more == [file EXCEPT ![t] = @ + 1]
<1>1. /\ more \in [S -> Nat]
      /\ \A x \in S : more[x] = file[x] + (IF x = t THEN 1 ELSE 0)
  OBVIOUS
<1> HIDE DEF more
<1>2. Sum(more) = Sum(file) + 1
  BY <1>1, SumMore
<1> QED
  BY <1>2 DEF more
=============================================================================
