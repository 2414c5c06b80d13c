------------------------- MODULE RunRocmTest_proofs -------------------------
(***************************************************************************)
(* Proofs about RunRocmTest for every list of suites, every number of tests *)
(* and every state of the test directories.                                 *)
(***************************************************************************)
EXTENDS RunRocmTest, CountingLemmas

-----------------------------------------------------------------------------
(* The suites' functions.                                                  *)

\* A script comes before the copies of its directories, and each directory is
\* copied once.
LEMMA Layout ==
    \A s \in Suites :
        /\ Len(Function(s)) \in Nat \ {0}
        /\ \A k \in 1..Len(Function(s)) :
              /\ Function(s)[k].op \in {"run", "copy"}
              /\ Function(s)[k].op = "run" => Function(s)[k].dirs \subseteq Areas(s)
              /\ Function(s)[k].op = "copy" => Function(s)[k].name \in Areas(s)
        /\ \A k, i \in 1..Len(Function(s)) :
              Function(s)[i].op = "copy" =>
                 /\ Function(s)[k].op = "run" /\ Function(s)[i].name \in Function(s)[k].dirs
                       => k < i
                 /\ Function(s)[k].op = "copy" /\ Function(s)[i].name = Function(s)[k].name
                       => k = i
<1> SUFFICES ASSUME NEW s \in Suites, NEW F, F = Function(s)
             PROVE  /\ Len(F) \in Nat \ {0}
                    /\ \A k \in 1..Len(F) :
                          /\ F[k].op \in {"run", "copy"}
                          /\ F[k].op = "run" => F[k].dirs \subseteq Areas(s)
                          /\ F[k].op = "copy" => F[k].name \in Areas(s)
                    /\ \A k, i \in 1..Len(F) :
                          F[i].op = "copy" =>
                             /\ F[k].op = "run" /\ F[i].name \in F[k].dirs => k < i
                             /\ F[k].op = "copy" /\ F[i].name = F[k].name => k = i
  OBVIOUS
<1>1. CASE s \in Checked
  <2>1. F = <<Script(TRUE, {s}), Copy(s, TRUE)>> /\ Areas(s) = {s}
    BY <1>1 DEF Function, Areas, Checked, Unchecked
  <2> QED
    BY <2>1 DEF Script, Copy
<1>2. CASE s \in Unchecked
  <2>1. F = <<Script(FALSE, {s}), Copy(s, FALSE)>> /\ Areas(s) = {s}
    BY <1>2 DEF Function, Areas, Checked, Unchecked
  <2> QED
    BY <2>1 DEF Script, Copy
<1>3. CASE s = "examples"
  <2>1. /\ F = <<Script(TRUE, {"examples_fortran"}), Copy("examples_fortran", TRUE),
                 Script(TRUE, {"examples_openmp"}), Copy("examples_openmp", TRUE)>>
        /\ Areas(s) = {"examples_fortran", "examples_openmp"}
    BY <1>3 DEF Function, Areas, Checked, Unchecked
  <2> QED
    BY <2>1 DEF Script, Copy
<1>4. CASE s = "sollve"
  <2>1. /\ F = <<Script(FALSE, {}), Script(TRUE, Sollve),
                 Copy("sollve45", FALSE), Copy("sollve50", FALSE),
                 Copy("sollve51", FALSE), Copy("sollve52", FALSE)>>
        /\ Areas(s) = Sollve
    BY <1>4 DEF Function, Areas, Checked, Unchecked
  <2> QED
    BY <2>1 DEF Script, Copy, Sollve
<1> QED
  BY <1>1, <1>2, <1>3, <1>4 DEF Suites

\* No two suites share a results directory.
LEMMA Owners ==
    ASSUME NEW s1 \in Suites, NEW s2 \in Suites, NEW a, a \in Areas(s1), a \in Areas(s2)
    PROVE  s1 = s2
<1>1. \A s \in Suites : Areas(s) = IF s \in Checked \cup Unchecked THEN {s}
                                   ELSE IF s = "examples"
                                        THEN {"examples_fortran", "examples_openmp"}
                                        ELSE Sollve
  BY DEF Areas, Suites, Checked, Unchecked
<1> QED
  BY <1>1 DEF Suites, Checked, Unchecked, Sollve

-----------------------------------------------------------------------------
(* What copyresults adds for one suite.                                    *)

\* The result files are those of the outcomes.
Disk ==
    /\ world \in Worlds /\ epsdb \in BOOLEAN
    /\ \A a \in DOMAIN Tests :
          outcome[a] \in [Tests[a] -> Outcomes] /\ files[a] = FilesOf(outcome[a])

LEMMA ResultFiles ==
    ASSUME Disk, NEW a \in DOMAIN Tests
    PROVE  /\ files[a].pass = {l \in Tests[a] \X {"pass"} : l[2] \in outcome[a][l[1]]}
           /\ files[a].fail = {l \in Tests[a] \X {"fail"} : l[2] \in outcome[a][l[1]]}
           /\ files[a].make =
                 {l \in Tests[a] \X {"makefail", "checkfail"} : l[2] \in outcome[a][l[1]]}
<1> DEFINE o == outcome[a]
<1>1. files[a] = FilesOf(o) /\ DOMAIN o = Tests[a]
  BY DEF Disk
<1> HIDE DEF o
<1>2. /\ FilesOf(o).pass = {l \in (DOMAIN o) \X {"pass"} : l[2] \in o[l[1]]}
      /\ FilesOf(o).fail = {l \in (DOMAIN o) \X {"fail"} : l[2] \in o[l[1]]}
      /\ FilesOf(o).make =
            {l \in (DOMAIN o) \X {"makefail", "checkfail"} : l[2] \in o[l[1]]}
  BY DEF FilesOf
<1> QED
  BY <1>1, <1>2 DEF o

LEMMA SomeKinds == IsFiniteSet(Kinds)
<1>1. IsFiniteSet({"pass"}) /\ IsFiniteSet({"pass"} \cup {"fail"})
  BY FS_Singleton, FS_AddElement
<1>2. IsFiniteSet(({"pass"} \cup {"fail"}) \cup {"makefail"})
  BY <1>1, FS_AddElement
<1>3. IsFiniteSet((({"pass"} \cup {"fail"}) \cup {"makefail"}) \cup {"checkfail"})
  BY <1>2, FS_AddElement
<1>4. Kinds = (({"pass"} \cup {"fail"}) \cup {"makefail"}) \cup {"checkfail"}
  BY DEF Kinds
<1> QED
  BY <1>3, <1>4

\* A suite's unexpected failures are what it reports or withholds.
LEMMA FailsAreFailures ==
    ASSUME Disk, NEW a \in DOMAIN Tests
    PROVE  /\ Fails(a) = Failures(a) /\ Failures(a) \subseteq Tests[a] \X Kinds
           /\ IsFiniteSet(Failures(a)) /\ Cardinality(Failures(a)) \in Nat
<1>1. /\ world.expected[a] \subseteq Tests[a] /\ IsFiniteSet(Tests[a])
  BY RocmAssumption DEF Disk
<1>2. Failures(a) \in SUBSET (Tests[a] \X Kinds)
  BY DEF Failures
<1>3. Fails(a) = Failures(a)
  <2>1. CASE a \in MustPass
    <3>1. Failures(a) = {l \in Tests[a] \X Kinds : l[2] # "pass" /\ l[2] \in outcome[a][l[1]]}
      BY <2>1 DEF Failures
    <3>2. Fails(a) = files[a].fail \cup files[a].make
      BY <2>1 DEF Fails
    <3> QED
      BY <3>1, <3>2, ResultFiles DEF Kinds
  <2>2. CASE a \notin MustPass
    <3>1. Failures(a) = {l \in Tests[a] \X Kinds :
                            /\ l[2] = "pass" /\ l[1] \in Expected(a)
                            /\ "pass" \notin outcome[a][l[1]]}
      BY <2>2 DEF Failures, Failed
    <3>2. Fails(a) = (Expected(a) \X {"pass"}) \ files[a].pass
      BY <2>2 DEF Fails, Passes
    <3>3. Expected(a) \subseteq Tests[a]
      BY <1>1, <2>2 DEF Expected
    <3>4. files[a].pass = {l \in Tests[a] \X {"pass"} : l[2] \in outcome[a][l[1]]}
      BY ResultFiles
    <3> HIDE DEF Fails
    <3>5. ASSUME NEW l \in Fails(a) PROVE l \in Failures(a)
      BY <3>1, <3>2, <3>3, <3>4, <3>5 DEF Kinds
    <3>6. ASSUME NEW l \in Failures(a) PROVE l \in Fails(a)
      BY <3>1, <3>2, <3>3, <3>4, <3>6 DEF Kinds
    <3> QED
      BY <3>5, <3>6
  <2> QED
    BY <2>1, <2>2
<1>4. IsFiniteSet(Tests[a] \X Kinds)
  BY <1>1, SomeKinds, FS_Product
<1> QED
  BY <1>2, <1>3, <1>4, FS_Subset, FS_CardinalityType

\* As many pairs with one second part as first parts.
LEMMA Tagged ==
    ASSUME NEW T, IsFiniteSet(T), NEW c
    PROVE  /\ IsFiniteSet({<<t, c>> : t \in T})
           /\ Cardinality({<<t, c>> : t \in T}) = Cardinality(T)
<1> DEFINE P == {<<t, c>> : t \in T}
           f == [t \in T |-> <<t, c>>]
<1>1. f \in Bijection(T, P)
  BY DEF Bijection, Injection, Surjection, IsInjective
<1>2. ExistsBijection(T, P) /\ f \in Surjection(T, P)
  BY <1>1 DEF ExistsBijection, Bijection
<1> HIDE DEF P, f
<1>3. Cardinality(P) = Cardinality(T) /\ IsFiniteSet(P)
  BY <1>2, FS_Bijection, FS_Surjection
<1> QED
  BY <1>3 DEF P

\* The lines have finitely many words.
LEMMA SomeWords ==
    ASSUME NEW a \in DOMAIN Tests, NEW L \in SUBSET (Tests[a] \X Kinds), IsFiniteSet(L)
    PROVE  IsFiniteSet(WordsOf(L))
<1> DEFINE Of(l) == {<<l, i>> : i \in DOMAIN Words[l]}
           All == {Of(l) : l \in L}
           f == [l \in L |-> Of(l)]
<1>1. ASSUME NEW l \in L PROVE IsFiniteSet(Of(l))
  <2>1. PICK t \in Tests[a], k \in Kinds : l = <<t, k>>
    OBVIOUS
  <2>2. Len(Words[l]) \in Nat /\ DOMAIN Words[l] = 1..Len(Words[l])
    BY <2>1, RocmAssumption
  <2> DEFINE D == DOMAIN Words[l]
             g == [i \in D |-> <<l, i>>]
  <2>3. IsFiniteSet(D)
    BY <2>2, FS_Interval
  <2>4. g \in Surjection(D, Of(l))
    BY DEF Surjection
  <2> HIDE DEF g, D, Of
  <2> QED
    BY <2>3, <2>4, FS_Surjection
<1>2. f \in Surjection(L, All)
  BY DEF Surjection
<1>3. WordsOf(L) = UNION All
  BY DEF WordsOf
<1>4. \A S \in All : IsFiniteSet(S)
  BY <1>1
<1> HIDE DEF f, All, Of
<1>5. IsFiniteSet(All)
  BY <1>2, FS_Surjection
<1>6. IsFiniteSet(UNION All)
  BY <1>4, <1>5, FS_UNION
<1> QED
  BY <1>3, <1>6

\* Taking a part away leaves the rest.
LEMMA TakeAway ==
    ASSUME NEW S, IsFiniteSet(S), NEW T \in SUBSET S, NEW R \in SUBSET (S \ T)
    PROVE  /\ Cardinality(S) - Cardinality(T) \in Nat
           /\ Cardinality(R) <= Cardinality(S) - Cardinality(T)
           /\ Cardinality(S) - Cardinality(T) <= Cardinality(S)
<1>1. /\ IsFiniteSet(T) /\ IsFiniteSet(S \ T) /\ IsFiniteSet(R)
      /\ Cardinality(T) <= Cardinality(S)
  BY FS_Subset
<1>2. Cardinality(R) <= Cardinality(S \ T)
  BY <1>1, FS_Subset
<1>3. Cardinality(T \cup (S \ T)) =
         Cardinality(T) + Cardinality(S \ T) - Cardinality(T \cap (S \ T))
  BY <1>1, FS_Union
<1>4. T \cup (S \ T) = S /\ T \cap (S \ T) = {}
  OBVIOUS
<1>5. /\ Cardinality(S) \in Nat /\ Cardinality(T) \in Nat /\ Cardinality(R) \in Nat
      /\ Cardinality(S \ T) \in Nat /\ Cardinality({}) = 0
  BY <1>1, FS_CardinalityType, FS_EmptySet
<1>6. Cardinality(S) = Cardinality(T) + Cardinality(S \ T)
  <2>1. /\ Cardinality(T \cup (S \ T)) = Cardinality(S)
        /\ Cardinality(T \cap (S \ T)) = 0
    BY <1>4, <1>5
  <2> QED
    BY <1>3, <1>5, <2>1
<1> QED
  BY <1>1, <1>2, <1>5, <1>6

\* What can be misread is a number of words.
LEMMA MisreadType ==
    ASSUME Disk, NEW a \in DOMAIN Tests
    PROVE  /\ IsFiniteSet(Misread(a)) /\ Cardinality(Misread(a)) \in Nat
           /\ a \in HasDirs =>
                LET W == WordsOf(Failures(a))
                    X == {y \in W : y[2] > 1}
                    T == {y \in W : Dir(Word(y)) = "leftover" /\ Word(y) \in world.skips}
                IN  /\ IsFiniteSet(W) /\ IsFiniteSet(X) /\ IsFiniteSet(T)
                    /\ Cardinality(Misread(a)) = Cardinality(X) + Cardinality(T)
<1>1. CASE a \notin HasDirs
  <2>1. Misread(a) = {}
    BY <1>1 DEF Misread
  <2> QED
    BY <1>1, <2>1, FS_EmptySet
<1>2. CASE a \in HasDirs
  <2> DEFINE W == WordsOf(Failures(a))
             X == {y \in W : y[2] > 1}
             T == {y \in W : Dir(Word(y)) = "leftover" /\ Word(y) \in world.skips}
             XX == {<<x, "further">> : x \in X}
             TT == {<<x, "twice">> : x \in T}
  <2>1. IsFiniteSet(W)
    BY FailsAreFailures, SomeWords
  <2>2. X \in SUBSET W /\ T \in SUBSET W
    OBVIOUS
  <2>3. Misread(a) = XX \cup TT
    BY <1>2 DEF Misread
  <2>4. XX \cap TT = {}
    OBVIOUS
  <2> HIDE DEF W, X, T
  <2>5. IsFiniteSet(X) /\ IsFiniteSet(T)
    BY <2>1, <2>2, FS_Subset
  <2>6. /\ IsFiniteSet(XX) /\ Cardinality(XX) = Cardinality(X)
        /\ IsFiniteSet(TT) /\ Cardinality(TT) = Cardinality(T)
    BY <2>5, Tagged
  <2> HIDE DEF XX, TT
  <2>7. /\ IsFiniteSet(XX \cup TT)
        /\ Cardinality(XX \cup TT) = Cardinality(XX) + Cardinality(TT) - Cardinality(XX \cap TT)
        /\ Cardinality(XX \cap TT) = 0
        /\ Cardinality(XX) \in Nat /\ Cardinality(TT) \in Nat
    BY <2>4, <2>6, FS_Union, FS_EmptySet, FS_CardinalityType
  <2>8. /\ IsFiniteSet(Misread(a)) /\ Cardinality(Misread(a)) \in Nat
        /\ Cardinality(Misread(a)) = Cardinality(X) + Cardinality(T)
    BY <2>3, <2>6, <2>7
  <2> QED
    BY <2>1, <2>5, <2>8 DEF W, X, T
<1> QED
  BY <1>1, <1>2

\* The loops take back no more than the excused and unnoticed failures and what is
\* misread: a word is the first one of an excused failure or a further word, and only
\* words of left-over directories whose log says "skipped" are in both loops.
LEMMA TakenBack ==
    ASSUME Disk, NEW a \in DOMAIN Tests, NEW hasDir
    PROVE  \E E \in SUBSET (Failures(a) \ Real(a)) :
              /\ FalseNegatives(a, hasDir) \in Nat
              /\ FalseNegatives(a, hasDir) <= Cardinality(E) + Cardinality(Misread(a))
<1>0. /\ Fails(a) = Failures(a) /\ Failures(a) \subseteq Tests[a] \X Kinds
      /\ IsFiniteSet(Failures(a)) /\ Cardinality(Misread(a)) \in Nat
  BY FailsAreFailures, MisreadType
<1>1. CASE a \in HasDirs /\ hasDir
  <2> DEFINE F == Failures(a)
             W == WordsOf(F)
             U == Unsupported(a)
             N == NotPresent(a)
             E == {l \in F : Excused(a, l[1])}
             E1 == {<<l, 1>> : l \in E}
             X == {y \in W : y[2] > 1}
             T == {y \in W : Dir(Word(y)) = "leftover" /\ Word(y) \in world.skips}
  <2>1. U \in SUBSET W /\ N \in SUBSET W
    BY <1>0 DEF Unsupported, NotPresent
  <2>2. ASSUME NEW x \in W
        PROVE  /\ x[1] \in F /\ x[2] \in Nat \ {0} /\ x = <<x[1], x[2]>>
               /\ x[2] = 1 => Word(x) = Home(x[1][1])
    <3>1. PICK l \in F : \E i \in DOMAIN Words[l] : x = <<l, i>>
      BY <2>2 DEF WordsOf
    <3>2. PICK i \in DOMAIN Words[l] : x = <<l, i>>
      BY <3>1
    <3>3. PICK t \in Tests[a], k \in Kinds : l = <<t, k>>
      BY <1>0, <3>1
    <3>4. /\ Len(Words[l]) \in Nat /\ DOMAIN Words[l] = 1..Len(Words[l])
          /\ Words[l][1] = Words[<<t, "pass">>][1]
      BY <3>3, RocmAssumption
    <3>5. x[1] = l /\ x[2] = i /\ l[1] = t
      BY <3>2, <3>3
    <3>6. i \in Nat \ {0}
      BY <3>2, <3>4
    <3>7. Word(x) = Words[l][i]
      BY <3>5 DEF Word
    <3> QED
      BY <3>1, <3>2, <3>4, <3>5, <3>6, <3>7 DEF Home
  <2>3. ASSUME NEW x \in U \cup N PROVE x \in E1 \cup X
    <3>1. x \in W /\ (Word(x) \in world.skips \/ Dir(Word(x)) # "whole")
      BY <1>0, <2>3 DEF Unsupported, NotPresent
    <3>2. CASE x[2] = 1
      <4>1. x = <<x[1], 1>> /\ x[1] \in F /\ Word(x) = Home(x[1][1])
        BY <2>2, <3>1, <3>2
      <4>2. Excused(a, x[1][1])
        BY <1>1, <3>1, <4>1 DEF Excused, Removed
      <4> QED
        BY <4>1, <4>2
    <3>3. CASE x[2] # 1
      BY <2>2, <3>1, <3>3
    <3> QED
      BY <3>2, <3>3
  <2>4. U \cap N \in SUBSET T
    <3>1. ASSUME NEW x \in U \cap N PROVE Dir(Word(x)) = "leftover"
      <4>1. Dir(Word(x)) # "gone" /\ Dir(Word(x)) # "whole"
        BY <3>1 DEF Unsupported, NotPresent
      <4>2. \A w : Dir(w) \in {"whole", "leftover", "gone"}
        BY RocmAssumption DEF Dir, Disk
      <4> QED
        BY <4>1, <4>2
    <3>2. ASSUME NEW x \in U \cap N PROVE Word(x) \in world.skips
      BY <3>2 DEF Unsupported
    <3> QED
      BY <2>1, <3>1, <3>2
  <2>5. E \in SUBSET (Failures(a) \ Real(a)) /\ E \in SUBSET Failures(a)
    BY DEF Real
  <2>6. /\ IsFiniteSet(W) /\ IsFiniteSet(X) /\ IsFiniteSet(T)
        /\ Cardinality(Misread(a)) = Cardinality(X) + Cardinality(T)
    BY <1>1, MisreadType
  <2>7. FalseNegatives(a, hasDir) = Cardinality(U) + Cardinality(N)
    BY <1>1 DEF FalseNegatives
  <2> HIDE DEF F, W, U, N, E, E1, X, T
  <2>8. IsFiniteSet(U) /\ IsFiniteSet(N) /\ IsFiniteSet(E)
    BY <1>0, <2>1, <2>5, <2>6, FS_Subset
  <2>9. IsFiniteSet(E1) /\ Cardinality(E1) = Cardinality(E)
    BY <2>8, Tagged DEF E1
  <2>10. /\ Cardinality(U \cup N) = Cardinality(U) + Cardinality(N) - Cardinality(U \cap N)
         /\ Cardinality(U) \in Nat /\ Cardinality(N) \in Nat
         /\ Cardinality(U \cap N) \in Nat /\ Cardinality(T) \in Nat
         /\ Cardinality(U \cap N) <= Cardinality(T)
    <3>1. IsFiniteSet(U \cap N)
      BY <2>4, <2>6, FS_Subset
    <3> QED
      BY <2>4, <2>6, <2>8, <3>1, FS_Union, FS_Subset, FS_CardinalityType
  <2>11. /\ Cardinality(E1 \cup X) = Cardinality(E1) + Cardinality(X) - Cardinality(E1 \cap X)
         /\ IsFiniteSet(E1 \cup X) /\ Cardinality(E1 \cap X) \in Nat
         /\ Cardinality(E1) \in Nat /\ Cardinality(X) \in Nat
    <3>1. E1 \cap X \in SUBSET X
      OBVIOUS
    <3>2. IsFiniteSet(E1 \cap X)
      BY <2>6, <3>1, FS_Subset
    <3> QED
      BY <2>6, <2>9, <3>2, FS_Union, FS_CardinalityType
  <2>12. Cardinality(U \cup N) <= Cardinality(E1 \cup X) /\ Cardinality(U \cup N) \in Nat
    <3>1. U \cup N \in SUBSET (E1 \cup X)
      BY <2>3
    <3>2. IsFiniteSet(U \cup N) /\ Cardinality(U \cup N) <= Cardinality(E1 \cup X)
      BY <2>11, <3>1, FS_Subset
    <3> QED
      BY <3>2, FS_CardinalityType
  <2>13. Cardinality(U) + Cardinality(N) <= Cardinality(E) + Cardinality(X) + Cardinality(T)
    BY <2>9, <2>10, <2>11, <2>12
  <2>14. Cardinality(E) \in Nat
    BY <2>8, FS_CardinalityType
  <2>15. /\ FalseNegatives(a, hasDir) \in Nat
         /\ FalseNegatives(a, hasDir) <= Cardinality(E) + Cardinality(Misread(a))
    BY <2>6, <2>7, <2>10, <2>11, <2>13, <2>14
  <2> QED
    BY <2>5, <2>15
<1>2. CASE ~(a \in HasDirs /\ hasDir) /\ a \in HasList
  <2>1. Unmentioned(a) \in SUBSET Failures(a)
    BY <1>0 DEF Unmentioned
  <2>2. ASSUME NEW l \in Unmentioned(a) PROVE Excused(a, l[1]) \/ Unnoticed(a, l[1])
    <3>1. l \in Tests[a] \X Kinds
      BY <1>0, <2>1
    <3>2. PICK t \in Tests[a], k \in Kinds : l = <<t, k>>
      BY <3>1
    <3>3. l[1] = t
      BY <3>2
    <3>4. \A x \in files[a].pass \cup files[a].fail \cup files[a].make : x[1] # t
      BY <2>2, <3>3 DEF Unmentioned
    <3>5. ASSUME NEW j \in Kinds PROVE j \notin outcome[a][t]
      <4>1. j \in outcome[a][t] =>
               <<t, j>> \in files[a].pass \cup files[a].fail \cup files[a].make
        BY ResultFiles DEF Kinds
      <4> QED
        BY <3>4, <4>1
    <3>6. outcome[a][t] \in Outcomes
      BY DEF Disk
    <3>7. outcome[a][t] = {} \/ outcome[a][t] = {"lost"}
      <4>1. CASE outcome[a][t] = {}
        BY <4>1
      <4>2. ASSUME NEW j \in Kinds \cup {"lost"}, outcome[a][t] = {j}
            PROVE  outcome[a][t] = {"lost"}
        <5>1. j \in outcome[a][t]
          BY <4>2
        <5> QED
          BY <3>5, <4>2, <5>1
      <4>3. ASSUME NEW j, outcome[a][t] = {"makefail", j} PROVE FALSE
        <5>1. "makefail" \in outcome[a][t] /\ "makefail" \in Kinds
          BY <4>3 DEF Kinds
        <5> QED
          BY <3>5, <5>1
      <4>4. \/ outcome[a][t] = {}
            \/ \E j \in Kinds \cup {"lost"} : outcome[a][t] = {j}
            \/ \E j \in {"pass", "fail", "checkfail"} : outcome[a][t] = {"makefail", j}
        BY <3>6 DEF Outcomes
      <4> QED
        BY <4>1, <4>2, <4>3, <4>4
    <3> QED
      BY <1>2, <3>3, <3>7 DEF Excused, Unnoticed
  <2>3. Unmentioned(a) \in SUBSET (Failures(a) \ Real(a))
    BY <2>1, <2>2 DEF Real
  <2>4. FalseNegatives(a, hasDir) = Cardinality(Unmentioned(a))
    BY <1>2 DEF FalseNegatives
  <2>5. Cardinality(Unmentioned(a)) \in Nat
    BY <1>0, <2>1, FS_Subset, FS_CardinalityType
  <2> QED
    BY <1>0, <2>3, <2>4, <2>5
<1>3. CASE ~(a \in HasDirs /\ hasDir) /\ a \notin HasList
  <2>1. FalseNegatives(a, hasDir) = 0 /\ Cardinality({}) = 0
    BY <1>3, FS_EmptySet DEF FalseNegatives
  <2> QED
    BY <1>0, <2>1
<1> QED
  BY <1>1, <1>2, <1>3

\* So what is left is at most the number of failures, and with what is misread at least
\* the number of the real ones.
LEMMA Share ==
    ASSUME Disk, NEW a \in DOMAIN Tests, NEW hasDir
    PROVE  LET n == unexpectedfails(a, hasDir) IN
           /\ n \in Int /\ n <= Cardinality(Failures(a))
           /\ Cardinality(Real(a)) <= n + Cardinality(Misread(a))
<1>1. /\ Fails(a) = Failures(a) /\ IsFiniteSet(Failures(a))
      /\ Cardinality(Failures(a)) \in Nat
      /\ Cardinality(Misread(a)) \in Nat
  BY FailsAreFailures, MisreadType
<1>2. PICK E \in SUBSET (Failures(a) \ Real(a)) :
              /\ FalseNegatives(a, hasDir) \in Nat
              /\ FalseNegatives(a, hasDir) <= Cardinality(E) + Cardinality(Misread(a))
  BY TakenBack
<1>3. E \in SUBSET Failures(a) /\ Real(a) \in SUBSET (Failures(a) \ E)
  BY DEF Real
<1>4. Cardinality(Real(a)) <= Cardinality(Failures(a)) - Cardinality(E)
  BY <1>1, <1>3, TakeAway
<1>5. Cardinality(E) \in Nat /\ Cardinality(Real(a)) \in Nat
  <2>1. IsFiniteSet(E) /\ IsFiniteSet(Real(a))
    BY <1>1, <1>3, FS_Subset
  <2> QED
    BY <2>1, FS_CardinalityType
<1>6. unexpectedfails(a, hasDir) = Cardinality(Failures(a)) - FalseNegatives(a, hasDir)
  BY <1>1 DEF unexpectedfails
<1> QED
  BY <1>1, <1>2, <1>4, <1>5, <1>6

\* A suite without passing tests counts all its failures, and one that must pass also
\* what numtests was before.
LEMMA ShareWithoutPasses ==
    ASSUME Disk, NEW a \in DOMAIN Tests, files[a].pass = {}, numtests \in Nat
    PROVE  numtestsOf(a) =
              Cardinality(Failures(a)) + (IF a \in MustPass THEN numtests ELSE 0)
<1>0. /\ Fails(a) = Failures(a)
      /\ IsFiniteSet(Failures(a)) /\ Cardinality(Failures(a)) \in Nat
  BY FailsAreFailures
<1>1. CASE a \in MustPass
  <2>1. /\ Failures(a) = files[a].fail \cup files[a].make
        /\ files[a].fail \cap files[a].make = {}
    BY <1>0, <1>1, ResultFiles DEF Fails
  <2>2. IsFiniteSet(files[a].fail) /\ IsFiniteSet(files[a].make)
    <3>1. files[a].fail \in SUBSET Failures(a) /\ files[a].make \in SUBSET Failures(a)
      BY <2>1
    <3> QED
      BY <1>0, <3>1, FS_Subset
  <2>3. /\ Cardinality(files[a].fail) \in Nat /\ Cardinality(files[a].make) \in Nat
        /\ Cardinality(files[a].fail \cup files[a].make) =
              Cardinality(files[a].fail) + Cardinality(files[a].make)
                 - Cardinality(files[a].fail \cap files[a].make)
        /\ Cardinality({}) = 0
    BY <2>2, FS_Union, FS_CardinalityType, FS_EmptySet
  <2>4. numtestsOf(a) = numtests + Cardinality(files[a].fail) + Cardinality(files[a].make)
    BY <1>1 DEF numtestsOf, Expected
  <2>5. /\ Cardinality(files[a].fail \cup files[a].make) = Cardinality(Failures(a))
        /\ Cardinality(files[a].fail \cap files[a].make) = 0
    BY <2>1, <2>3
  <2> QED
    BY <1>0, <1>1, <2>3, <2>4, <2>5
<1>2. CASE a \notin MustPass
  <2>1. Failures(a) = {<<t, "pass">> : t \in Expected(a)}
    BY <1>0, <1>2 DEF Fails, Passes
  <2>2. IsFiniteSet(Expected(a))
    <3>1. Expected(a) \in SUBSET Tests[a] /\ IsFiniteSet(Tests[a])
      BY <1>2, RocmAssumption DEF Disk, Expected
    <3> QED
      BY <3>1, FS_Subset
  <2>3. Cardinality(Failures(a)) = Cardinality(Expected(a))
    BY <2>1, <2>2, Tagged
  <2>4. numtestsOf(a) = Cardinality(Expected(a))
    BY <1>2, FS_EmptySet DEF numtestsOf
  <2> QED
    BY <1>0, <1>2, <2>3, <2>4
<1> QED
  BY <1>1, <1>2

-----------------------------------------------------------------------------
(* Where a session is, and what its files hold.                            *)

Place ==
    /\ list \in SuiteLists /\ at \in 1..(Len(list) + 1) /\ step \in Nat \ {0}
    /\ IF at <= Len(list) /\ list[at] \in Suites
       THEN step <= Len(Function(list[at])) ELSE step = 1
Tallies ==
    /\ copied \subseteq DOMAIN Tests
    /\ totalunexpectedfails \in Int /\ scriptfails \in Nat /\ numtests \in Nat
    /\ verdict \in {"none", "green", "red"} /\ status \in 0..255
Types == Place /\ Disk /\ Tallies

\* The command the script is at.
LEMMA CurrentCommand ==
    ASSUME Types, NEW op, NextIs(op)
    PROVE  /\ at \in 1..Len(list) /\ list[at] \in Suites
           /\ step \in 1..Len(Function(list[at])) /\ Command = Function(list[at])[step]
           /\ Areas(list[at]) \subseteq DOMAIN Tests
           /\ op = "run" => Command.dirs \subseteq Areas(list[at])
           /\ op = "copy" => Command.name \in Areas(list[at])
<1>1. Len(list) \in Nat
  BY RocmAssumption DEF Types, Place
<1>2. at \in 1..Len(list) /\ list[at] \in Suites /\ Command.op = op
  BY <1>1 DEF NextIs, Types, Place
<1>3. Areas(list[at]) \subseteq DOMAIN Tests
  BY <1>2, RocmAssumption DEF Types, Place
<1>4. step \in 1..Len(Function(list[at])) /\ Len(Function(list[at])) \in Nat
  BY <1>1, <1>2, Layout DEF Types, Place
<1>5. Command = Function(list[at])[step]
  BY DEF Command
<1> QED
  BY <1>2, <1>3, <1>4, <1>5, Layout

LEMMA AdvancePlace ==
    ASSUME Types, NEW op, NextIs(op), Advance
    PROVE  /\ Place'
           /\ list' = list /\ at <= at'
           /\ \/ at' = at /\ step' = step + 1
              \/ at' = at + 1 /\ step' = 1
<1>1. Len(list) \in Nat /\ at \in Nat /\ step \in Nat
  BY RocmAssumption DEF Types, Place
<1>2. /\ at \in 1..Len(list) /\ list[at] \in Suites
      /\ step \in 1..Len(Function(list[at]))
      /\ Len(Function(list[at])) \in Nat
  BY CurrentCommand, Layout
<1>3. list' = list
  BY DEF Advance
<1>4. CASE step < Len(Function(list[at]))
  <2>1. step' = step + 1 /\ at' = at
    BY <1>4 DEF Advance
  <2> QED
    BY <1>1, <1>2, <1>3, <1>4, <2>1 DEF Place, Types
<1>5. CASE ~(step < Len(Function(list[at])))
  <2>1. step' = 1 /\ at' = at + 1
    BY <1>5 DEF Advance
  <2>2. \A s \in Suites : 1 <= Len(Function(s)) /\ Len(Function(s)) \in Nat
    BY Layout
  <2> QED
    BY <1>1, <1>2, <1>3, <2>1, <2>2 DEF Place, Types
<1> QED
  BY <1>4, <1>5

\* What a script may change.
LEMMA ScriptOutcome ==
    ASSUME Types, RunScript
    PROVE  /\ Disk' /\ scriptfails' \in Nat
           /\ \A a \in DOMAIN Tests \ Command.dirs :
                 outcome'[a] = outcome[a] /\ files'[a] = files[a]
<1>1. UNCHANGED <<world, epsdb>>
  BY DEF RunScript, Advance
<1>2. PICK o \in Reported(Command.dirs), failed \in {0, 1} :
               /\ outcome' = [a \in DOMAIN Tests |->
                     IF a \in Command.dirs THEN o[a] ELSE outcome[a]]
               /\ files' = [a \in DOMAIN Tests |->
                     IF a \in Command.dirs THEN FilesOf(o[a]) ELSE files[a]]
               /\ scriptfails' = scriptfails + (IF Command.tested THEN failed ELSE 0)
  BY DEF RunScript
<1>3. ASSUME NEW a \in Command.dirs PROVE o[a] \in [Tests[a] -> Outcomes]
  <2> DEFINE Runs == UNION {{d} \X Tests[d] : d \in Command.dirs}
  <2>1. PICK f \in [Runs -> Outcomes] :
             o = [d \in Command.dirs |-> [t \in Tests[d] |-> f[<<d, t>>]]]
    BY DEF Reported
  <2>2. \A t \in Tests[a] : <<a, t>> \in Runs
    OBVIOUS
  <2>3. o[a] = [t \in Tests[a] |-> f[<<a, t>>]]
    BY <2>1
  <2> HIDE DEF Runs
  <2> QED
    BY <2>1, <2>2, <2>3
<1>4. ASSUME NEW a \in DOMAIN Tests
      PROVE  outcome'[a] \in [Tests[a] -> Outcomes] /\ files'[a] = FilesOf(outcome'[a])
  BY <1>2, <1>3 DEF Types, Disk
<1>5. scriptfails' \in Nat
  BY <1>2 DEF Types, Tallies
<1> QED
  BY <1>1, <1>2, <1>4, <1>5 DEF Types, Disk

\* What copyresults counts.
LEMMA CopyCounts ==
    ASSUME Types, copyresults
    PROVE  \E a \in DOMAIN Tests, n \in Int :
              /\ a = Command.name
              /\ copied' = copied \cup {a}
              /\ totalunexpectedfails' = totalunexpectedfails + (IF Counts(a) THEN n ELSE 0)
              /\ numtests' = IF files[a].pass # {} THEN numtests ELSE n
              /\ files[a].pass = {} => n \in Nat
              /\ Cardinality(Real(a)) <= n + Cardinality(Misread(a))
              /\ \/ n <= Cardinality(Failures(a))
                 \/ /\ files[a].pass = {} /\ a \in MustPass /\ numtests # 0
                    /\ n = numtests + Cardinality(Failures(a))
<1> DEFINE a == Command.name
           hasPasses == files[a].pass # {}
           n == IF hasPasses THEN unexpectedfails(a, Command.hasDir) ELSE numtestsOf(a)
<1>1. a \in DOMAIN Tests
  BY CurrentCommand DEF copyresults
<1>2. /\ copied' = copied \cup {a}
      /\ totalunexpectedfails' = totalunexpectedfails + (IF Counts(a) THEN n ELSE 0)
      /\ numtests' = IF hasPasses THEN numtests ELSE n
  BY DEF copyresults
<1>3. /\ Cardinality(Failures(a)) \in Nat /\ Cardinality(Misread(a)) \in Nat
      /\ Cardinality(Real(a)) \in Nat /\ Cardinality(Real(a)) <= Cardinality(Failures(a))
  <2>1. /\ IsFiniteSet(Failures(a)) /\ Cardinality(Failures(a)) \in Nat
        /\ Cardinality(Misread(a)) \in Nat
    BY <1>1, FailsAreFailures, MisreadType DEF Types
  <2>2. Real(a) \in SUBSET Failures(a)
    BY DEF Real
  <2> QED
    BY <2>1, <2>2, FS_Subset, FS_CardinalityType
<1>4. CASE hasPasses
  <2>1. /\ n \in Int /\ n <= Cardinality(Failures(a))
        /\ Cardinality(Real(a)) <= n + Cardinality(Misread(a))
    <3>1. n = unexpectedfails(a, Command.hasDir)
      BY <1>4
    <3> HIDE DEF n, a
    <3> QED
      BY <1>1, <3>1, Share DEF Types
  <2> HIDE DEF n, a
  <2> QED
    BY <1>1, <1>2, <1>4, <2>1 DEF a
<1>5. CASE ~hasPasses
  <2>1. n = Cardinality(Failures(a)) + (IF a \in MustPass THEN numtests ELSE 0)
    <3>1. n = numtestsOf(a) /\ files[a].pass = {} /\ numtests \in Nat
      BY <1>5 DEF Types, Tallies
    <3> HIDE DEF n, a
    <3> QED
      BY <1>1, <3>1, ShareWithoutPasses DEF Types
  <2>2. numtests \in Nat
    BY DEF Types, Tallies
  <2> HIDE DEF n, a
  <2>3. n \in Nat /\ Cardinality(Real(a)) <= n + Cardinality(Misread(a))
    BY <1>3, <2>1, <2>2
  <2>4. \/ n <= Cardinality(Failures(a))
        \/ /\ files[a].pass = {} /\ a \in MustPass /\ numtests # 0
           /\ n = numtests + Cardinality(Failures(a))
    BY <1>3, <1>5, <2>1, <2>2
  <2>5. n \in Int
    BY <2>3
  <2> QED
    BY <1>1, <1>2, <1>5, <2>3, <2>4, <2>5 DEF a
<1> QED
  BY <1>4, <1>5

-----------------------------------------------------------------------------
(* Types.                                                                  *)

LEMMA TypesInvariant == Spec => []Types
<1>1. ASSUME Init PROVE Types
  <2>1. Len(list) \in Nat /\ \A s \in Suites : 1 <= Len(Function(s))
    BY <1>1, RocmAssumption, Layout DEF Init
  <2>2. Place
    BY <1>1, <2>1 DEF Init, Place
  <2>3. Disk
    <3> SUFFICES ASSUME NEW a \in DOMAIN Tests
                 PROVE  Unrun(a) \in [Tests[a] -> Outcomes] /\ NoFiles = FilesOf(Unrun(a))
      BY <1>1 DEF Init, Disk
    <3>1. DOMAIN Unrun(a) = Tests[a] /\ \A t \in Tests[a] : Unrun(a)[t] = {}
      BY DEF Unrun
    <3> QED
      BY <3>1 DEF Unrun, Outcomes, NoFiles, FilesOf
  <2>4. Tallies
    BY <1>1 DEF Init, Tallies
  <2> QED
    BY <2>2, <2>3, <2>4 DEF Types
<1>2. ASSUME Types, [Next]_vars PROVE Types'
  <2>1. CASE RunScript
    <3>1. Place'
      BY <1>2, <2>1, AdvancePlace DEF RunScript
    <3>2. Tallies'
      BY <1>2, <2>1, ScriptOutcome DEF RunScript, Advance, Types, Tallies
    <3> QED
      BY <1>2, <2>1, <3>1, <3>2, ScriptOutcome DEF Types
  <2>2. CASE copyresults
    <3>1. Place'
      BY <1>2, <2>2, AdvancePlace DEF copyresults
    <3>2. Disk'
      BY <1>2, <2>2 DEF copyresults, Advance, Types, Disk
    <3>3. Tallies'
      <4>1. PICK a \in DOMAIN Tests, n \in Int :
              /\ copied' = copied \cup {a}
              /\ totalunexpectedfails' =
                    totalunexpectedfails + (IF Counts(a) THEN n ELSE 0)
              /\ numtests' = IF files[a].pass # {} THEN numtests ELSE n
              /\ files[a].pass = {} => n \in Nat
        BY <1>2, <2>2, CopyCounts
      <4> QED
        BY <1>2, <2>2, <4>1 DEF copyresults, Advance, Types, Tallies
    <3> QED
      BY <3>1, <3>2, <3>3 DEF Types
  <2>3. CASE CommandNotFound
    <3>1. Len(list) \in Nat /\ list[at] \notin Suites
      <4>1. \A s \in NoFunctions : s \notin Suites
        BY DEF NoFunctions, Suites, Checked, Unchecked
      <4> QED
        BY <1>2, <2>3, <4>1, RocmAssumption DEF CommandNotFound, Types, Place
    <3>2. \A s \in Suites : 1 <= Len(Function(s)) /\ Len(Function(s)) \in Nat
      BY Layout
    <3>3. step = 1 /\ step' = 1 /\ at' = at + 1 /\ list' = list /\ at <= Len(list)
      BY <1>2, <2>3, <3>1 DEF CommandNotFound, Types, Place
    <3>4. Place'
      BY <1>2, <3>1, <3>2, <3>3 DEF Types, Place
    <3> QED
      BY <1>2, <2>3, <3>4 DEF CommandNotFound, counters, Types, Disk, Tallies
  <2>4. CASE Verdict
    <3>1. \A n \in Int : n % 256 \in 0..255
      OBVIOUS
    <3> QED
      BY <1>2, <2>4, <3>1 DEF Verdict, counters, Types, Place, Disk, Tallies
  <2>5. CASE UNCHANGED vars
    BY <1>2, <2>5 DEF vars, Types, Place, Disk, Tallies
  <2> QED
    BY <1>2, <2>1, <2>2, <2>3, <2>4, <2>5 DEF Next, Done
<1> QED
  BY <1>1, <1>2, PTL DEF Spec

\* Types (TypeOK): scriptfails and numtests are never negative, and the exit status is
\* a byte although the total may be.
THEOREM TypeCorrect == Spec => []TypeOK
<1>1. Types => TypeOK
  BY DEF Types, Place, Disk, Tallies, TypeOK
<1> QED
  BY <1>1, TypesInvariant, PTL

-----------------------------------------------------------------------------
(* The order of the copies.                                                *)

\* A list names a suite once, as both default lists do.
SuitesOnce ==
    \A s \in SuiteLists : \A m, n \in 1..Len(s) : s[m] \in Suites /\ s[m] = s[n] => m = n

\* Whatever has been copied was copied by an earlier command.
Placed ==
    \A a \in copied : \E m \in 1..Len(list) :
        /\ list[m] \in Suites
        /\ \E k \in 1..Len(Function(list[m])) :
              /\ Function(list[m])[k].op = "copy" /\ Function(list[m])[k].name = a
              /\ \/ m < at
                 \/ m = at /\ k < step

\* So no script overwrites results that have been copied, and none is copied twice.
LEMMA Fresh ==
    ASSUME SuitesOnce, Types, Placed, NEW op, NextIs(op)
    PROVE  /\ op = "run" => Command.dirs \cap copied = {}
           /\ op = "copy" => Command.name \notin copied
<1>1. /\ at \in 1..Len(list) /\ list[at] \in Suites
      /\ step \in 1..Len(Function(list[at])) /\ Command = Function(list[at])[step]
      /\ op = "run" => Command.dirs \subseteq Areas(list[at])
      /\ op = "copy" => Command.name \in Areas(list[at])
  BY CurrentCommand
<1>2. Command.op = op
  BY DEF NextIs
<1>3. ASSUME NEW a \in copied, (op = "run" /\ a \in Command.dirs)
                                \/ (op = "copy" /\ a = Command.name)
      PROVE  FALSE
  <2>1. PICK m \in 1..Len(list) :
          /\ list[m] \in Suites
          /\ \E k \in 1..Len(Function(list[m])) :
                /\ Function(list[m])[k].op = "copy" /\ Function(list[m])[k].name = a
                /\ \/ m < at
                   \/ m = at /\ k < step
    BY DEF Placed
  <2>2. PICK k \in 1..Len(Function(list[m])) :
          /\ Function(list[m])[k].op = "copy" /\ Function(list[m])[k].name = a
          /\ \/ m < at
             \/ m = at /\ k < step
    BY <2>1
  <2>3. a \in Areas(list[m]) /\ a \in Areas(list[at])
    BY <1>1, <1>3, <2>1, <2>2, Layout
  <2>4. list[m] = list[at]
    BY <1>1, <2>1, <2>3, Owners
  <2>5. m = at
    BY <1>1, <2>1, <2>4 DEF SuitesOnce, Types, Place
  <2>6. k < step
    BY <1>1, <2>2, <2>5
  <2>7. CASE op = "run"
    <3>1. step < k
      BY <1>1, <1>2, <1>3, <2>2, <2>5, <2>7, Layout
    <3> QED
      BY <1>1, <2>6, <3>1
  <2>8. CASE op = "copy"
    <3>1. step = k
      BY <1>1, <1>2, <1>3, <2>2, <2>5, <2>8, Layout
    <3> QED
      BY <1>1, <2>6, <3>1
  <2> QED
    BY <1>3, <2>7, <2>8
<1>4. ASSUME op = "run" PROVE Command.dirs \cap copied = {}
  BY <1>3, <1>4
<1>5. ASSUME op = "copy" PROVE Command.name \notin copied
  BY <1>3, <1>5
<1> QED
  BY <1>4, <1>5

LEMMA PlacedStep ==
    ASSUME Types, Placed, [Next]_vars
    PROVE  Placed'
<1>1. ASSUME NEW a \in copied, list' = list, at \in Nat, step \in Nat,
             at' \in Nat, step' \in Nat,
             \/ at < at'
             \/ at' = at /\ step <= step'
      PROVE  \E m \in 1..Len(list') :
                /\ list'[m] \in Suites
                /\ \E k \in 1..Len(Function(list'[m])) :
                      /\ Function(list'[m])[k].op = "copy" /\ Function(list'[m])[k].name = a
                      /\ \/ m < at'
                         \/ m = at' /\ k < step'
  <2>0. Len(list) \in Nat /\ \A s \in Suites : Len(Function(s)) \in Nat
    BY RocmAssumption, Layout DEF Types, Place
  <2>1. PICK m \in 1..Len(list) :
          /\ list[m] \in Suites
          /\ \E k \in 1..Len(Function(list[m])) :
                /\ Function(list[m])[k].op = "copy" /\ Function(list[m])[k].name = a
                /\ \/ m < at
                   \/ m = at /\ k < step
    BY DEF Placed
  <2>2. PICK k \in 1..Len(Function(list[m])) :
          /\ Function(list[m])[k].op = "copy" /\ Function(list[m])[k].name = a
          /\ \/ m < at
             \/ m = at /\ k < step
    BY <2>1
  <2>3. \/ m < at'
        \/ m = at' /\ k < step'
    BY <1>1, <2>0, <2>1, <2>2
  <2> QED
    BY <1>1, <2>1, <2>2, <2>3
<1>2. at \in Nat /\ step \in Nat
  BY RocmAssumption DEF Types, Place
<1>3. ASSUME NEW op, NextIs(op), Advance
      PROVE  /\ list' = list /\ at' \in Nat /\ step' \in Nat
             /\ \/ at < at'
                \/ at' = at /\ step < step'
  BY <1>2, <1>3, AdvancePlace
<1>4. CASE RunScript
  <2>1. copied' = copied
    BY <1>4 DEF RunScript
  <2>2. /\ list' = list /\ at' \in Nat /\ step' \in Nat
        /\ \/ at < at'
           \/ at' = at /\ step <= step'
    BY <1>2, <1>3, <1>4 DEF RunScript
  <2> QED
    BY <1>1, <1>2, <2>1, <2>2 DEF Placed
<1>5. CASE copyresults
  <2>1. /\ copied' = copied \cup {Command.name} /\ NextIs("copy") /\ Advance
        /\ Command.op = "copy"
    BY <1>5 DEF copyresults, NextIs
  <2>2. /\ list' = list /\ at' \in Nat /\ step' \in Nat
        /\ \/ at < at'
           \/ at' = at /\ step < step'
    BY <1>3, <2>1
  <2>3. /\ at \in 1..Len(list) /\ list[at] \in Suites
        /\ step \in 1..Len(Function(list[at])) /\ Command = Function(list[at])[step]
    BY <2>1, CurrentCommand
  <2>4. \E m \in 1..Len(list') :
            /\ list'[m] \in Suites
            /\ \E k \in 1..Len(Function(list'[m])) :
                  /\ Function(list'[m])[k].op = "copy"
                  /\ Function(list'[m])[k].name = Command.name
                  /\ \/ m < at'
                     \/ m = at' /\ k < step'
    BY <2>1, <2>2, <2>3
  <2>5. \/ at < at'
        \/ at' = at /\ step <= step'
    BY <1>2, <2>2
  <2> QED
    BY <1>1, <1>2, <2>1, <2>2, <2>4, <2>5 DEF Placed
<1>6. CASE CommandNotFound
  <2>1. /\ copied' = copied /\ list' = list /\ at' = at + 1 /\ step' = step
    BY <1>6 DEF CommandNotFound
  <2>2. /\ list' = list /\ at' \in Nat /\ step' \in Nat
        /\ \/ at < at'
           \/ at' = at /\ step <= step'
    BY <1>2, <2>1
  <2> QED
    BY <1>1, <1>2, <2>1, <2>2 DEF Placed
<1>7. CASE Verdict \/ UNCHANGED vars
  <2>1. UNCHANGED <<copied, list, at, step>>
    BY <1>7 DEF Verdict, vars
  <2> QED
    BY <2>1 DEF Placed
<1> QED
  BY <1>4, <1>5, <1>6, <1>7 DEF Next, Done

\* What is counted of a suite depends on its outcomes, the directories and EPSDB only.
LEMMA SameNumbers ==
    ASSUME NEW a, world' = world, epsdb' = epsdb, outcome'[a] = outcome[a]
    PROVE  /\ Counts(a)' = Counts(a) /\ Failures(a)' = Failures(a)
           /\ Real(a)' = Real(a) /\ Misread(a)' = Misread(a)
<1>1. Counts(a)' = Counts(a)
  BY DEF Counts
<1>2. Failures(a)' = Failures(a)
  BY DEF Failures, Failed, Expected
<1>3. Real(a)' = Real(a)
  BY <1>2 DEF Real, Excused, Unnoticed, Removed, Dir
<1>4. Misread(a)' = Misread(a)
  BY <1>2 DEF Misread, WordsOf, Word, Dir
<1> QED
  BY <1>1, <1>2, <1>3, <1>4

\* Neither a script nor a copy disturbs what the copied results say.
LEMMA CopiedStays ==
    ASSUME SuitesOnce, Types, Placed, [Next]_vars, NEW a \in copied
    PROVE  /\ a \in copied' /\ a \in DOMAIN Tests
           /\ outcome'[a] = outcome[a] /\ files'[a] = files[a]
           /\ Counts(a)' = Counts(a) /\ Failures(a)' = Failures(a)
           /\ Real(a)' = Real(a) /\ Misread(a)' = Misread(a)
<1>1. a \in DOMAIN Tests
  BY DEF Types, Tallies
<1>2. world' = world /\ epsdb' = epsdb
  BY DEF Next, RunScript, copyresults, CommandNotFound, Verdict, Done, Advance, vars
<1>3. a \in copied'
  BY DEF Next, RunScript, copyresults, CommandNotFound, Verdict, Done, vars
<1>4. outcome'[a] = outcome[a] /\ files'[a] = files[a]
  <2>1. CASE RunScript
    <3>1. a \notin Command.dirs
      BY <2>1, Fresh DEF RunScript
    <3> QED
      BY <1>1, <2>1, <3>1, ScriptOutcome
  <2>2. CASE copyresults \/ CommandNotFound \/ Verdict \/ UNCHANGED vars
    BY <2>2 DEF copyresults, CommandNotFound, Verdict, vars
  <2> QED
    BY <2>1, <2>2 DEF Next, Done
<1>5. /\ Counts(a)' = Counts(a) /\ Failures(a)' = Failures(a)
      /\ Real(a)' = Real(a) /\ Misread(a)' = Misread(a)
  BY <1>2, <1>4, SameNumbers
<1> QED
  BY <1>1, <1>3, <1>4, <1>5

\* A copy adds its suite, and another step adds none.
LEMMA CopiedNext ==
    ASSUME SuitesOnce, Types, Placed, [Next]_vars
    PROVE  \/ copied' = copied /\ totalunexpectedfails' = totalunexpectedfails
                               /\ numtests' = numtests
           \/ /\ copyresults /\ UNCHANGED <<world, epsdb, outcome, files, scriptfails>>
              /\ Command.name \notin copied
<1>1. ASSUME copyresults PROVE Command.name \notin copied
  BY <1>1, Fresh DEF copyresults
<1> QED
  BY <1>1 DEF Next, RunScript, copyresults, CommandNotFound, Verdict, Done, Advance, vars,
              counters

-----------------------------------------------------------------------------
(* The verdict.                                                            *)

\* The verdict is about the whole list.
Ended ==
    /\ verdict # "none" => at > Len(list)
    /\ verdict = "green" =>
          totalunexpectedfails <= 0 /\ scriptfails = 0 /\ status = totalunexpectedfails % 256
    /\ verdict = "red" => totalunexpectedfails > 0 \/ scriptfails # 0

LEMMA EndedStep ==
    ASSUME Types, Ended, [Next]_vars
    PROVE  Ended'
<1>1. CASE Verdict
  <2>1. totalunexpectedfails \in Int
    BY DEF Types, Tallies
  <2>2. /\ verdict' \in {"green", "red"} /\ at' > Len(list')
        /\ totalunexpectedfails' = totalunexpectedfails /\ scriptfails' = scriptfails
        /\ status' = totalunexpectedfails % 256
        /\ verdict' = "red" <=> totalunexpectedfails > 0 \/ scriptfails # 0
    BY <1>1 DEF Verdict, counters
  <2> QED
    BY <2>1, <2>2 DEF Ended
<1>2. CASE RunScript \/ copyresults \/ CommandNotFound
  <2>1. at <= Len(list) /\ verdict' = verdict /\ at \in Nat /\ Len(list) \in Nat
    BY <1>2, RocmAssumption
    DEF RunScript, copyresults, CommandNotFound, NextIs, Advance, Types, Place
  <2>2. verdict' = "none"
    BY <2>1 DEF Ended, Types, Tallies
  <2> QED
    BY <2>2 DEF Ended
<1>3. CASE UNCHANGED vars
  BY <1>3 DEF vars, Ended
<1> QED
  BY <1>1, <1>2, <1>3 DEF Next, Done

LEMMA OrderInvariant == SuitesOnce => (Spec => [](Types /\ Placed /\ Ended))
<1> SUFFICES ASSUME SuitesOnce PROVE Spec => [](Types /\ Placed /\ Ended)
  OBVIOUS
<1>1. Init => Placed /\ Ended
  BY DEF Init, Placed, Ended
<1>2. Types /\ Placed /\ Ended /\ [Next]_vars => (Placed /\ Ended)'
  BY PlacedStep, EndedStep
<1>3. Spec => []Types
  BY TypesInvariant
<1> QED
  BY <1>1, <1>2, <1>3, PTL DEF Spec

-----------------------------------------------------------------------------
(* Red.                                                                    *)

\* What numtests holds are failures of a suite without passing tests.
Carried == numtests # 0 => \E a \in copied : Failures(a) # {} /\ files[a].pass = {}

\* As RedHasReason, before the verdict.
Reason ==
    totalunexpectedfails > 0 =>
        \E a \in copied :
            /\ Failures(a) # {}
            /\ \/ Counts(a)
               \/ /\ files[a].pass = {}
                  /\ \E b \in copied \cap MustPass : Counts(b) /\ files[b].pass = {}

LEMMA ReasonStep ==
    ASSUME SuitesOnce, Types, Placed, Carried, Reason, [Next]_vars
    PROVE  Carried' /\ Reason'
<1>0. totalunexpectedfails \in Int /\ numtests \in Nat
  BY DEF Types, Tallies
<1>1. \A a \in copied : /\ a \in copied' /\ files'[a] = files[a]
                        /\ Counts(a)' = Counts(a) /\ Failures(a)' = Failures(a)
  BY CopiedStays
<1>2. CASE copied' = copied /\ totalunexpectedfails' = totalunexpectedfails
                           /\ numtests' = numtests
  BY <1>1, <1>2 DEF Carried, Reason
<1>3. CASE copyresults /\ UNCHANGED <<world, epsdb, outcome, files, scriptfails>>
  <2>1. PICK a \in DOMAIN Tests, n \in Int :
          /\ copied' = copied \cup {a}
          /\ totalunexpectedfails' = totalunexpectedfails + (IF Counts(a) THEN n ELSE 0)
          /\ numtests' = IF files[a].pass # {} THEN numtests ELSE n
          /\ files[a].pass = {} => n \in Nat
          /\ \/ n <= Cardinality(Failures(a))
             \/ /\ files[a].pass = {} /\ a \in MustPass /\ numtests # 0
                /\ n = numtests + Cardinality(Failures(a))
    BY <1>3, CopyCounts
  <2>2. files'[a] = files[a] /\ Counts(a)' = Counts(a) /\ Failures(a)' = Failures(a)
    BY <1>3, SameNumbers
  <2>3. Cardinality({}) = 0
    BY FS_EmptySet
  \* A suite adds something for its own failures or for those numtests holds.
  <2>4. ASSUME n > 0, Failures(a) = {}
        PROVE  /\ files[a].pass = {} /\ a \in MustPass
               /\ \E d \in copied : Failures(d) # {} /\ files[d].pass = {}
    BY <2>1, <2>3, <2>4 DEF Carried
  <2>5. Carried'
    <3> SUFFICES ASSUME numtests' # 0
                 PROVE  \E d \in copied' : Failures(d)' # {} /\ files'[d].pass = {}
      BY DEF Carried
    <3>1. CASE files[a].pass # {}
      <4>1. PICK d \in copied : Failures(d) # {} /\ files[d].pass = {}
        BY <2>1, <3>1 DEF Carried
      <4> QED
        BY <1>1, <4>1
    <3>2. CASE files[a].pass = {} /\ Failures(a) # {}
      <4>1. a \in copied' /\ Failures(a)' # {} /\ files'[a].pass = {}
        BY <2>1, <2>2, <3>2
      <4> QED
        BY <4>1
    <3>3. CASE files[a].pass = {} /\ Failures(a) = {}
      <4>1. n > 0
        BY <2>1, <3>3
      <4>2. PICK d \in copied : Failures(d) # {} /\ files[d].pass = {}
        BY <2>4, <3>3, <4>1
      <4> QED
        BY <1>1, <4>2
    <3> QED
      BY <3>1, <3>2, <3>3
  <2>6. Reason'
    <3> SUFFICES ASSUME totalunexpectedfails' > 0
                 PROVE  \E d \in copied' :
                           /\ Failures(d)' # {}
                           /\ \/ Counts(d)'
                              \/ /\ files'[d].pass = {}
                                 /\ \E b \in copied' \cap MustPass :
                                       Counts(b)' /\ files'[b].pass = {}
      BY DEF Reason
    <3>1. CASE totalunexpectedfails > 0
      <4>1. PICK d \in copied :
              /\ Failures(d) # {}
              /\ \/ Counts(d)
                 \/ /\ files[d].pass = {}
                    /\ \E b \in copied \cap MustPass : Counts(b) /\ files[b].pass = {}
        BY <3>1 DEF Reason
      <4> QED
        BY <1>1, <4>1
    <3>2. CASE totalunexpectedfails <= 0
      <4>1. Counts(a) /\ n > 0
        BY <1>0, <2>1, <3>2
      <4>2. CASE Failures(a) # {}
        <5>1. a \in copied' /\ Failures(a)' # {} /\ Counts(a)'
          BY <2>1, <2>2, <4>1, <4>2
        <5> QED
          BY <5>1
      <4>3. CASE Failures(a) = {}
        <5>1. /\ a \in copied' \cap MustPass /\ Counts(a)' /\ files'[a].pass = {}
          BY <2>1, <2>2, <2>4, <4>1, <4>3
        <5>2. PICK d \in copied : Failures(d) # {} /\ files[d].pass = {}
          BY <2>4, <4>1, <4>3
        <5> QED
          BY <1>1, <5>1, <5>2
      <4> QED
        BY <4>2, <4>3
    <3> QED
      BY <1>0, <3>1, <3>2
  <2> QED
    BY <2>5, <2>6
<1> QED
  BY <1>2, <1>3, CopiedNext

\* Red (RedHasReason): a script has failed, a suite that counts has a failure, or
\* numtests has carried one to a suite that counts.
THEOREM RedIsJustified ==
    ASSUME SuitesOnce
    PROVE  Spec => []RedHasReason
<1>1. Init => Carried /\ Reason
  BY DEF Init, Carried, Reason
<1>2. Types /\ Placed /\ Carried /\ Reason /\ [Next]_vars => (Carried /\ Reason)'
  BY ReasonStep
<1>3. Ended /\ Reason => RedHasReason
  BY DEF Ended, Reason, RedHasReason
<1>4. Spec => [](Types /\ Placed /\ Ended)
  BY OrderInvariant
<1> QED
  BY <1>1, <1>2, <1>3, <1>4, PTL DEF Spec

-----------------------------------------------------------------------------
(* The total.                                                              *)

\* What each suite that counts adds to the sums of the properties.
RealShares ==
    [a \in DOMAIN Tests |-> IF a \in copied /\ Counts(a) THEN Cardinality(Real(a)) ELSE 0]
MisreadShares ==
    [a \in DOMAIN Tests |-> IF a \in copied /\ Counts(a) THEN Cardinality(Misread(a)) ELSE 0]
FailureShares ==
    [a \in DOMAIN Tests |-> IF a \in copied /\ Counts(a) THEN Cardinality(Failures(a)) ELSE 0]

LEMMA SharesType ==
    ASSUME Disk
    PROVE  /\ RealShares \in [DOMAIN Tests -> Nat] /\ MisreadShares \in [DOMAIN Tests -> Nat]
           /\ FailureShares \in [DOMAIN Tests -> Nat]
           /\ Sum(RealShares) \in Nat /\ Sum(MisreadShares) \in Nat
           /\ Sum(FailureShares) \in Nat
           /\ \A a \in DOMAIN Tests :
                 /\ Cardinality(Real(a)) \in Nat /\ Cardinality(Misread(a)) \in Nat
                 /\ Cardinality(Failures(a)) \in Nat
<1>1. ASSUME NEW a \in DOMAIN Tests
      PROVE  /\ Cardinality(Real(a)) \in Nat /\ Cardinality(Misread(a)) \in Nat
             /\ Cardinality(Failures(a)) \in Nat
  <2>1. IsFiniteSet(Failures(a)) /\ Real(a) \in SUBSET Failures(a)
    BY FailsAreFailures DEF Real
  <2> QED
    BY <2>1, FS_Subset, FS_CardinalityType, MisreadType
<1>2. /\ RealShares \in [DOMAIN Tests -> Nat] /\ MisreadShares \in [DOMAIN Tests -> Nat]
      /\ FailureShares \in [DOMAIN Tests -> Nat]
  BY <1>1 DEF RealShares, MisreadShares, FailureShares
<1> QED
  BY <1>1, <1>2, SumType, RocmAssumption

\* A sum grows by what one suite adds.
LEMMA SumShare ==
    ASSUME NEW file \in [DOMAIN Tests -> Nat], NEW more \in [DOMAIN Tests -> Nat],
           NEW a \in DOMAIN Tests, NEW n \in Nat, file[a] = 0, more[a] = n,
           \A d \in DOMAIN Tests : d # a => more[d] = file[d]
    PROVE  Sum(more) = Sum(file) + n
<1> DEFINE S == DOMAIN Tests
<1>1. IsFiniteSet(S) /\ file \in [S -> Nat] /\ more \in [S -> Nat] /\ a \in S
  BY RocmAssumption
<1>2. \A d \in S : more[d] = file[d] + (IF d = a THEN n ELSE 0)
  <2>1. \A d \in S : file[d] \in Nat
    OBVIOUS
  <2> QED
    BY <2>1
<1> HIDE DEF S
<1> QED
  BY <1>1, <1>2, SumMore

\* A copy adds the suite's share to the sums; another step leaves them alone.
LEMMA SharesStep ==
    ASSUME SuitesOnce, Types, Placed, [Next]_vars
    PROVE  \/ /\ copied' = copied /\ totalunexpectedfails' = totalunexpectedfails
              /\ numtests' = numtests
              /\ RealShares' = RealShares /\ MisreadShares' = MisreadShares
              /\ FailureShares' = FailureShares
           \/ \E a \in DOMAIN Tests \ copied, n \in Int :
              /\ copied' = copied \cup {a} /\ files' = files
              /\ totalunexpectedfails' = totalunexpectedfails + (IF Counts(a) THEN n ELSE 0)
              /\ numtests' = IF files[a].pass # {} THEN numtests ELSE n
              /\ Cardinality(Real(a)) <= n + Cardinality(Misread(a))
              /\ \/ n <= Cardinality(Failures(a))
                 \/ files[a].pass = {} /\ a \in MustPass /\ numtests # 0
              /\ Sum(RealShares') =
                    Sum(RealShares) + (IF Counts(a) THEN Cardinality(Real(a)) ELSE 0)
              /\ Sum(MisreadShares') =
                    Sum(MisreadShares) + (IF Counts(a) THEN Cardinality(Misread(a)) ELSE 0)
              /\ Sum(FailureShares') =
                    Sum(FailureShares) + (IF Counts(a) THEN Cardinality(Failures(a)) ELSE 0)
<1>1. CASE /\ copied' = copied /\ totalunexpectedfails' = totalunexpectedfails
           /\ numtests' = numtests
  <2>1. \A a \in copied : /\ Counts(a)' = Counts(a) /\ Failures(a)' = Failures(a)
                          /\ Real(a)' = Real(a) /\ Misread(a)' = Misread(a)
    BY CopiedStays
  <2>2. RealShares' = RealShares
    BY <1>1, <2>1 DEF RealShares
  <2>3. MisreadShares' = MisreadShares
    BY <1>1, <2>1 DEF MisreadShares
  <2>4. FailureShares' = FailureShares
    BY <1>1, <2>1 DEF FailureShares
  <2> QED
    BY <1>1, <2>2, <2>3, <2>4
<1>2. CASE /\ copyresults /\ UNCHANGED <<world, epsdb, outcome, files, scriptfails>>
           /\ Command.name \notin copied
  <2>1. PICK a \in DOMAIN Tests, n \in Int :
          /\ a = Command.name
          /\ copied' = copied \cup {a}
          /\ totalunexpectedfails' = totalunexpectedfails + (IF Counts(a) THEN n ELSE 0)
          /\ numtests' = IF files[a].pass # {} THEN numtests ELSE n
          /\ Cardinality(Real(a)) <= n + Cardinality(Misread(a))
          /\ \/ n <= Cardinality(Failures(a))
             \/ /\ files[a].pass = {} /\ a \in MustPass /\ numtests # 0
                /\ n = numtests + Cardinality(Failures(a))
    BY <1>2, CopyCounts
  <2>2. \A d : /\ Counts(d)' = Counts(d) /\ Failures(d)' = Failures(d)
               /\ Real(d)' = Real(d) /\ Misread(d)' = Misread(d)
    BY <1>2, SameNumbers
  <2>3. a \notin copied
    BY <1>2, <2>1
  <2>4. /\ RealShares \in [DOMAIN Tests -> Nat] /\ MisreadShares \in [DOMAIN Tests -> Nat]
        /\ FailureShares \in [DOMAIN Tests -> Nat]
        /\ \A d \in DOMAIN Tests :
              /\ Cardinality(Real(d)) \in Nat /\ Cardinality(Misread(d)) \in Nat
              /\ Cardinality(Failures(d)) \in Nat
    BY SharesType DEF Types
  <2>5. Sum(RealShares') =
           Sum(RealShares) + (IF Counts(a) THEN Cardinality(Real(a)) ELSE 0)
    <3> DEFINE file == RealShares
               more == RealShares'
               k == IF Counts(a) THEN Cardinality(Real(a)) ELSE 0
    <3>1. file \in [DOMAIN Tests -> Nat] /\ k \in Nat
      BY <2>4
    <3>2. more \in [DOMAIN Tests -> Nat]
      BY <2>2, <2>4 DEF RealShares
    <3>3. file[a] = 0 /\ more[a] = k
      BY <2>1, <2>2, <2>3 DEF RealShares
    <3>4. \A d \in DOMAIN Tests : d # a => more[d] = file[d]
      BY <2>1, <2>2 DEF RealShares
    <3> HIDE DEF file, more, k
    <3>5. Sum(more) = Sum(file) + k
      BY <3>1, <3>2, <3>3, <3>4, SumShare
    <3> QED
      BY <3>5 DEF file, more, k
  <2>6. Sum(MisreadShares') =
           Sum(MisreadShares) + (IF Counts(a) THEN Cardinality(Misread(a)) ELSE 0)
    <3> DEFINE file == MisreadShares
               more == MisreadShares'
               k == IF Counts(a) THEN Cardinality(Misread(a)) ELSE 0
    <3>1. file \in [DOMAIN Tests -> Nat] /\ k \in Nat
      BY <2>4
    <3>2. more \in [DOMAIN Tests -> Nat]
      BY <2>2, <2>4 DEF MisreadShares
    <3>3. file[a] = 0 /\ more[a] = k
      BY <2>1, <2>2, <2>3 DEF MisreadShares
    <3>4. \A d \in DOMAIN Tests : d # a => more[d] = file[d]
      BY <2>1, <2>2 DEF MisreadShares
    <3> HIDE DEF file, more, k
    <3>5. Sum(more) = Sum(file) + k
      BY <3>1, <3>2, <3>3, <3>4, SumShare
    <3> QED
      BY <3>5 DEF file, more, k
  <2>7. Sum(FailureShares') =
           Sum(FailureShares) + (IF Counts(a) THEN Cardinality(Failures(a)) ELSE 0)
    <3> DEFINE file == FailureShares
               more == FailureShares'
               k == IF Counts(a) THEN Cardinality(Failures(a)) ELSE 0
    <3>1. file \in [DOMAIN Tests -> Nat] /\ k \in Nat
      BY <2>4
    <3>2. more \in [DOMAIN Tests -> Nat]
      BY <2>2, <2>4 DEF FailureShares
    <3>3. file[a] = 0 /\ more[a] = k
      BY <2>1, <2>2, <2>3 DEF FailureShares
    <3>4. \A d \in DOMAIN Tests : d # a => more[d] = file[d]
      BY <2>1, <2>2 DEF FailureShares
    <3> HIDE DEF file, more, k
    <3>5. Sum(more) = Sum(file) + k
      BY <3>1, <3>2, <3>3, <3>4, SumShare
    <3> QED
      BY <3>5 DEF file, more, k
  <2>8. files' = files
    BY <1>2
  <2> QED
    BY <2>1, <2>3, <2>5, <2>6, <2>7, <2>8
<1> QED
  BY <1>1, <1>2, CopiedNext

\* The total misses no more of the first sum than was misread.
AtLeast == Sum(RealShares) <= totalunexpectedfails + Sum(MisreadShares)

\* It is at most the third, unless numtests has been counted again; and numtests is
\* only above 0 when a suite without passing tests has been copied.
NoPass == {a \in copied : files[a].pass = {}}
AtMost ==
    NoPass \cap MustPass = {} \/ Cardinality(NoPass) <= 1 =>
        totalunexpectedfails <= Sum(FailureShares)
Leftover == numtests # 0 => NoPass # {}

LEMMA TotalStep ==
    ASSUME SuitesOnce, Types, Placed, AtLeast, AtMost, Leftover, [Next]_vars
    PROVE  AtLeast' /\ AtMost' /\ Leftover'
<1>0. /\ totalunexpectedfails \in Int /\ IsFiniteSet(NoPass)
      /\ Sum(RealShares) \in Nat /\ Sum(MisreadShares) \in Nat
      /\ Sum(FailureShares) \in Nat
      /\ \A a \in DOMAIN Tests :
            /\ Cardinality(Real(a)) \in Nat /\ Cardinality(Misread(a)) \in Nat
            /\ Cardinality(Failures(a)) \in Nat
  <2>1. NoPass \in SUBSET DOMAIN Tests
    BY DEF NoPass, Types, Tallies
  <2> QED
    BY <2>1, FS_Subset, RocmAssumption, SharesType DEF Types, Tallies
<1>1. \A a \in copied : a \in copied' /\ files'[a] = files[a]
  BY CopiedStays
<1>2. CASE /\ copied' = copied /\ totalunexpectedfails' = totalunexpectedfails
           /\ numtests' = numtests
           /\ RealShares' = RealShares /\ MisreadShares' = MisreadShares
           /\ FailureShares' = FailureShares
  <2>1. NoPass' = NoPass
    BY <1>1, <1>2 DEF NoPass
  <2> QED
    BY <1>2, <2>1 DEF AtLeast, AtMost, Leftover
<1>3. ASSUME NEW a \in DOMAIN Tests \ copied, NEW n \in Int,
             /\ copied' = copied \cup {a} /\ files' = files
             /\ totalunexpectedfails' = totalunexpectedfails + (IF Counts(a) THEN n ELSE 0)
             /\ numtests' = IF files[a].pass # {} THEN numtests ELSE n
             /\ Cardinality(Real(a)) <= n + Cardinality(Misread(a)),
             \/ n <= Cardinality(Failures(a))
             \/ files[a].pass = {} /\ a \in MustPass /\ numtests # 0,
             Sum(RealShares') =
                Sum(RealShares) + (IF Counts(a) THEN Cardinality(Real(a)) ELSE 0),
             Sum(MisreadShares') =
                Sum(MisreadShares) + (IF Counts(a) THEN Cardinality(Misread(a)) ELSE 0),
             Sum(FailureShares') =
                Sum(FailureShares) + (IF Counts(a) THEN Cardinality(Failures(a)) ELSE 0)
      PROVE  AtLeast' /\ AtMost' /\ Leftover'
  <2>1. NoPass' = NoPass \cup (IF files[a].pass = {} THEN {a} ELSE {})
    BY <1>3 DEF NoPass
  <2>2. AtLeast'
    <3>1. Sum(RealShares) <= totalunexpectedfails + Sum(MisreadShares)
      BY DEF AtLeast
    <3>2. Sum(RealShares') <= totalunexpectedfails' + Sum(MisreadShares')
      BY <1>0, <1>3, <3>1
    <3> QED
      BY <3>2 DEF AtLeast
  <2>3. Leftover'
    <3>1. CASE files[a].pass = {}
      BY <2>1, <3>1 DEF Leftover
    <3>2. CASE files[a].pass # {}
      BY <1>3, <2>1, <3>2 DEF Leftover
    <3> QED
      BY <3>1, <3>2
  <2>4. AtMost'
    <3> SUFFICES ASSUME NoPass' \cap MustPass = {} \/ Cardinality(NoPass') <= 1
                 PROVE  totalunexpectedfails' <= Sum(FailureShares')
      BY DEF AtMost
    <3>1. /\ NoPass \subseteq NoPass' /\ IsFiniteSet(NoPass')
          /\ Cardinality(NoPass) <= Cardinality(NoPass')
          /\ Cardinality(NoPass) \in Nat /\ Cardinality(NoPass') \in Nat
      <4>1. IsFiniteSet(NoPass')
        <5>1. NoPass' \in SUBSET DOMAIN Tests
          BY <1>3 DEF NoPass, Types, Tallies
        <5> QED
          BY <5>1, FS_Subset, RocmAssumption
      <4>2. NoPass \in SUBSET NoPass'
        BY <2>1
      <4> QED
        BY <1>0, <4>1, <4>2, FS_Subset, FS_CardinalityType
    <3>2. totalunexpectedfails <= Sum(FailureShares)
      BY <3>1 DEF AtMost
    <3>3. n <= Cardinality(Failures(a))
      <4> SUFFICES ASSUME files[a].pass = {}, a \in MustPass, numtests # 0 PROVE FALSE
        BY <1>3
      <4>1. a \in NoPass' /\ a \notin NoPass
        BY <1>3, <2>1 DEF NoPass
      <4>2. PICK b \in NoPass : TRUE
        BY DEF Leftover
      <4>3. {a, b} \in SUBSET NoPass' /\ a # b
        BY <3>1, <4>1, <4>2
      <4>4. Cardinality({a, b}) = 2
        <5>1. IsFiniteSet({b}) /\ Cardinality({b}) = 1 /\ a \notin {b}
          BY <4>3, FS_Singleton
        <5>2. Cardinality({b} \cup {a}) = Cardinality({b}) + 1
          BY <5>1, FS_AddElement
        <5>3. {b} \cup {a} = {a, b}
          OBVIOUS
        <5> QED
          BY <5>1, <5>2, <5>3
      <4>5. Cardinality({a, b}) <= Cardinality(NoPass')
        BY <3>1, <4>3, FS_Subset
      <4> QED
        BY <3>1, <4>1, <4>4, <4>5
    <3> QED
      BY <1>0, <1>3, <3>2, <3>3
  <2> QED
    BY <2>2, <2>3, <2>4
<1> QED
  BY <1>2, <1>3, SharesStep

LEMMA TotalInvariant ==
    SuitesOnce => (Spec => [](Types /\ Ended /\ AtLeast /\ AtMost))
<1> SUFFICES ASSUME SuitesOnce
             PROVE  Spec => [](Types /\ Ended /\ AtLeast /\ AtMost)
  OBVIOUS
<1>1. ASSUME Init PROVE AtLeast /\ AtMost /\ Leftover
  <2> DEFINE zero == [a \in DOMAIN Tests |-> 0]
  <2>1. RealShares = zero /\ MisreadShares = zero /\ FailureShares = zero
    BY <1>1 DEF Init, RealShares, MisreadShares, FailureShares
  <2>2. Sum(zero) = 0
    <3>1. zero \in [DOMAIN Tests -> Nat] /\ \A a \in DOMAIN Tests : zero[a] = 0
      OBVIOUS
    <3> HIDE DEF zero
    <3> QED
      BY <3>1, SumZero, RocmAssumption
  <2> HIDE DEF zero
  <2>3. totalunexpectedfails = 0 /\ numtests = 0
    BY <1>1 DEF Init
  <2> QED
    BY <2>1, <2>2, <2>3 DEF AtLeast, AtMost, Leftover
<1>2. Types /\ Placed /\ AtLeast /\ AtMost /\ Leftover /\ [Next]_vars
         => (AtLeast /\ AtMost /\ Leftover)'
  BY TotalStep
<1>3. Spec => [](Types /\ Placed /\ Ended)
  BY OrderInvariant
<1> QED
  BY <1>1, <1>2, <1>3, PTL DEF Spec

\* A suite's share is at most the sum.
LEMMA SumAbove ==
    ASSUME NEW file \in [DOMAIN Tests -> Nat], NEW a \in DOMAIN Tests
    PROVE  file[a] <= Sum(file)
<1> DEFINE less == [d \in DOMAIN Tests |-> IF d = a THEN 0 ELSE file[d]]
<1>1. /\ less \in [DOMAIN Tests -> Nat] /\ less[a] = 0 /\ file[a] \in Nat
      /\ \A d \in DOMAIN Tests : d # a => file[d] = less[d]
  OBVIOUS
<1> HIDE DEF less
<1>2. Sum(file) = Sum(less) + file[a]
  BY <1>1, SumShare
<1>3. Sum(less) \in Nat
  BY <1>1, SumType, RocmAssumption
<1> QED
  BY <1>1, <1>2, <1>3

\* Green (GreenIsClean): where nothing was misread, no suite that counts has lost a test
\* for no reason, unless no line tells of it.
THEOREM GreenTellsTheTruth ==
    ASSUME SuitesOnce
    PROVE  Spec => []GreenIsClean
<1>1. ASSUME Types, Ended, AtLeast PROVE GreenIsClean
  <2> SUFFICES ASSUME verdict = "green"
               PROVE  /\ scriptfails = 0
                      /\ (\A a \in copied : Counts(a) => Misread(a) = {}) =>
                            /\ status = 0
                            /\ \A a \in copied : Counts(a) =>
                                 \A t \in Tests[a] :
                                    Failed(a, t) => Excused(a, t) \/ Unnoticed(a, t)
    BY DEF GreenIsClean
  <2>1. /\ totalunexpectedfails <= 0 /\ scriptfails = 0
        /\ status = totalunexpectedfails % 256 /\ totalunexpectedfails \in Int
    BY <1>1 DEF Ended, Types, Tallies
  <2>2. ASSUME \A a \in copied : Counts(a) => Misread(a) = {}
        PROVE  /\ status = 0
               /\ \A a \in copied : Counts(a) =>
                     \A t \in Tests[a] : Failed(a, t) => Excused(a, t) \/ Unnoticed(a, t)
    <3>1. /\ RealShares \in [DOMAIN Tests -> Nat] /\ MisreadShares \in [DOMAIN Tests -> Nat]
          /\ Sum(RealShares) \in Nat
      BY <1>1, SharesType DEF Types
    <3>2. \A a \in DOMAIN Tests : MisreadShares[a] = 0
      BY <2>2, FS_EmptySet DEF MisreadShares
    <3>3. Sum(MisreadShares) = 0
      BY <3>1, <3>2, SumZero, RocmAssumption
    <3>4. totalunexpectedfails = 0 /\ Sum(RealShares) = 0
      BY <1>1, <2>1, <3>1, <3>3 DEF AtLeast
    <3>5. 0 % 256 = 0
      OBVIOUS
    <3>6. ASSUME NEW a \in copied, Counts(a), NEW t \in Tests[a], Failed(a, t)
          PROVE  Excused(a, t) \/ Unnoticed(a, t)
      <4>1. a \in DOMAIN Tests
        BY <1>1 DEF Types, Tallies
      <4>2. RealShares[a] <= 0 /\ RealShares[a] = Cardinality(Real(a))
        BY <3>1, <3>4, <3>6, <4>1, SumAbove DEF RealShares
      <4>3. IsFiniteSet(Failures(a)) /\ Real(a) \in SUBSET Failures(a)
        BY <1>1, <4>1, FailsAreFailures DEF Types, Real
      <4>4. IsFiniteSet(Real(a)) /\ Cardinality(Real(a)) \in Nat
        BY <4>3, FS_Subset, FS_CardinalityType
      <4>5. Real(a) = {}
        <5>1. Cardinality(Real(a)) = 0
          BY <4>2, <4>4
        <5> QED
          BY <4>4, <5>1, FS_EmptySet
      <4>6. ASSUME NEW k \in Kinds, <<t, k>> \in Failures(a)
            PROVE  Excused(a, t) \/ Unnoticed(a, t)
        <5>1. <<t, k>>[1] = t
          OBVIOUS
        <5> QED
          BY <4>5, <4>6, <5>1 DEF Real
      <4>7. CASE a \notin MustPass
        <5>1. <<t, "pass">> \in Failures(a) /\ "pass" \in Kinds
          BY <3>6, <4>7 DEF Failures, Kinds
        <5> QED
          BY <4>6, <5>1
      <4>8. CASE a \in MustPass
        <5>1. PICK k \in {"fail", "makefail", "checkfail", "lost"} : k \in outcome[a][t]
          BY <3>6, <4>8 DEF Failed
        <5>2. CASE k # "lost"
          <6>1. <<t, k>> \in Failures(a) /\ k \in Kinds
            BY <4>8, <5>1, <5>2 DEF Failures, Kinds
          <6> QED
            BY <4>6, <6>1
        <5>3. CASE k = "lost"
          <6>1. outcome[a][t] \in Outcomes
            BY <1>1, <4>1 DEF Types, Disk
          <6>2. outcome[a][t] = {"lost"}
            BY <5>1, <5>3, <6>1 DEF Outcomes, Kinds
          <6> QED
            BY <4>8, <6>2 DEF Unnoticed
        <5> QED
          BY <5>2, <5>3
      <4> QED
        BY <4>7, <4>8
    <3> QED
      BY <2>1, <3>4, <3>5, <3>6
  <2> QED
    BY <2>1, <2>2
<1>2. Spec => [](Types /\ Ended /\ AtLeast /\ AtMost)
  BY TotalInvariant
<1> QED
  BY <1>1, <1>2, PTL

\* False negatives (TakesBackNoMore): every other failure stays in the total, but for
\* what is misread.
THEOREM NoFailureIsDropped ==
    ASSUME SuitesOnce
    PROVE  Spec => []TakesBackNoMore
<1>1. AtLeast /\ Types => TakesBackNoMore
  <2> SUFFICES ASSUME AtLeast, Types PROVE TakesBackNoMore
    OBVIOUS
  <2>1. /\ Sum(RealShares) \in Nat /\ Sum(MisreadShares) \in Nat
        /\ totalunexpectedfails \in Int
    BY SharesType DEF Types, Tallies
  <2>2. totalunexpectedfails + Sum(MisreadShares) >= Sum(RealShares)
    BY <2>1 DEF AtLeast
  <2> QED
    BY <2>2 DEF TakesBackNoMore, Total, Sum, RealShares, MisreadShares
<1> QED
  BY <1>1, TotalInvariant, PTL

\* Counting (CountsOnce): no failure is counted twice, but for those of two suites
\* without any passing test.
THEOREM NoFailureIsDoubled ==
    ASSUME SuitesOnce
    PROVE  Spec => []CountsOnce
<1>1. AtMost => CountsOnce
  BY DEF AtMost, NoPass, CountsOnce, Total, Sum, FailureShares
<1> QED
  BY <1>1, TotalInvariant, PTL
=============================================================================
