---------------------------- MODULE RunRocmTest -----------------------------
(***************************************************************************)
(* bin/run_rocm_test.sh: run a list of test suites, copy the result files   *)
(* each leaves (those SmokeHarness models) to the results directory, count  *)
(* the unexpected failures, take back those that are false negatives, and   *)
(* print a verdict, "EPSDB Status: green" or red.  Two suites have to pass  *)
(* completely; of the others the expected passes are known.                 *)
(***************************************************************************)
EXTENDS Integers, Sequences, FiniteSets, Functions

CONSTANTS
    SuiteLists, \* values of SUITE_LIST or EPSDB_LIST
    Tests,      \* Tests[a]: the tests of a results directory a
    Words,      \* Words[<<t, k>>]: the words of a line of kind k about test t, as the
                \* driver reads it; the first one names the directory of the test
    Worlds      \* [dirs, skips, expected]: state of the test directories, those
                \* whose logs say "skipped", expected passes

\* The lines a test can leave: passed, failed, "<test>: Make Failed", and the one of a
\* failing make check, which has further words.
Kinds == {"pass", "fail", "makefail", "checkfail"}

\* What a test does: the kinds of its lines, or "lost" for a failure nothing tells of.
Outcomes == {{}} \cup {{k} : k \in Kinds \cup {"lost"}}
                 \cup {{"makefail", k} : k \in {"pass", "fail", "checkfail"}}

\* `make check` has a second Makefile here, and its failure the line of make's.
Bundled == {"liba_bundled", "liba_bundled_cmdline"}

-----------------------------------------------------------------------------
(* The suites.                                                             *)

Script(tested, dirs) == [op |-> "run", tested |-> tested, dirs |-> dirs]
Copy(name, hasDir) == [op |-> "copy", name |-> name, hasDir |-> hasDir]

\* Suites whose script's status is given to checkrc, with $2 for copyresults.
Checked == {"smoke", "smoke-dev", "smoke-limbo", "smoke-fort", "omp5"}
\* Suites whose script's status is not tested (or that of cd is), without $2.
Unchecked == {"nekbone", "openmpapps", "babelstream", "ovo"}
Sollve == {"sollve45", "sollve50", "sollve51", "sollve52"}

\* The functions modelled here, and names of the lists that are none.
Suites == Checked \cup Unchecked \cup {"examples", "sollve"}
NoFunctions == {"examples_fortran", "examples_openmp"}

Function(s) ==
    CASE s \in Checked -> <<Script(TRUE, {s}), Copy(s, TRUE)>>
      [] s \in Unchecked -> <<Script(FALSE, {s}), Copy(s, FALSE)>>
      [] s = "examples" ->
            <<Script(TRUE, {"examples_fortran"}), Copy("examples_fortran", TRUE),
              Script(TRUE, {"examples_openmp"}), Copy("examples_openmp", TRUE)>>
      [] s = "sollve" ->
            <<Script(FALSE, {}), Script(TRUE, Sollve),
              Copy("sollve45", FALSE), Copy("sollve50", FALSE),
              Copy("sollve51", FALSE), Copy("sollve52", FALSE)>>

\* The results directories a suite fills.
Areas(s) ==
    CASE s \in Checked \cup Unchecked -> {s}
      [] s = "examples" -> {"examples_fortran", "examples_openmp"}
      [] s = "sollve" -> Sollve

MustPass == {"smoke", "smoke-limbo"}
HasDirs == {"examples_fortran", "examples_openmp", "smoke", "smoke-limbo",
            "smoke-dev", "smoke-fort", "omp5"}
HasList == Sollve \cup {"ovo", "openmpapps"}
blockinglist == {"examples_fortran", "examples_openmp", "smoke", "smoke-limbo",
    "openmpapps", "sollve45", "sollve50", "babelstream", "ovo", "nekbone",
    "smoke-fort"}

ASSUME RocmAssumption ==
    /\ SuiteLists \subseteq Seq(Suites \cup NoFunctions)
    /\ \A s \in SuiteLists : \A n \in 1..Len(s) :
          s[n] \in Suites => Areas(s[n]) \subseteq DOMAIN Tests
    /\ IsFiniteSet(DOMAIN Tests)
    /\ \A a \in DOMAIN Tests : IsFiniteSet(Tests[a])
    /\ \A a \in DOMAIN Tests : \A t \in Tests[a], k \in Kinds :
          /\ Len(Words[<<t, k>>]) \in Nat \ {0}
          /\ DOMAIN Words[<<t, k>>] = 1..Len(Words[<<t, k>>])
          /\ Words[<<t, k>>][1] = Words[<<t, "pass">>][1]
    /\ \A w \in Worlds :
        /\ DOMAIN w = {"dirs", "skips", "expected"}
        /\ \A d \in DOMAIN w.dirs : w.dirs[d] \in {"whole", "leftover", "gone"}
        \* Tests has the tests of the lists of expected passes too
        /\ \A a \in DOMAIN Tests : w.expected[a] \subseteq Tests[a]

VARIABLES
    world, epsdb,
    list, at, step, \* the suites, and the next command: of which, and where in it
    outcome,     \* outcome[a][t]: what t did in this session
    files,       \* the lines of passing-tests.txt, failing-tests.txt, make-fail.txt
    copied,      \* results directories filled so far
    totalunexpectedfails, scriptfails,
    numtests,    \* never reset between suites
    verdict, status

counters == <<totalunexpectedfails, scriptfails, numtests>>
vars == <<world, epsdb, list, at, step, outcome, files, copied,
          totalunexpectedfails, scriptfails, numtests, verdict, status>>

Counts(a) == epsdb => a \in blockinglist

-----------------------------------------------------------------------------

NoFiles == [pass |-> {}, fail |-> {}, make |-> {}]
Unrun(a) == [t \in Tests[a] |-> {}]

Init ==
    /\ world \in Worlds /\ epsdb \in BOOLEAN
    /\ list \in SuiteLists /\ at = 1 /\ step = 1
    /\ outcome = [a \in DOMAIN Tests |-> Unrun(a)]
    /\ files = [a \in DOMAIN Tests |-> NoFiles]
    /\ copied = {}
    /\ totalunexpectedfails = 0 /\ scriptfails = 0 /\ numtests = 0
    /\ verdict = "none" /\ status = 0

\* The directory named by a word: there with a Makefile, left over without one,
\* or gone.
Dir(w) == IF w \in DOMAIN world.dirs THEN world.dirs[w] ELSE "gone"
Home(t) == Words[<<t, "pass">>][1]
Removed(t) == Dir(Home(t)) # "whole"

\* Lines that can follow "<test>: Make Failed" in the branch of the smoke suite, which
\* runs a test whose build has failed: it may be built then, but a failing make check
\* is not reported again where make-fail.txt has the test.
AfterMakeFailed(a, t) ==
    IF a # "smoke" THEN {}
    ELSE {"pass", "fail"} \cup (IF Home(t) \in Bundled THEN {"checkfail"} ELSE {})

\* What can come of a test: a test whose directory has gone is not run, and one without
\* a Makefile is not built.  Any test may leave no line: it is skipped, the script ends
\* before it, or it fails where nobody looks at the status (make verify-log).
Possible(a, t) ==
    IF a \notin HasDirs
      THEN {{}} \cup {{k} : k \in {"pass", "fail", "makefail", "lost"}}
    ELSE CASE Dir(Home(t)) = "gone" -> {{}}
           [] Dir(Home(t)) = "leftover" ->
                {{}, {"makefail"}}
                  \cup {{"makefail", k} : k \in AfterMakeFailed(a, t) \cap {"checkfail"}}
           [] OTHER ->
                {{}} \cup {{k} : k \in Kinds \cup {"lost"}}
                  \cup {{"makefail", k} : k \in AfterMakeFailed(a, t)}

FilesOf(o) ==
    LET Lines(K) == {l \in (DOMAIN o) \X K : l[2] \in o[l[1]]} IN
    [pass |-> Lines({"pass"}), fail |-> Lines({"fail"}),
     make |-> Lines({"makefail", "checkfail"})]

\* What the tests of some results directories do.
Reported(dirs) ==
    LET Runs == UNION {{a} \X Tests[a] : a \in dirs} IN
    {[a \in dirs |-> [t \in Tests[a] |-> o[<<a, t>>]]] :
        o \in {f \in [Runs -> Outcomes] : \A r \in Runs : f[r] \in Possible(r[1], r[2])}}

\* for suite in $SUITE_LIST; do $suite; done
Command == Function(list[at])[step]
NextIs(op) == at <= Len(list) /\ list[at] \in Suites /\ Command.op = op
Advance ==
    /\ IF step < Len(Function(list[at])) THEN step' = step + 1 /\ at' = at
                                         ELSE step' = 1 /\ at' = at + 1
    /\ UNCHANGED <<world, epsdb, list, verdict, status>>

\* A name that is no function is "command not found", which nobody notices.
CommandNotFound ==
    /\ at <= Len(list) /\ list[at] \in NoFunctions
    /\ at' = at + 1
    /\ UNCHANGED <<world, epsdb, list, step, outcome, files, copied, verdict, status>>
    /\ UNCHANGED counters

\* A suite's script ends, with the status 0 or another one, and leaves the results it
\* has until then.
RunScript ==
    /\ NextIs("run")
    /\ \E o \in Reported(Command.dirs), failed \in {0, 1} :
         /\ outcome' = [a \in DOMAIN Tests |->
               IF a \in Command.dirs THEN o[a] ELSE outcome[a]]
         /\ files' = [a \in DOMAIN Tests |->
               IF a \in Command.dirs THEN FilesOf(o[a]) ELSE files[a]]
         /\ scriptfails' = scriptfails + (IF Command.tested THEN failed ELSE 0)
    /\ Advance
    /\ UNCHANGED <<copied, totalunexpectedfails, numtests>>

-----------------------------------------------------------------------------
(* copyresults.                                                            *)

Expected(a) == IF a \in MustPass THEN {} ELSE world.expected[a]
Passes(a) == Expected(a) \X {"pass"}

\* Mutant: diff with its files swapped.
FailsSwapped(a) ==
    IF a \in MustPass THEN files[a].fail \cup files[a].make
                      ELSE files[a].pass \ Passes(a)

\* The difference to the expected passes, or every line of the two other files.
Fails(a) ==
    IF a \in MustPass THEN files[a].fail \cup files[a].make
                      ELSE Passes(a) \ files[a].pass

\* `for fail in $fails` takes each word of a line for a test.
WordsOf(L) == UNION {{<<l, i>> : i \in DOMAIN Words[l]} : l \in L}
Word(x) == Words[x[1]][x[2]]

\* Mutants: the loop over unsupported tests also takes removed ones; notpresent is
\* not reset for the next test.
UnsupportedOrGone(a) ==
    {x \in WordsOf(Fails(a)) : Dir(Word(x)) = "gone" \/ Word(x) \in world.skips}
NotPresentKept(a) ==
    IF files[a].make = {} \/ \A x \in WordsOf(Fails(a)) : Dir(Word(x)) = "whole"
      THEN {} ELSE WordsOf(Fails(a))

\* Words of fails whose test was unsupported, and those without a directory or a
\* Makefile.  A word can be both: of a left-over directory with an old run.log.
Unsupported(a) ==
    {x \in WordsOf(Fails(a)) : Dir(Word(x)) # "gone" /\ Word(x) \in world.skips}
NotPresent(a) ==
    IF files[a].make = {} THEN {} ELSE {x \in WordsOf(Fails(a)) : Dir(Word(x)) # "whole"}
\* Those no result file mentions.
Unmentioned(a) ==
    LET Mentioned == {l[1] : l \in files[a].pass \cup files[a].fail \cup files[a].make}
    IN {l \in Fails(a) : l[1] \notin Mentioned}

FalseNegatives(a, hasDir) ==
    IF a \in HasDirs /\ hasDir
      THEN Cardinality(Unsupported(a)) + Cardinality(NotPresent(a))
    ELSE IF a \in HasList THEN Cardinality(Unmentioned(a)) ELSE 0

unexpectedfails(a, hasDir) == Cardinality(Fails(a)) - FalseNegatives(a, hasDir)

\* Mutant: the combined list, which has the make failures, and these again.
numtestsTwice(a) ==
    IF Expected(a) # {} THEN Cardinality(Expected(a))
    ELSE IF a \in MustPass
      THEN numtests + Cardinality(Fails(a)) + Cardinality(files[a].make)
    ELSE 0

\* Without a passing test, every expected pass counts; the fails of a suite that
\* must pass are added to what numtests was before.
numtestsOf(a) ==
    IF Expected(a) # {} THEN Cardinality(Expected(a))
    ELSE IF a \in MustPass
      THEN numtests + Cardinality(files[a].fail) + Cardinality(files[a].make)
    ELSE 0

copyresults ==
    /\ NextIs("copy")
    /\ LET a == Command.name
           hasPasses == files[a].pass # {}
           n == IF hasPasses THEN unexpectedfails(a, Command.hasDir)
                             ELSE numtestsOf(a) IN
         /\ numtests' = IF hasPasses THEN numtests ELSE n
         /\ totalunexpectedfails' =
               totalunexpectedfails + (IF Counts(a) THEN n ELSE 0)
         /\ copied' = copied \cup {a}
    /\ Advance
    /\ UNCHANGED <<outcome, files, scriptfails>>

\* Mutant: the status of exit is not cut to a byte.
VerdictUncut ==
    /\ at > Len(list) /\ verdict = "none"
    /\ verdict' = IF totalunexpectedfails > 0 \/ scriptfails # 0
                  THEN "red" ELSE "green"
    /\ status' = totalunexpectedfails
    /\ UNCHANGED <<world, epsdb, list, at, step, outcome, files, copied, counters>>

\* The total may be below 0 here.
Verdict ==
    /\ at > Len(list) /\ verdict = "none"
    /\ verdict' = IF totalunexpectedfails > 0 \/ scriptfails # 0
                  THEN "red" ELSE "green"
    /\ status' = totalunexpectedfails % 256
    /\ UNCHANGED <<world, epsdb, list, at, step, outcome, files, copied, counters>>

Done == verdict # "none" /\ UNCHANGED vars

Next == RunScript \/ copyresults \/ CommandNotFound \/ Verdict \/ Done

Spec == Init /\ [][Next]_vars

-----------------------------------------------------------------------------
(* Properties.                                                             *)

\* A suite has a failed test: of those that have to pass one fails, of the others one
\* that is expected to pass does not.
Failed(a, t) ==
    IF a \in MustPass
      THEN outcome[a][t] \cap {"fail", "makefail", "checkfail", "lost"} # {}
      ELSE t \in Expected(a) /\ "pass" \notin outcome[a][t]

\* The failures that can be counted: the lines that tell of one, or the expected lines
\* that are missing.
Failures(a) ==
    {l \in Tests[a] \X Kinds :
        IF a \in MustPass THEN l[2] # "pass" /\ l[2] \in outcome[a][l[1]]
                          ELSE l[2] = "pass" /\ Failed(a, l[1])}

\* A test that was removed from its suite or is not supported here.
Excused(a, t) ==
    \/ a \in HasDirs /\ (Home(t) \in world.skips \/ Removed(t))
    \/ a \in HasList /\ outcome[a][t] = {}

\* A failure without a line goes unnoticed where only lines are counted, and is taken
\* for a removed test where tests are looked up in the results.
Unnoticed(a, t) == a \in MustPass \cup HasList /\ outcome[a][t] = {"lost"}

Real(a) == {l \in Failures(a) : ~Excused(a, l[1]) /\ ~Unnoticed(a, l[1])}

\* What a suite can take back for nothing: the further words of a line, and once more
\* a word whose directory is left over and has a log that says "skipped".
Misread(a) ==
    IF a \notin HasDirs THEN {}
    ELSE {<<x, "further">> : x \in {y \in WordsOf(Failures(a)) : y[2] > 1}}
         \cup {<<x, "twice">> : x \in {y \in WordsOf(Failures(a)) :
                  Dir(Word(y)) = "leftover" /\ Word(y) \in world.skips}}

Total(S(_)) ==
    FoldFunction(LAMBDA x, y : x + y, 0,
        [a \in DOMAIN Tests |-> IF a \in copied /\ Counts(a) THEN Cardinality(S(a)) ELSE 0])

TypeOK ==
    /\ world \in Worlds /\ epsdb \in BOOLEAN
    /\ list \in SuiteLists /\ at \in 1..(Len(list) + 1)
    /\ \A a \in DOMAIN Tests : outcome[a] \in [Tests[a] -> Outcomes]
    /\ copied \subseteq DOMAIN Tests
    /\ totalunexpectedfails \in Int /\ scriptfails \in Nat /\ numtests \in Nat
    /\ verdict \in {"none", "green", "red"} /\ status \in 0..255

\* Green means that no tested script has failed and, where no line was misread, that the
\* exit status is 0 and that in every suite that counts each test that failed is
\* removed, unsupported or has failed unnoticed, whichever suites came before.  In a
\* suite with test directories and a list of expected passes nothing goes unnoticed.
GreenIsClean ==
    verdict = "green" =>
        /\ scriptfails = 0
        /\ (\A a \in copied : Counts(a) => Misread(a) = {}) =>
              /\ status = 0
              /\ \A a \in copied : Counts(a) =>
                    \A t \in Tests[a] : Failed(a, t) => Excused(a, t) \/ Unnoticed(a, t)

\* Red has a reason: a script failed, or a suite that counts has a failure.  A suite
\* without a passing test can also be the reason although it does not count, through
\* numtests, when one that must pass and counts has no passing test either.
RedHasReason ==
    verdict = "red" =>
        \/ scriptfails # 0
        \/ \E a \in copied :
              /\ Failures(a) # {}
              /\ \/ Counts(a)
                 \/ /\ files[a].pass = {}
                    /\ \E b \in copied \cap MustPass : Counts(b) /\ files[b].pass = {}

\* "Check unexpected fails for false negatives, i.e. tests that may have been deleted
\* or unsupported tests": no other failure is taken back.
TakesBackOnlyExcused == totalunexpectedfails >= Total(Real)

\* Of the failures of other tests, one is lost at most for each thing that is misread:
\* a failing make check hides no more failures than its line has further words, in its
\* own suite or in another one.
TakesBackNoMore == totalunexpectedfails + Total(Misread) >= Total(Real)

\* A failure is counted once, in its own suite: the total is at most the number of
\* failures, unless a suite that must pass and another one both have no passing test
\* at all (numtests of the first is then counted again).
CountsOnce ==
    LET NoPass == {a \in copied : files[a].pass = {}} IN
    NoPass \cap MustPass = {} \/ Cardinality(NoPass) <= 1 =>
        totalunexpectedfails <= Total(Failures)
=============================================================================
