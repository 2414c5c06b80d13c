----------------------------- MODULE ResultBook -----------------------------
(***************************************************************************)
(* What every check script of the repository promises of its three result  *)
(* files (passing-tests.txt, failing-tests.txt and make-fail.txt): lines    *)
(* are added one at a time while tests run, the report counts exactly the   *)
(* lines that are there, and after the report no line is added.  The files  *)
(* may be removed once they have been reported.                             *)
(***************************************************************************)
EXTENDS Integers, Functions

CONSTANT Tests

VARIABLES pass, fail, make,   \* lines per test of each file
          report              \* the two totals of "Passing tests: p/t"

vars == <<pass, fail, make, report>>

NoReport == [passing |-> -1, total |-> -1]
Empty == [t \in Tests |-> 0]
Count(file) == FoldFunction(LAMBDA x, y : x + y, 0, file)

Init == pass = Empty /\ fail = Empty /\ make = Empty /\ report = NoReport

Record(file, t) == file' = [file EXCEPT ![t] = @ + 1]

RecordPass(t) == report = NoReport /\ Record(pass, t) /\ UNCHANGED <<fail, make, report>>
RecordFail(t) == report = NoReport /\ Record(fail, t) /\ UNCHANGED <<pass, make, report>>
RecordMake(t) == report = NoReport /\ Record(make, t) /\ UNCHANGED <<pass, fail, report>>

Gather ==
    /\ report = NoReport
    /\ report' = [passing |-> Count(pass),
                  total   |-> Count(pass) + Count(make) + Count(fail)]
    /\ UNCHANGED <<pass, fail, make>>

Cleanup ==
    /\ report # NoReport
    /\ pass' = Empty /\ fail' = Empty /\ make' = Empty
    /\ UNCHANGED report

Next == \/ \E t \in Tests : RecordPass(t) \/ RecordFail(t) \/ RecordMake(t)
        \/ Gather \/ Cleanup

Spec == Init /\ [][Next]_vars
=============================================================================
