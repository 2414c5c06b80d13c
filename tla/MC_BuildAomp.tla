---------------------------- MODULE MC_BuildAomp ----------------------------
(* A small instance of BuildAomp for TLC. *)
EXTENDS BuildAomp

\* The compiler, a component before and one after it; select also in the wrong
\* order.
ThreeComponents == <<"prereq", "project", "openmp">>
SomeSelections == {<<"openmp", "project">>}
=============================================================================
