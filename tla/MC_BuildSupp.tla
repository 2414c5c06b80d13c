---------------------------- MODULE MC_BuildSupp ----------------------------
(* A small instance of BuildSupp for TLC. *)
EXTENDS BuildSupp

\* The prerequisites in the script's order, with the chain cmake, rocmsmilib,
\* hwloc; rocmsmilib without asking for cmake, followed by a misspelt name; and
\* a component that needs clang, which is missing.
McComponents == {"cmake", "rocmsmilib", "hwloc", "openmpi"}
McRequests == {<<"cmake", "rocmsmilib", "hwloc">>,
               <<"rocmsmilib", "hwlock">>, <<"openmpi">>}
=============================================================================
