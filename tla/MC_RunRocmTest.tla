--------------------------- MODULE MC_RunRocmTest ---------------------------
(* Small instances of RunRocmTest for TLC. *)
EXTENDS RunRocmTest, TLC

PlainAreas == {"smoke", "smoke-limbo", "smoke-dev", "nekbone"} \cup Sollve

\* Up to two tests in the suites with directories, one elsewhere.
PlainTests ==
    [a \in PlainAreas |-> IF a = "smoke" THEN {"helloworld", "liba_bundled"}
                     ELSE IF a = "smoke-dev" THEN {"veccopy", "xteamr"}
                     ELSE IF a = "smoke-limbo" THEN {"issue_001"}
                     ELSE IF a = "sollve51" THEN {}
                     ELSE {a}]

\* The line of a failing make check has further words, but for liba_bundled.
LineWords(Names) ==
    [l \in Names \X Kinds |->
        IF l[2] = "checkfail" /\ l[1] \notin Bundled
          THEN <<l[1], "make", "check", "failed:", "2">> ELSE <<l[1]>>]
PlainWords == LineWords(UNION {PlainTests[a] : a \in PlainAreas})

\* A test may have been deleted, with its directory or only with its Makefile, and
\* another or the same one be unsupported; a list of expected passes may be missing.
InDirs == {"helloworld", "liba_bundled", "veccopy", "xteamr", "issue_001"}
Whole == [w \in InDirs |-> "whole"]
PlainPasses == [PlainTests EXCEPT !["sollve52"] = {}]
PlainWorlds ==
    {[dirs |-> [Whole EXCEPT ![w] = d], skips |-> s, expected |-> e] :
        w \in {"liba_bundled", "xteamr"}, d \in {"whole", "leftover", "gone"},
        s \in {{}, {"helloworld", "veccopy"}, {"liba_bundled", "xteamr"}},
        e \in {PlainPasses, [PlainPasses EXCEPT !["smoke-dev"] = {}]}}
PlainLists ==
    {<<"smoke-limbo", "smoke-dev">>, <<"smoke", "examples_openmp", "smoke-limbo">>,
     <<"smoke-dev", "nekbone">>, <<"smoke-dev", "smoke-limbo">>, <<"nekbone", "sollve">>}

\* A sub-test of flags and two other tests of smoke.
FlagsTests == [a \in {"smoke"} |-> {"flags 2", "helloworld", "devices"}]
FlagsWords ==
    [l \in FlagsTests["smoke"] \X Kinds |->
        IF l[1] = "flags 2"
          THEN IF l[2] = "makefail" THEN <<"flags">> ELSE <<"flags", "2">>
          ELSE LineWords({"helloworld", "devices"})[l]]
FlagsLists == {<<"smoke">>}
FlagsWorlds == {[dirs |-> [w \in {"flags", "helloworld", "devices"} |-> "whole"],
                 skips |-> {}, expected |-> [a \in {"smoke"} |-> {}]]}
=============================================================================
