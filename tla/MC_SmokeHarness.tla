-------------------------- MODULE MC_SmokeHarness --------------------------
(* Small instances of SmokeHarness for TLC. *)
EXTENDS SmokeHarness

\* An ordinary test and one whose binary is only built by `make check`.
RerunDirs  == {"teams", "liba_bundled_fullpath"}
RerunOrder == <<"liba_bundled_fullpath", "teams">>
RerunKind  == [t \in RerunDirs |-> "check"]
RerunLib   == {"liba_bundled_fullpath"}
RerunGrep  == [t \in RerunDirs |-> {t}]
RerunNrun  == [t \in RerunDirs |-> IF t = "teams" THEN 1 ELSE 0]

\* One test of each special kind, one whose binary is built by `make check`, and
\* a plain test that is not supported on this machine.
KindOrder == <<"hip_rocblas", "gpus", "flang-321277", "pfspecifier", "devices",
               "liba_bundled">>
KindDirs  == {KindOrder[n] : n \in DOMAIN KindOrder}
KindKind  == [t \in KindDirs |->
                CASE t = "liba_bundled"  -> "bundled"
                  [] t = "devices"       -> "visual"
                  [] t = "pfspecifier"  -> "verify"
                  [] t = "flang-321277" -> "check"
                  [] t = "gpus"          -> "gpus"
                  [] t = "hip_rocblas"   -> "absent"]
KindUnsupported == {"flang-321277"}
KindLib   == {"liba_bundled"}
KindGrep  == [t \in KindDirs |-> {t}]
KindNrun  == [t \in KindDirs |-> 0]

\* A test that is checked by its output.
VerifyDirs  == {"omp_places"}
VerifyOrder == <<"omp_places">>
VerifyKind  == [t \in VerifyDirs |-> "verify"]
VerifyGrep  == [t \in VerifyDirs |-> {t}]
VerifyNrun  == [t \in VerifyDirs |-> 0]
=============================================================================
