------------------------- MODULE MC_SmokeSequential -------------------------
(* A small instance of SmokeSequential for TLC. *)
EXTENDS SmokeSequential

\* One test of each kind; "teams" has an NRUN file and is compiled only when
\* needed, "usm" is not supported on this GPU.
AllDirs  == {"devices", "flags", "gone", "gpus", "hip-gbo", "hip_rocblas",
             "liba_bundled", "omp_places", "teams", "usm"}
AllOrder == <<"devices", "flags", "gone", "gpus", "hip-gbo", "hip_rocblas",
              "liba_bundled", "omp_places", "teams", "usm">>
AllKind  == [t \in AllDirs |->
               CASE t = "devices"      -> "visual"
                 [] t = "flags"        -> "flags"
                 [] t = "gone"         -> "missing"
                 [] t = "gpus"         -> "gpus"
                 [] t = "hip-gbo"      -> "asan"
                 [] t = "hip_rocblas"  -> "rocblas"
                 [] t = "liba_bundled" -> "bundled"
                 [] t = "omp_places"   -> "verify"
                 [] t \in {"teams", "usm"} -> "check"]
AllUnsupported == {"usm"}
AllLib      == {"liba_bundled"}
AllNoPrereq == {"teams"}
AllNrun     == [t \in AllDirs |-> IF t = "teams" THEN 3 ELSE 0]

\* Nearly the whole list once; reruns in two list iterations; the
\* sanitizer.
Env(active, l, n, s) ==
    [skip |-> AllDirs \ active, lrun |-> l, nrun |-> n, sanitizer |-> s]
AllEnvironments ==
    {Env(AllDirs \ {"hip-gbo", "flags"}, 1, 1, FALSE),
     Env({"teams", "usm"}, 2, 2, FALSE),
     Env({"liba_bundled", "flags"}, 2, 1, FALSE),
     Env({"hip-gbo", "teams", "omp_places"}, 1, 2, TRUE)}
=============================================================================
