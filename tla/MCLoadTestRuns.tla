--------------------------- MODULE MCLoadTestRuns ---------------------------
(* Small instances of LoadTestRuns for TLC. *)
EXTENDS LoadTestRuns, TLC

(* Runs, callers and followers are interchangeable. *)
Symmetry ==
    Permutations(Run) \cup Permutations(Starter) \cup Permutations(Follower)

=============================================================================
