---------------------------- MODULE MCScheduler ----------------------------
(* Small instances of Scheduler for TLC. *)
EXTENDS Scheduler, TLC

(* Schedulers and requests are interchangeable. *)
Symmetry == Permutations(Sched) \cup Permutations(Request)

=============================================================================
