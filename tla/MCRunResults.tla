---------------------------- MODULE MCRunResults ----------------------------
(* A small instance of RunResults for TLC. *)
EXTENDS RunResults

Names == [s \in {"a", "b", "c"} |-> s]

(* Two flows of different weights; then the one keeps its step and gets a  *)
(* new one, and the other goes with its step.                              *)
Versions ==
    << << [name |-> "f", weight |-> 1, steps |-> <<"a">>],
          [name |-> "g", weight |-> 2, steps |-> <<"b">>] >>,
       << [name |-> "f", weight |-> 1, steps |-> <<"a", "c">>] >> >>

=============================================================================
