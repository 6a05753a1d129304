------------------------- MODULE MCBottleneckAlerts -------------------------
(* Small instances of BottleneckAlerts for TLC. *)
EXTENDS BottleneckAlerts, TLC

CONSTANTS b1, b2, b3, k1, k2

(* Two bottlenecks of one step and one of another. *)
Steps == b1 :> k1 @@ b2 :> k1 @@ b3 :> k2

(* Handlers, clients and subjects are interchangeable. *)
Symmetry ==
    Permutations(Handler) \cup Permutations(Client) \cup Permutations(Stream)

=============================================================================
