-------------------------- MODULE MCScenarioFlows --------------------------
(* Small instances of ScenarioFlows for TLC. *)
EXTENDS ScenarioFlows, TLC

(* Flows, steps of a flow and calls are interchangeable. *)
Symmetry == Permutations(Flow) \cup Permutations(Serial) \cup Permutations(Call)

=============================================================================
