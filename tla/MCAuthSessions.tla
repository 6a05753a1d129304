--------------------------- MODULE MCAuthSessions ---------------------------
(* Small instances of AuthSessions for TLC. *)
EXTENDS AuthSessions, TLC

(* Browsers and calls are interchangeable. *)
Symmetry == Permutations(Browser) \cup Permutations(Call)

=============================================================================
