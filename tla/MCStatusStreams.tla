-------------------------- MODULE MCStatusStreams --------------------------
(* Small instances of StatusStreams for TLC. *)
EXTENDS StatusStreams, TLC

=============================================================================
