-------------------------- MODULE MCTwoDebouncers ---------------------------
(* An instance of TwoDebouncers for TLC. *)
EXTENDS TwoDebouncers
=============================================================================
