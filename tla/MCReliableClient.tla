-------------------------- MODULE MCReliableClient --------------------------
(* Instances of ReliableClient for TLC. *)
EXTENDS ReliableClient
=============================================================================
