--------------------------- MODULE MCSonoffSwitch ---------------------------
(* Instances of SonoffSwitch for TLC. *)
EXTENDS SonoffSwitch
=============================================================================
