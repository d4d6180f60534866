---------------------------- MODULE MCSensorNode ----------------------------
(* Instances of SensorNode for TLC. *)
EXTENDS SensorNode
=============================================================================
