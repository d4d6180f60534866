--------------------------- MODULE MCPubSubClient ---------------------------
(* Instances of PubSubClient for TLC. *)
EXTENDS PubSubClient
=============================================================================
