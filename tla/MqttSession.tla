---------------------------- MODULE MqttSession -----------------------------
(***************************************************************************)
(* What an MQTT client promises its application about one broker           *)
(* connection, without timers, packets or buffers: the meaning of the      *)
(* codes of client.state() ("Possible values for client.state()",          *)
(* libraries/pubsubclient/src/PubSubClient.h).  The client of              *)
(* PubSubClient implements it.                                             *)
(***************************************************************************)

VARIABLES
  phase,      (* "offline", "opening" or "online"                           *)
  code,       (* what state() reports                                       *)
  granted,    (* the broker has accepted this connection                    *)
  alive,      (* the TCP connection still has its peer                      *)
  unanswered  (* a ping of this connection is waiting for its answer        *)

vars == <<phase, code, granted, alive, unanswered>>

Init ==
  /\ phase = "offline"
  /\ code = "Disconnected"
  /\ granted = FALSE
  /\ alive = FALSE
  /\ unanswered = FALSE

GoOffline == phase' = "offline" /\ granted' = FALSE /\ alive' = FALSE

\* The application asks for a connection.
Open ==
  /\ phase # "opening" /\ ~alive
  /\ phase' = "opening" /\ alive' = TRUE /\ granted' = FALSE
  /\ code' = IF phase = "online" THEN "ConnectionLost" ELSE code
  /\ UNCHANGED unanswered

OpenFails ==
  /\ phase # "opening" /\ ~alive
  /\ code' = "ConnectFailed"
  /\ GoOffline
  /\ UNCHANGED unanswered

\* The broker accepts, if the connection still stands.
Grant ==
  /\ phase = "opening" /\ alive
  /\ granted' = TRUE
  /\ UNCHANGED <<phase, code, alive, unanswered>>

\* Only an accepted connection comes online, and with a clean slate.
Establish ==
  /\ phase = "opening" /\ granted
  /\ phase' = "online" /\ code' = "Connected" /\ unanswered' = FALSE
  /\ UNCHANGED <<granted, alive>>

Abandon ==
  /\ phase = "opening"
  /\ code' \in {code, "Refused", "ConnectionTimeout"}
  /\ GoOffline
  /\ UNCHANGED unanswered

\* One ping at a time.
Ping ==
  /\ phase = "online" /\ ~unanswered
  /\ unanswered' = TRUE
  /\ UNCHANGED <<phase, code, granted, alive>>

Pong ==
  /\ phase = "online" /\ unanswered
  /\ unanswered' = FALSE
  /\ UNCHANGED <<phase, code, granted, alive>>

\* The client ends a connection on its own account only while a ping of this
\* very connection is unanswered.
GiveUp ==
  /\ phase = "online" /\ unanswered
  /\ code' = "ConnectionTimeout"
  /\ GoOffline
  /\ UNCHANGED unanswered

\* The peer goes away; an acceptance that is still on its way may be lost.
Die ==
  /\ alive
  /\ alive' = FALSE /\ granted' \in {granted, FALSE}
  /\ UNCHANGED <<phase, code, unanswered>>

\* "Connection lost" is reported only of a connection that is lost.
NoticeLoss ==
  /\ phase = "online" /\ ~alive
  /\ code' = "ConnectionLost"
  /\ GoOffline
  /\ UNCHANGED unanswered

Disconnect ==
  /\ phase # "opening"
  /\ code' = "Disconnected"
  /\ GoOffline
  /\ UNCHANGED unanswered

Next ==
  \/ Open \/ OpenFails \/ Grant \/ Establish \/ Abandon
  \/ Ping \/ Pong \/ GiveUp
  \/ Die \/ NoticeLoss \/ Disconnect

Spec == Init /\ [][Next]_vars
=============================================================================
