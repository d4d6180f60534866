----------------------------- MODULE MCMqttWire -----------------------------
(* Instances of MqttWire for TLC: a byte has 32 values, a digit of a length 16;
   the buffer has room for 32 bytes, 5 of them for the fixed header. *)
EXTENDS MqttWire

Publish(topic, qos, id, payload) ==
  [class |-> "PUBLISH", topic |-> topic, qos |-> qos, id |-> id, payload |-> payload]

MCOutMessages ==
  [class : {"CONNECT"}, clientid : {1}, will : {0, 1}, message : {0, 1}, user : {0, 1},
   password : {0, 2}, keepalive : {15}]
  \cup {Publish(t, q, 40, n) : t \in {1, 3}, q \in 0..2, n \in {0, 1, 22, 23, 24}}
  \cup [class : {"PUBACK", "PUBREC", "PUBREL", "PUBCOMP"}, id : {40}]
  \cup [class : {"SUBSCRIBE", "UNSUBSCRIBE"}, id : {1}, qos : {1}, topics : {<<>>, <<2>>, <<1, 3>>}]
  \cup [class : {"PINGREQ", "DISCONNECT"}]

\* A topic and an id at the end of the positions and behind it, and topics of which the
\* payload just is in reach and the last character is not; a topic of 32 is too long,
\* and a payload of 33 for the length of a payload.
MCInMessages ==
  {Publish(1, 0, 0, 0), Publish(1, 1, 40, 1), Publish(1, 0, 0, 33), Publish(32, 0, 0, 0),
   Publish(28, 1, 40, 1), Publish(29, 1, 40, 0), Publish(29, 0, 0, 1), Publish(31, 0, 0, 0)}
  \cup [class : {"CONNACK"}, rc : {0}] \cup [class : {"SUBACK"}, id : {40}, rcs : {<<1>>}]
  \cup [class : {"PUBCOMP"}, id : {40}] \cup [class : {"PINGRESP"}]
=============================================================================
