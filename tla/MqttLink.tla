------------------------------ MODULE MqttLink ------------------------------
(***************************************************************************)
(* What the two MQTT clients of libraries/pubsubclient and                 *)
(* libraries/pubsubclient.old talk to: one TCP connection, seen from the   *)
(* client, and the broker at its other end.  None of this is code of the   *)
(* repository.  It is modelled from the calls the clients make on their    *)
(* network client (connect, connected, available, read, write, stop) and   *)
(* from the packets they send and expect.                                  *)
(*                                                                         *)
(* Both directions are reliable and ordered while the connection is up; a  *)
(* connection can go down at any moment, losing what was in flight and     *)
(* cutting a packet in two.  The broker may stop answering for good while  *)
(* its TCP connection stays up (a hung broker).                            *)
(***************************************************************************)
EXTENDS Integers, Sequences, FiniteSets

CONSTANTS
  BrokerDelay, (* ticks a broker that is not hung takes at most per packet *)
  QueueCap,    (* bound: the broker stops sending at this queue length     *)
  SilenceCap,  (* bound: the broker's silence counter saturates here       *)
  MsgIds,      (* packet identifiers the broker uses for its publications  *)
  BrokerQos,   (* qualities of service the broker publishes with           *)
  BrokerFits,  (* whether its publications fit in the client's buffer      *)
  RefusalCodes (* CONNACK return codes other than 0 the broker may answer  *)

ASSUME LinkAssumption ==
  /\ BrokerDelay \in Nat /\ QueueCap \in Nat /\ SilenceCap \in Nat
  /\ MsgIds \subseteq Nat \ {0}
  /\ BrokerQos \subseteq 0..2
  /\ BrokerFits \subseteq BOOLEAN
  /\ RefusalCodes \subseteq 1..5

VARIABLES
  tcp,        (* "closed": stopped by the client; "open"; "lost": the peer is gone *)
  toClient,   (* packets the client has not read yet                       *)
  toBroker,   (* packets the broker has not processed yet                  *)
  session,    (* the broker's view of this connection                      *)
  unacked,    (* ids of QoS > 0 publications the broker wants acknowledged *)
  hung,       (* the broker no longer processes this connection            *)
  brokerBusy, (* ticks the first packet of toBroker has been waiting       *)
  silence     (* ticks since the broker last processed a packet            *)

linkVars == <<tcp, toClient, toBroker, session, unacked, hung, brokerBusy, silence>>

PacketTypes == {"CONNECT", "CONNACK", "PUBLISH", "PUBACK", "PUBREC", "PUBREL",
                "PUBCOMP", "SUBSCRIBE", "SUBACK", "UNSUBSCRIBE", "UNSUBACK",
                "PINGREQ", "PINGRESP"}

\* fits: whether the packet fits in the client's buffer.  rc: CONNACK's return
\* code.  cut: the last bytes of the packet are missing.
Packet == [type : PacketTypes, id : Nat, qos : 0..2, fits : BOOLEAN, rc : 0..5,
           cut : BOOLEAN]

Ctl(type) ==
  [type |-> type, id |-> 0, qos |-> 0, fits |-> TRUE, rc |-> 0, cut |-> FALSE]
WithId(type, id) ==
  [type |-> type, id |-> id, qos |-> 0, fits |-> TRUE, rc |-> 0, cut |-> FALSE]
ConnAck(rc) ==
  [type |-> "CONNACK", id |-> 0, qos |-> 0, fits |-> TRUE, rc |-> rc, cut |-> FALSE]
Publication(id, q, f) ==
  [type |-> "PUBLISH", id |-> id, qos |-> q, fits |-> f, rc |-> 0, cut |-> FALSE]

Cut(p) == [p EXCEPT !.cut = TRUE]

LinkTypeOK ==
  /\ tcp \in {"closed", "open", "lost"}
  /\ toClient \in Seq(Packet)
  /\ toBroker \in Seq(Packet)
  /\ session \in {"none", "awaiting", "accepted", "refused"}
  /\ unacked \subseteq MsgIds
  /\ hung \in BOOLEAN
  /\ brokerBusy \in Nat
  /\ silence \in 0..SilenceCap

LinkInit ==
  /\ tcp = "closed"
  /\ toClient = <<>>
  /\ toBroker = <<>>
  /\ session = "none"
  /\ unacked = {}
  /\ hung = FALSE
  /\ brokerBusy = 0
  /\ silence = 0

(***************************************************************************)
(* The calls a client makes.                                               *)
(***************************************************************************)

\* WiFiClient::connected(): a connection the peer closed still counts as
\* connected while it holds unread data.
TcpConnected == tcp = "open" \/ (tcp = "lost" /\ toClient # <<>>)

\* A successful _client.connect() followed by the write of one packet.
OpenWith(p) ==
  /\ tcp' = "open"
  /\ toClient' = <<>>
  /\ toBroker' = <<p>>
  /\ session' = "awaiting"
  /\ unacked' = {}
  /\ hung' = FALSE
  /\ brokerBusy' = 0
  /\ silence' = 0

\* _client.stop(): both directions are discarded.
Stop ==
  /\ tcp' = "closed"
  /\ toClient' = <<>>
  /\ toBroker' = <<>>
  /\ session' = "none"
  /\ unacked' = {}
  /\ hung' = FALSE
  /\ brokerBusy' = 0
  /\ silence' = 0

\* _client.write() of the packets ps; what is written to a dead link is lost,
\* and what is written to a hung broker is never processed.
Sent(ps) == IF tcp = "open" /\ ~hung THEN toBroker \o ps ELSE toBroker

(***************************************************************************)
(* The broker.                                                             *)
(***************************************************************************)

Drop ==
  /\ tcp' = "lost"
  /\ toBroker' = <<>>
  /\ session' = "none"
  /\ unacked' = {}
  /\ brokerBusy' = 0
  /\ UNCHANGED <<hung, silence>>

\* What the broker answers to packet p in an accepted session.
Reply(p) ==
  CASE p.type = "PINGREQ"     -> <<Ctl("PINGRESP")>>
    [] p.type = "SUBSCRIBE"   -> <<WithId("SUBACK", p.id)>>
    [] p.type = "UNSUBSCRIBE" -> <<WithId("UNSUBACK", p.id)>>
    [] p.type = "PUBLISH" /\ p.qos = 1 -> <<WithId("PUBACK", p.id)>>
    [] p.type = "PUBLISH" /\ p.qos = 2 -> <<WithId("PUBREC", p.id)>>
    [] p.type = "PUBREL"      -> <<WithId("PUBCOMP", p.id)>>
    [] p.type = "PUBREC"      -> <<WithId("PUBREL", p.id)>>
    [] OTHER                  -> <<>>

\* The broker processes the next packet.  A packet that an MQTT server must
\* treat as a protocol violation (a malformed one, a second CONNECT, anything
\* but CONNECT first, anything after a refusal) makes it close the connection.
BrokerReceive ==
  /\ tcp = "open" /\ ~hung /\ toBroker # <<>>
  /\ LET p == Head(toBroker) IN
     \/ /\ session = "awaiting" /\ p.type = "CONNECT"
        /\ \E rc \in {0} \cup RefusalCodes :
             /\ session' = IF rc = 0 THEN "accepted" ELSE "refused"
             /\ toClient' = Append(toClient, ConnAck(rc))
        /\ toBroker' = Tail(toBroker) /\ brokerBusy' = 0 /\ silence' = 0
        /\ UNCHANGED <<tcp, unacked, hung>>
     \/ /\ session = "accepted" /\ p.type # "CONNECT" /\ ~p.cut
        /\ toClient' = toClient \o Reply(p)
        /\ unacked' = IF p.type \in {"PUBACK", "PUBCOMP"} THEN unacked \ {p.id} ELSE unacked
        /\ toBroker' = Tail(toBroker) /\ brokerBusy' = 0 /\ silence' = 0
        /\ UNCHANGED <<tcp, session, hung>>
     \/ /\ \/ session = "refused"
           \/ session = "awaiting" /\ p.type # "CONNECT"
           \/ session = "accepted" /\ (p.type = "CONNECT" \/ p.cut)
        /\ UNCHANGED toClient
        /\ Drop

\* The broker forwards a publication; ids are unused ones, as MQTT requires.
BrokerPublish ==
  /\ tcp = "open" /\ ~hung /\ session = "accepted"
  /\ Len(toClient) + Len(toBroker) < QueueCap
  /\ \E q \in BrokerQos, f \in BrokerFits :
       \/ /\ q = 0
          /\ toClient' = Append(toClient, Publication(0, 0, f))
          /\ UNCHANGED unacked
       \/ /\ q # 0
          /\ \E id \in MsgIds \ unacked :
               /\ toClient' = Append(toClient, Publication(id, q, f))
               /\ unacked' = unacked \cup {id}
  /\ UNCHANGED <<tcp, toBroker, session, hung, brokerBusy, silence>>

\* The clients answer a PINGREQ from the other side, so one may be sent.
BrokerPing ==
  /\ tcp = "open" /\ ~hung /\ session = "accepted"
  /\ Len(toClient) + Len(toBroker) < QueueCap
  /\ toClient' = Append(toClient, Ctl("PINGREQ"))
  /\ UNCHANGED <<tcp, toBroker, session, unacked, hung, brokerBusy, silence>>

BrokerHangs ==
  /\ tcp = "open" /\ ~hung
  /\ hung' = TRUE
  /\ toBroker' = <<>>
  /\ UNCHANGED <<tcp, toClient, session, unacked, brokerBusy, silence>>

\* The connection goes down.  The client keeps a prefix of what it was sent,
\* possibly with a packet cut in two.
LinkDown ==
  /\ tcp = "open"
  /\ \E k \in 0..Len(toClient) :
       \/ toClient' = SubSeq(toClient, 1, k)
       \/ k < Len(toClient) /\ toClient' = Append(SubSeq(toClient, 1, k), Cut(toClient[k + 1]))
  /\ Drop

\* Time passes for the broker, which may not be late (see BrokerDelay).
BrokerOverdue == tcp = "open" /\ ~hung /\ toBroker # <<>> /\ brokerBusy >= BrokerDelay

LinkTick ==
  /\ ~BrokerOverdue
  /\ brokerBusy' = IF tcp = "open" /\ ~hung /\ toBroker # <<>> THEN brokerBusy + 1 ELSE 0
  /\ silence' = IF tcp = "open" /\ silence < SilenceCap THEN silence + 1 ELSE silence
  /\ UNCHANGED <<tcp, toClient, toBroker, session, unacked, hung>>

LinkNext == BrokerReceive \/ BrokerPublish \/ BrokerPing \/ BrokerHangs \/ LinkDown
=============================================================================
