------------------------- MODULE PubSubClientProofs -------------------------
(* What TLAPS proves of the client of PubSubClient, for all constants: type *)
(* correctness, that a connected client has been accepted, that the client  *)
(* implements the session of MqttSession, that pings and acknowledgements   *)
(* are accounted for, that the broker is not left without a packet for      *)
(* long, and that a keepalive period with room for the packets on their way *)
(* ends no connection whose broker still answers.                           *)
EXTENDS PubSubClient, MqttLinkProofs

----------------------------------------------------------------------------
(* Type correctness.                                                       *)

LEMMA Ages ==
  /\ AgeCap \in Nat /\ 0 \in 0..AgeCap
  /\ \A a \in 0..AgeCap : Older(a) \in 0..AgeCap
<1>1. AgeCap \in Nat
  BY ClientAssumption DEF ClientAssumption, AgeCap
<1> QED
  BY <1>1 DEF Older

LEMMA NextIdTyped ==
  ASSUME nextMsgId \in 0..(IdSpace - 1)
  PROVE  NextId \in 1..(IdSpace - 1)
<1>1. IdSpace \in Nat /\ IdSpace > 2
  BY ClientAssumption DEF ClientAssumption
<1>2. CASE nextMsgId = IdSpace - 1
  <2>1. (nextMsgId + 1) % IdSpace = 0
    BY <1>1, <1>2
  <2> QED
    BY <2>1, <1>1 DEF NextId
<1>3. CASE nextMsgId # IdSpace - 1
  BY <1>1, <1>3 DEF NextId
<1> QED
  BY <1>2, <1>3

\* The client's own variables have their types (TypeOK without the link).
ClientTypeOK ==
  /\ state \in Codes
  /\ pc \in {"app", "awaitAck", "tornAck", "tornLoop", "callback"}
  /\ inAge \in 0..AgeCap /\ outAge \in 0..AgeCap
  /\ pingOutstanding \in BOOLEAN
  /\ nextMsgId \in 0..(IdSpace - 1)
  /\ waited \in Nat
  /\ current \in Packet
  /\ dropped \subseteq Nat

LEMMA TypeSplit == TypeOK <=> LinkTypeOK /\ ClientTypeOK
BY DEF TypeOK, ClientTypeOK

\* A step that leaves the link's queues typed and the link otherwise alone.
LEMMA LinkKept ==
  ASSUME LinkTypeOK, toClient' \in Seq(Packet), toBroker' \in Seq(Packet),
         UNCHANGED <<tcp, session, unacked, hung, brokerBusy, silence>>
  PROVE  LinkTypeOK'
BY DEF LinkTypeOK

LEMMA HeadTyped ==
  ASSUME LinkTypeOK, toClient # <<>>
  PROVE  Head(toClient) \in Packet /\ Tail(toClient) \in Seq(Packet)
BY HeadTailProperties DEF LinkTypeOK

\* Calls that stop the connection, and what they may set beside.
LEMMA StoppingTyped ==
  ASSUME ClientTypeOK, Stop, NewSession,
         state' \in Codes, pc' = "app" \/ pc' = pc,
         inAge' \in {0, inAge}, outAge' \in {0, outAge},
         waited' \in {0, waited},
         UNCHANGED <<pingOutstanding, nextMsgId, current>>
  PROVE  LinkTypeOK' /\ ClientTypeOK'
<1>1. LinkTypeOK'
  BY StopTyped
<1>2. ClientTypeOK'
  BY Ages DEF ClientTypeOK, NewSession
<1> QED
  BY <1>1, <1>2

LEMMA OfflineTyped ==
  ASSUME LinkTypeOK, ClientTypeOK,
         CallOffline \/ ConnectFails
  PROVE  LinkTypeOK' /\ ClientTypeOK'
<1>1. /\ state' \in Codes
      /\ pc' = pc
      /\ waited' \in {0, waited}
      /\ UNCHANGED <<inAge, outAge, pingOutstanding, nextMsgId, current>>
  BY DEF CallOffline, ConnectFails, NoticeLoss, Codes, ClientTypeOK
<1>2. CASE Stop /\ NewSession
  BY <1>1, <1>2, StoppingTyped
<1>3. CASE UNCHANGED <<linkVars, dropped>>
  <2>1. LinkTypeOK'
    BY <1>3 DEF LinkTypeOK, linkVars
  <2>2. ClientTypeOK'
    BY <1>1, <1>3 DEF ClientTypeOK
  <2> QED
    BY <2>1, <2>2
<1>4. (Stop /\ NewSession) \/ UNCHANGED <<linkVars, dropped>>
  BY DEF CallOffline, ConnectFails, NoticeLoss
<1> QED
  BY <1>2, <1>3, <1>4

LEMMA ConnectTyped ==
  ASSUME LinkTypeOK, ClientTypeOK,
         \/ ConnectOpens \/ ConnectTimesOut \/ ConnectAnswered
         \/ ConnectReadsTorn \/ ConnectGivesUpOnTorn
  PROVE  LinkTypeOK' /\ ClientTypeOK'
<1>1. CASE ConnectOpens
  <2>1. LinkTypeOK'
    BY <1>1, OpenTyped DEF ConnectOpens
  <2>2. 1 \in 0..(IdSpace - 1)
    BY ClientAssumption DEF ClientAssumption
  <2>3. ClientTypeOK'
    BY <1>1, <2>2, Ages DEF ConnectOpens, NewSession, ClientTypeOK, Codes
  <2> QED
    BY <2>1, <2>3
<1>2. CASE ConnectTimesOut \/ ConnectGivesUpOnTorn
  BY <1>2, StoppingTyped DEF ConnectTimesOut, ConnectGivesUpOnTorn, Codes, ClientTypeOK
<1>3. CASE ConnectAnswered
  <2> DEFINE p == Head(toClient)
  <2>1. CASE Accepts(p)
    <3>1. LinkTypeOK'
      <4>1. toClient' \in Seq(Packet) /\ toBroker' \in Seq(Packet)
        BY <1>3, <2>1, HeadTyped DEF ConnectAnswered, LinkTypeOK
      <4> QED
        BY <1>3, <2>1, <4>1, LinkKept DEF ConnectAnswered
    <3>2. ClientTypeOK'
      BY <1>3, <2>1, Ages DEF ConnectAnswered, ClientTypeOK, Codes, PingAtConnect
    <3> QED
      BY <3>1, <3>2
  <2>2. CASE ~Accepts(p)
    <3>1. /\ state' \in Codes /\ pc' = "app" /\ waited' = 0
          /\ Stop /\ NewSession
          /\ UNCHANGED <<inAge, outAge, pingOutstanding, nextMsgId, current>>
      BY <1>3, <2>2 DEF ConnectAnswered, Codes, ClientTypeOK
    <3> QED
      BY <3>1, StoppingTyped
  <2> QED
    BY <2>1, <2>2
<1>4. CASE ConnectReadsTorn
  <2>1. toClient' \in Seq(Packet) /\ toBroker' \in Seq(Packet)
    BY <1>4, HeadTyped DEF ConnectReadsTorn, LinkTypeOK
  <2>2. LinkTypeOK'
    BY <1>4, <2>1, LinkKept DEF ConnectReadsTorn
  <2>3. ClientTypeOK'
    BY <1>4 DEF ConnectReadsTorn, ClientTypeOK
  <2> QED
    BY <2>2, <2>3
<1> QED
  BY <1>1, <1>2, <1>3, <1>4

\* What loop() may write: a PINGREQ if one is due, and a PINGRESP.
LEMMA LoopWrites ==
  ASSUME LinkTypeOK, NEW sent \in {<<>>, <<Ctl("PINGREQ")>>}
  PROVE  Sent(sent) \in Seq(Packet) /\ Sent(sent \o <<Ctl("PINGRESP")>>) \in Seq(Packet)
<1>1. Ctl("PINGREQ") \in Packet /\ Ctl("PINGRESP") \in Packet
  BY PacketsTyped DEF PacketTypes
<1>2. /\ <<>> \in Seq(Packet) /\ <<Ctl("PINGREQ")>> \in Seq(Packet)
      /\ <<Ctl("PINGRESP")>> \in Seq(Packet)
  BY <1>1
<1>3. sent \in Seq(Packet)
  BY <1>2
<1>4. sent \o <<Ctl("PINGRESP")>> \in Seq(Packet)
  BY <1>2, <1>3, ConcatProperties
<1> QED
  BY <1>3, <1>4, SentTyped DEF LinkTypeOK

LEMMA LoopTyped ==
  ASSUME LinkTypeOK, ClientTypeOK, Loop
  PROVE  LinkTypeOK' /\ ClientTypeOK'
<1> DEFINE ins  == IF KeepaliveDue THEN 0 ELSE inAge
           out  == IF KeepaliveDue THEN 0 ELSE outAge
           ping == pingOutstanding \/ KeepaliveDue
           sent == IF KeepaliveDue THEN <<Ctl("PINGREQ")>> ELSE <<>>
           p    == Head(toClient)
<1>1. ins \in 0..AgeCap /\ out \in 0..AgeCap /\ ping \in BOOLEAN
  BY Ages DEF ClientTypeOK
<1>2. sent \in {<<>>, <<Ctl("PINGREQ")>>}
  OBVIOUS
<1>3. /\ UNCHANGED <<tcp, session, unacked, hung, brokerBusy, silence, state, nextMsgId>>
      /\ \/ /\ toClient = <<>>
            /\ toBroker' = Sent(sent)
            /\ LoopEnds(ins, out, ping)
            /\ UNCHANGED toClient
         \/ /\ toClient # <<>>
            /\ toClient' = Tail(toClient)
            /\ LoopReads(p, ins, out, ping, sent)
  BY DEF Loop
<1> HIDE DEF ins, out, ping, sent
<1>4. CASE toClient = <<>> /\ toBroker' = Sent(sent) /\ LoopEnds(ins, out, ping)
           /\ UNCHANGED toClient
  <2>1. toClient' \in Seq(Packet) /\ toBroker' \in Seq(Packet)
    BY <1>4, <1>2, LoopWrites DEF LinkTypeOK
  <2>2. LinkTypeOK'
    BY <1>3, <2>1, LinkKept
  <2>3. ClientTypeOK'
    BY <1>1, <1>3, <1>4 DEF LoopEnds, ClientTypeOK
  <2> QED
    BY <2>2, <2>3
<1>5. CASE toClient # <<>> /\ toClient' = Tail(toClient) /\ LoopReads(p, ins, out, ping, sent)
  <2>1. p \in Packet /\ toClient' \in Seq(Packet)
    BY <1>5, HeadTyped
  <2> HIDE DEF p
  <2>2. toBroker' \in Seq(Packet)
    BY <1>5, <1>2, LoopWrites DEF LoopReads
  <2>3. LinkTypeOK'
    BY <1>3, <2>1, <2>2, LinkKept
  <2>4. PingAfter(p, ping) \in BOOLEAN /\ 0 \in 0..AgeCap
    BY <1>1, Ages DEF PingAfter
  <2>5. dropped' \subseteq Nat
    BY <1>5, <2>1 DEF ClientTypeOK, Packet, LoopReads, LoopEnds
  <2>6. inAge' \in 0..AgeCap /\ outAge' \in 0..AgeCap /\ pingOutstanding' \in BOOLEAN
        /\ pc' \in {"app", "tornLoop", "callback"} /\ waited' = 0 /\ current' \in Packet
    BY <1>1, <1>5, <2>1, <2>4 DEF LoopReads, LoopEnds, ClientTypeOK
  <2> QED
    BY <1>3, <2>3, <2>5, <2>6 DEF ClientTypeOK
<1> QED
  BY <1>3, <1>4, <1>5

LEMMA LoopEndingsTyped ==
  ASSUME LinkTypeOK, ClientTypeOK,
         LoopTimesOut \/ LoopGivesUpOnTorn \/ CallbackReturns
  PROVE  LinkTypeOK' /\ ClientTypeOK'
<1>1. CASE LoopTimesOut
  BY <1>1, StoppingTyped DEF LoopTimesOut, Codes, ClientTypeOK
<1>2. CASE LoopGivesUpOnTorn
  BY <1>2 DEF LoopGivesUpOnTorn, LinkTypeOK, ClientTypeOK, linkVars
<1>3. CASE CallbackReturns
  <2> DEFINE ack == WithId("PUBACK", AckId)
  <2>0. ack \in Packet
    BY PacketsTyped DEF ClientTypeOK, AckId, Packet, PacketTypes
  <2> HIDE DEF ack
  <2>1. <<ack>> \in Seq(Packet)
    BY <2>0
  <2>2. toClient' \in Seq(Packet) /\ toBroker' \in Seq(Packet)
    BY <1>3, <2>1, SentTyped DEF CallbackReturns, LinkTypeOK, ack
  <2>3. LinkTypeOK'
    BY <1>3, <2>2, LinkKept DEF CallbackReturns
  <2>4. NoPacket \in Packet
    BY PacketsTyped DEF NoPacket, PacketTypes
  <2>5. ClientTypeOK'
    BY <1>3, <2>4 DEF CallbackReturns, ClientTypeOK
  <2> QED
    BY <2>3, <2>5
<1> QED
  BY <1>1, <1>2, <1>3

LEMMA CallsTyped ==
  ASSUME LinkTypeOK, ClientTypeOK,
         Publish \/ Subscribe \/ Unsubscribe \/ Disconnect
  PROVE  LinkTypeOK' /\ ClientTypeOK'
<1>1. CASE Publish
  <2> DEFINE pub == Publication(0, 0, TRUE)
  <2>0. pub \in Packet
    BY DEF Publication, Packet, PacketTypes
  <2> HIDE DEF pub
  <2>1. <<pub>> \in Seq(Packet)
    BY <2>0
  <2>2. toClient' \in Seq(Packet) /\ toBroker' \in Seq(Packet)
    BY <1>1, <2>1, SentTyped DEF Publish, LinkTypeOK, pub
  <2>3. LinkTypeOK'
    BY <1>1, <2>2, LinkKept DEF Publish
  <2>4. ClientTypeOK'
    BY <1>1, Ages DEF Publish, ClientTypeOK
  <2> QED
    BY <2>3, <2>4
<1>2. ASSUME NEW t \in {"SUBSCRIBE", "UNSUBSCRIBE"}, Request(t)
      PROVE  LinkTypeOK' /\ ClientTypeOK'
  <2>1. NextId \in Nat /\ NextId \in 0..(IdSpace - 1)
    BY NextIdTyped, ClientAssumption DEF ClientTypeOK, ClientAssumption
  <2>2. <<WithId(t, NextId)>> \in Seq(Packet)
    BY <2>1, PacketsTyped DEF PacketTypes
  <2>3. toClient' \in Seq(Packet) /\ toBroker' \in Seq(Packet)
    BY <1>2, <2>2, SentTyped DEF Request, LinkTypeOK
  <2>4. LinkTypeOK'
    BY <1>2, <2>3, LinkKept DEF Request
  <2>5. ClientTypeOK'
    BY <1>2, <2>1, Ages DEF Request, ClientTypeOK
  <2> QED
    BY <2>4, <2>5
<1>3. CASE Disconnect
  BY <1>3, StoppingTyped DEF Disconnect, Codes, ClientTypeOK
<1> QED
  BY <1>1, <1>2, <1>3 DEF Subscribe, Unsubscribe

LEMMA WorldTyped ==
  ASSUME LinkTypeOK, ClientTypeOK, Network \/ Tick
  PROVE  LinkTypeOK' /\ ClientTypeOK'
<1>1. CASE Network
  BY <1>1, LinkNextTyped DEF Network, clientVars, ClientTypeOK
<1>2. CASE Tick
  BY <1>2, LinkTickTyped, Ages DEF Tick, ClientTypeOK
<1> QED
  BY <1>1, <1>2

\* Every reachable state of the client has the types of TypeOK, whatever the
\* timeouts, the bounds and the broker's packets.
THEOREM TypeCorrect == Spec => []TypeOK
<1>1. Init => TypeOK
  <2> SUFFICES ASSUME Init PROVE LinkTypeOK /\ ClientTypeOK
    BY TypeSplit
  <2>1. silence \in 0..SilenceCap
    BY LinkAssumption DEF LinkAssumption, Init, LinkInit
  <2>2. LinkTypeOK
    <3>1. toClient \in Seq(Packet) /\ toBroker \in Seq(Packet)
      BY DEF Init, LinkInit
    <3> QED
      BY <2>1, <3>1 DEF Init, LinkInit, LinkTypeOK
  <2>3. NoPacket \in Packet
    BY PacketsTyped DEF NoPacket, PacketTypes
  <2>4. nextMsgId \in 0..(IdSpace - 1)
    BY ClientAssumption DEF ClientAssumption, Init
  <2>5. ClientTypeOK
    BY <2>3, <2>4, Ages DEF Init, ClientTypeOK, Codes
  <2> QED
    BY <2>2, <2>5
<1>2. TypeOK /\ [Next]_vars => TypeOK'
  <2> SUFFICES ASSUME LinkTypeOK, ClientTypeOK, [Next]_vars
               PROVE  LinkTypeOK' /\ ClientTypeOK'
    BY TypeSplit DEF TypeOK, ClientTypeOK
  <2>1. CASE UNCHANGED vars
    BY <2>1 DEF vars, linkVars, clientVars, LinkTypeOK, ClientTypeOK
  <2>2. CASE Next
    BY <2>2, OfflineTyped, ConnectTyped, LoopTyped, LoopEndingsTyped, CallsTyped, WorldTyped
       DEF Next, Proceed
  <2> QED
    BY <2>1, <2>2
<1> QED
  BY <1>1, <1>2, PTL DEF Spec

----------------------------------------------------------------------------
(* state() tells the truth about the broker (ConnectedMeansAccepted).      *)

\* An acceptance in a queue that lost packets at the front or the back was in
\* the queue before.
LEMMA TailAccepts ==
  ASSUME NEW q \in Seq(Packet), q # <<>>,
         NEW i \in DOMAIN Tail(q), Accepts(Tail(q)[i])
  PROVE  \E j \in DOMAIN q : Accepts(q[j])
<1>1. Len(q) \in Nat /\ Len(Tail(q)) = Len(q) - 1 /\ i \in 1..Len(Tail(q))
  BY HeadTailProperties, LenProperties
<1>2. Tail(q)[i] = q[i + 1] /\ i + 1 \in DOMAIN q
  BY <1>1, HeadTailProperties, LenProperties
<1> QED
  BY <1>2

\* An acceptance in a queue with packets rs added was there or is one of rs.
LEMMA ConcatAccepts ==
  ASSUME NEW q \in Seq(Packet), NEW rs \in Seq(Packet),
         NEW i \in DOMAIN (q \o rs), Accepts((q \o rs)[i])
  PROVE  (\E j \in DOMAIN q : Accepts(q[j])) \/ (\E j \in DOMAIN rs : Accepts(rs[j]))
<1>1. /\ Len(q) \in Nat /\ Len(rs) \in Nat
      /\ DOMAIN q = 1..Len(q) /\ DOMAIN rs = 1..Len(rs)
      /\ i \in 1..(Len(q) + Len(rs))
  BY ConcatProperties, LenProperties
<1>2. CASE i <= Len(q)
  <2>1. (q \o rs)[i] = q[i]
    BY <1>1, <1>2, ConcatProperties
  <2> QED
    BY <1>1, <1>2, <2>1
<1>3. CASE i > Len(q)
  <2>1. (q \o rs)[i] = rs[i - Len(q)] /\ i - Len(q) \in DOMAIN rs
    BY <1>1, <1>3, ConcatProperties
  <2> QED
    BY <2>1
<1> QED
  BY <1>1, <1>2, <1>3

\* The broker's answers in an accepted session contain no acceptance.
LEMMA RepliesAcceptNothing ==
  ASSUME NEW p \in Packet, NEW i \in DOMAIN Reply(p)
  PROVE  ~Accepts(Reply(p)[i])
<1>1. \A t \in {"PINGRESP", "SUBACK", "UNSUBACK", "PUBACK", "PUBREC", "PUBCOMP", "PUBREL"} :
        /\ ~Accepts(Ctl(t))
        /\ \A id \in Nat : ~Accepts(WithId(t, id))
  BY DEF Accepts, Ctl, WithId
<1>2. p.id \in Nat
  BY DEF Packet
<1>3. \/ Reply(p) = <<>> \/ Reply(p) = <<Ctl("PINGRESP")>>
      \/ \E t \in {"SUBACK", "UNSUBACK", "PUBACK", "PUBREC", "PUBCOMP", "PUBREL"} :
           Reply(p) = <<WithId(t, p.id)>>
  BY DEF Reply
<1>4. CASE Reply(p) = <<>>
  BY <1>4
<1>5. CASE Reply(p) = <<Ctl("PINGRESP")>>
  BY <1>1, <1>5
<1>6. CASE \E t \in {"SUBACK", "UNSUBACK", "PUBACK", "PUBREC", "PUBCOMP", "PUBREL"} :
             Reply(p) = <<WithId(t, p.id)>>
  BY <1>1, <1>2, <1>6
<1> QED
  BY <1>3, <1>4, <1>5, <1>6

\* A step that leaves connection, session and code alone and reads at most one
\* packet.
LEMMA QuietKeepsAcceptance ==
  ASSUME TypeOK, AcceptanceInv,
         UNCHANGED <<tcp, session, state>>,
         toClient' = toClient \/ (toClient # <<>> /\ toClient' = Tail(toClient)),
         pc' \in {"awaitAck", "tornAck"} <=> pc \in {"awaitAck", "tornAck"}
  PROVE  AcceptanceInv'
<1>1. ConnectedMeansAccepted' /\ Phases'
  BY DEF AcceptanceInv, ConnectedMeansAccepted, Phases
<1>2. AcceptanceOnWay'
  <2> SUFFICES ASSUME tcp' = "open", NEW i \in DOMAIN toClient', Accepts(toClient'[i])
               PROVE  session' = "accepted"
    BY DEF AcceptanceOnWay, Accepts
  <2>1. toClient \in Seq(Packet)
    BY DEF TypeOK, LinkTypeOK
  <2>2. \E j \in DOMAIN toClient : Accepts(toClient[j])
    <3>1. CASE toClient' = toClient
      BY <3>1
    <3>2. CASE toClient # <<>> /\ toClient' = Tail(toClient)
      BY <2>1, <3>2, TailAccepts
    <3> QED
      BY <3>1, <3>2
  <2> QED
    BY <2>2 DEF AcceptanceInv, AcceptanceOnWay
<1> QED
  BY <1>1, <1>2 DEF AcceptanceInv

\* A step that ends with the connection stopped and the program back at rest.
LEMMA StopKeepsAcceptance ==
  ASSUME tcp' = "closed", pc' \notin {"awaitAck", "tornAck"}
  PROVE  AcceptanceInv'
BY DEF AcceptanceInv, ConnectedMeansAccepted, Phases, AcceptanceOnWay

LEMMA BrokerKeepsAcceptance ==
  ASSUME TypeOK, AcceptanceInv, LinkNext, UNCHANGED clientVars
  PROVE  AcceptanceInv'
<1>1. toClient \in Seq(Packet) /\ toBroker \in Seq(Packet)
  BY DEF TypeOK, LinkTypeOK
<1>2. CASE tcp' = "lost"
  BY <1>2 DEF AcceptanceInv, ConnectedMeansAccepted, Phases, AcceptanceOnWay, clientVars,
              LinkNext, BrokerReceive, BrokerPublish, BrokerPing, BrokerHangs, LinkDown
<1>3. ASSUME session' = "accepted", UNCHANGED <<tcp>>
      PROVE  AcceptanceInv'
  BY <1>3 DEF AcceptanceInv, ConnectedMeansAccepted, Phases, AcceptanceOnWay, clientVars
<1>4. CASE BrokerReceive
  <2> DEFINE p == Head(toBroker)
  <2>1. CASE UNCHANGED toClient /\ Drop
    BY <2>1, <1>2 DEF Drop
  <2>2. CASE /\ session = "awaiting" /\ p.type = "CONNECT"
             /\ \E rc \in {0} \cup RefusalCodes :
                  /\ session' = IF rc = 0 THEN "accepted" ELSE "refused"
                  /\ toClient' = Append(toClient, ConnAck(rc))
             /\ UNCHANGED tcp
    <3>1. PICK rc \in {0} \cup RefusalCodes :
            /\ session' = IF rc = 0 THEN "accepted" ELSE "refused"
            /\ toClient' = Append(toClient, ConnAck(rc))
      BY <2>2
    <3>2. CASE rc = 0
      BY <2>2, <3>1, <3>2, <1>3
    <3>3. CASE rc # 0
      <4>1. \A j \in DOMAIN toClient : ~Accepts(toClient[j])
        BY <1>4, <2>2 DEF AcceptanceInv, AcceptanceOnWay, BrokerReceive
      <4>2. ~Accepts(ConnAck(rc)) /\ ConnAck(rc) \in Packet
        BY <3>3, PacketsTyped, LinkConstants DEF Accepts, ConnAck
      <4>3. \A i \in DOMAIN toClient' : ~Accepts(toClient'[i])
        BY <1>1, <3>1, <4>1, <4>2, LenProperties
      <4>4. AcceptanceOnWay'
        BY <4>3 DEF AcceptanceOnWay, Accepts
      <4>5. ConnectedMeansAccepted' /\ Phases'
        BY <1>4, <2>2 DEF AcceptanceInv, ConnectedMeansAccepted, Phases, clientVars, BrokerReceive
      <4> QED
        BY <4>4, <4>5 DEF AcceptanceInv
    <3> QED
      BY <3>2, <3>3
  <2>3. CASE session = "accepted" /\ UNCHANGED <<tcp, session>>
    BY <2>3, <1>3
  <2> QED
    BY <1>4, <2>1, <2>2, <2>3 DEF BrokerReceive
<1>5. CASE BrokerPublish \/ BrokerPing
  BY <1>5, <1>3 DEF BrokerPublish, BrokerPing
<1>6. CASE BrokerHangs
  BY <1>6, QuietKeepsAcceptance DEF BrokerHangs, clientVars
<1>7. CASE LinkDown
  BY <1>7, <1>2 DEF LinkDown, Drop
<1> QED
  BY <1>4, <1>5, <1>6, <1>7 DEF LinkNext

LEMMA OfflineKeepsAcceptance ==
  ASSUME TypeOK, AcceptanceInv, CallOffline \/ ConnectFails
  PROVE  AcceptanceInv'
<1>1. pc' = pc /\ pc \notin {"awaitAck", "tornAck"}
  BY DEF CallOffline, ConnectFails, NoticeLoss, CanCall
<1>2. CASE state = "Connected"
  BY <1>1, <1>2, StopKeepsAcceptance DEF CallOffline, ConnectFails, NoticeLoss, Stop
<1>3. CASE state # "Connected"
  <2>1. tcp = "closed" /\ tcp' = tcp
    BY <1>1, <1>3 DEF AcceptanceInv, Phases, CallOffline, ConnectFails, NoticeLoss, linkVars
  <2> QED
    BY <1>1, <2>1, StopKeepsAcceptance
<1> QED
  BY <1>2, <1>3

LEMMA ConnectKeepsAcceptance ==
  ASSUME TypeOK, AcceptanceInv,
         \/ ConnectOpens \/ ConnectTimesOut \/ ConnectAnswered
         \/ ConnectReadsTorn \/ ConnectGivesUpOnTorn
  PROVE  AcceptanceInv'
<1>1. CASE ConnectOpens
  <2>1. state' # "Connected" /\ tcp' = "open" /\ toClient' = <<>> /\ pc' = "awaitAck"
    BY <1>1 DEF ConnectOpens, OpenWith
  <2> QED
    BY <2>1 DEF AcceptanceInv, ConnectedMeansAccepted, Phases, AcceptanceOnWay
<1>2. CASE ConnectTimesOut \/ ConnectGivesUpOnTorn
  BY <1>2, StopKeepsAcceptance DEF ConnectTimesOut, ConnectGivesUpOnTorn, Stop
<1>3. CASE ConnectAnswered
  <2> DEFINE p == Head(toClient)
  <2>1. toClient \in Seq(Packet) /\ toClient # <<>>
    BY <1>3 DEF ConnectAnswered, TypeOK, LinkTypeOK
  <2>2. CASE Accepts(p)
    <3>1. /\ toClient' = Tail(toClient) /\ UNCHANGED <<tcp, session>>
          /\ pc' = "app" /\ state' = "Connected"
      BY <1>3, <2>2 DEF ConnectAnswered
    <3>2. 1 \in DOMAIN toClient /\ p = toClient[1]
      BY <2>1, LenProperties
    <3>3. tcp = "open" => session = "accepted"
      BY <2>2, <3>2 DEF AcceptanceInv, AcceptanceOnWay
    <3>4. AcceptanceOnWay'
      BY <3>1, <3>3 DEF AcceptanceOnWay
    <3> QED
      BY <3>1, <3>3, <3>4 DEF AcceptanceInv, ConnectedMeansAccepted, Phases
  <2>3. CASE ~Accepts(p)
    BY <1>3, <2>3, StopKeepsAcceptance DEF ConnectAnswered, Stop
  <2> QED
    BY <2>2, <2>3
<1>4. CASE ConnectReadsTorn
  BY <1>4, QuietKeepsAcceptance DEF ConnectReadsTorn
<1> QED
  BY <1>1, <1>2, <1>3, <1>4

LEMMA LoopKeepsAcceptance ==
  ASSUME TypeOK, AcceptanceInv,
         Loop \/ LoopTimesOut \/ LoopGivesUpOnTorn \/ CallbackReturns
  PROVE  AcceptanceInv'
<1>1. CASE Loop
  <2>1. /\ UNCHANGED <<tcp, session, state>>
        /\ toClient' = toClient \/ (toClient # <<>> /\ toClient' = Tail(toClient))
        /\ pc = "app" /\ pc' \in {"app", "tornLoop", "callback"}
    BY <1>1 DEF Loop, LoopReads, LoopEnds
  <2> QED
    BY <2>1, QuietKeepsAcceptance
<1>2. CASE LoopTimesOut
  BY <1>2, StopKeepsAcceptance DEF LoopTimesOut, Stop
<1>3. CASE LoopGivesUpOnTorn
  BY <1>3, QuietKeepsAcceptance DEF LoopGivesUpOnTorn, linkVars
<1>4. CASE CallbackReturns
  BY <1>4, QuietKeepsAcceptance DEF CallbackReturns
<1> QED
  BY <1>1, <1>2, <1>3, <1>4

LEMMA CallsKeepAcceptance ==
  ASSUME TypeOK, AcceptanceInv, Publish \/ Subscribe \/ Unsubscribe \/ Disconnect \/ Tick
  PROVE  AcceptanceInv'
<1>1. CASE Publish \/ Subscribe \/ Unsubscribe
  BY <1>1, QuietKeepsAcceptance DEF Publish, Subscribe, Unsubscribe, Request
<1>2. CASE Disconnect
  BY <1>2, StopKeepsAcceptance DEF Disconnect, Stop
<1>3. CASE Tick
  BY <1>3, QuietKeepsAcceptance DEF Tick, LinkTick
<1> QED
  BY <1>1, <1>2, <1>3

LEMMA AcceptanceInvariant == Spec => []AcceptanceInv
<1>1. Init => AcceptanceInv
  BY DEF Init, LinkInit, AcceptanceInv, ConnectedMeansAccepted, Phases, AcceptanceOnWay
<1>2. TypeOK /\ AcceptanceInv /\ [Next]_vars => AcceptanceInv'
  <2> SUFFICES ASSUME TypeOK, AcceptanceInv, [Next]_vars
               PROVE  AcceptanceInv'
    OBVIOUS
  <2>1. CASE UNCHANGED vars
    BY <2>1, QuietKeepsAcceptance DEF vars, linkVars, clientVars
  <2>2. CASE Next
    BY <2>2, OfflineKeepsAcceptance, ConnectKeepsAcceptance, LoopKeepsAcceptance,
       CallsKeepAcceptance, BrokerKeepsAcceptance DEF Next, Proceed, Network
  <2> QED
    BY <2>1, <2>2
<1> QED
  BY <1>1, <1>2, TypeCorrect, PTL DEF Spec

\* state() = MQTT_CONNECTED on a live connection means that the broker has
\* accepted this very connection, whatever was refused, lost, cut in two or
\* timed out before.
THEOREM ConnectedIsAccepted == Spec => []ConnectedMeansAccepted
<1>1. AcceptanceInv => ConnectedMeansAccepted
  BY DEF AcceptanceInv
<1> QED
  BY <1>1, AcceptanceInvariant, PTL

----------------------------------------------------------------------------
(* The client implements the abstract session of MqttSession.              *)

Opening == pc \in {"awaitAck", "tornAck"}
Granted == session = "accepted" \/ state = "Connected" \/ ConnAck(0) \in Members(toClient)

\* A connection the client has stopped holds nothing, and the only acceptance
\* that can be read is the broker's.
AnswerInv ==
  /\ tcp = "closed" => toClient = <<>> /\ session = "none"
  /\ \A p \in Members(toClient) : Accepts(p) /\ ~p.cut => p = ConnAck(0)

LEMMA AnswerKept ==
  ASSUME LinkTypeOK, AnswerInv, tcp' # "closed",
         \A p \in Members(toClient') : p \in Members(toClient) \/ ~Accepts(p) \/ p.cut \/ p = ConnAck(0)
  PROVE  AnswerInv'
BY DEF AnswerInv, Accepts

LEMMA StopAnswers ==
  ASSUME Stop
  PROVE  AnswerInv'
BY MembersOfEmpty DEF Stop, AnswerInv

\* The packets the broker adds to the client's queue.
LEMMA BrokerAdds ==
  ASSUME LinkTypeOK, BrokerReceive \/ BrokerPublish \/ BrokerPing
  PROVE  \A p \in Members(toClient') : p \in Members(toClient) \/ ~Accepts(p) \/ p = ConnAck(0)
<1>1. toClient \in Seq(Packet) /\ toBroker \in Seq(Packet)
  BY DEF LinkTypeOK
<1>2. CASE BrokerReceive
  <2> DEFINE h == Head(toBroker)
  <2>1. h \in Packet
    BY <1>1, <1>2, HeadTailProperties DEF BrokerReceive
  <2>2. CASE UNCHANGED toClient
    BY <2>2
  <2>3. ASSUME NEW rc \in {0} \cup RefusalCodes, toClient' = Append(toClient, ConnAck(rc))
        PROVE  \A p \in Members(toClient') : p \in Members(toClient) \/ ~Accepts(p) \/ p = ConnAck(0)
    <3>1. ConnAck(rc) \in Packet
      BY PacketsTyped, LinkConstants
    <3>2. Members(toClient') = Members(toClient) \cup {ConnAck(rc)}
      BY <1>1, <2>3, <3>1, MembersOfAppend
    <3>3. ~Accepts(ConnAck(rc)) \/ ConnAck(rc) = ConnAck(0)
      BY DEF Accepts, ConnAck
    <3> QED
      BY <3>2, <3>3
  <2>4. CASE toClient' = toClient \o Reply(h)
    <3>1. Reply(h) \in Seq(Packet)
      BY <2>1, ReplyTyped
    <3>2. Members(toClient') = Members(toClient) \cup Members(Reply(h))
      BY <1>1, <2>4, <3>1, MembersOfConcat
    <3>3. \A p \in Members(Reply(h)) : ~Accepts(p)
      BY <2>1, RepliesAcceptNothing DEF Members
    <3> QED
      BY <3>2, <3>3
  <2> QED
    BY <1>2, <2>2, <2>3, <2>4 DEF BrokerReceive
<1>3. CASE BrokerPublish
  <2>1. PICK p : toClient' = Append(toClient, p) /\ p \in Packet /\ ~Accepts(p)
    <3>1. \A id \in MsgIds \cup {0}, q \in 0..2, f \in BOOLEAN :
            Publication(id, q, f) \in Packet /\ ~Accepts(Publication(id, q, f))
      BY PacketsTyped, LinkConstants DEF Publication, Accepts
    <3> QED
      BY <1>3, <3>1, LinkConstants DEF BrokerPublish
  <2>2. Members(toClient') = Members(toClient) \cup {p}
    BY <1>1, <2>1, MembersOfAppend
  <2> QED
    BY <2>1, <2>2
<1>4. CASE BrokerPing
  <2>1. Ctl("PINGREQ") \in Packet /\ ~Accepts(Ctl("PINGREQ"))
    BY PacketsTyped DEF PacketTypes, Ctl, Accepts
  <2>2. Members(toClient') = Members(toClient) \cup {Ctl("PINGREQ")}
    BY <1>1, <1>4, <2>1, MembersOfAppend DEF BrokerPing
  <2> QED
    BY <2>1, <2>2
<1> QED
  BY <1>2, <1>3, <1>4

\* What a step of the program does to the queue of the client.
LEMMA ProgramReads ==
  ASSUME LinkTypeOK, Next, ~Network
  PROVE  \/ Stop
         \/ OpenWith(Ctl("CONNECT"))
         \/ UNCHANGED <<tcp, session, toClient>>
         \/ UNCHANGED <<tcp, session>> /\ toClient # <<>> /\ toClient' = Tail(toClient)
BY DEF Next, Proceed, CallOffline, ConnectFails, NoticeLoss, linkVars, ConnectOpens, ConnectTimesOut,
       ConnectGivesUpOnTorn, ConnectAnswered, ConnectReadsTorn, LoopTimesOut, LoopGivesUpOnTorn, Loop,
       CallbackReturns, Publish, Subscribe, Unsubscribe, Request, Disconnect, Tick, LinkTick

LEMMA AnswerInvariant == Spec => []AnswerInv
<1>1. Init => AnswerInv
  BY MembersOfEmpty DEF Init, LinkInit, AnswerInv
<1>2. TypeOK /\ AnswerInv /\ [Next]_vars => AnswerInv'
  <2> SUFFICES ASSUME LinkTypeOK, AnswerInv, [Next]_vars PROVE AnswerInv'
    BY DEF TypeOK
  <2>1. CASE Next /\ ~Network
    <3>1. CASE Stop
      BY <3>1, StopAnswers
    <3>2. CASE OpenWith(Ctl("CONNECT"))
      BY <3>2, MembersOfEmpty DEF OpenWith, AnswerInv
    <3>3. CASE UNCHANGED <<tcp, session, toClient>>
      BY <3>3 DEF AnswerInv, Accepts
    <3>4. CASE UNCHANGED <<tcp, session>> /\ toClient # <<>> /\ toClient' = Tail(toClient)
      <4>1. Members(toClient') \subseteq Members(toClient) /\ tcp # "closed"
        BY <3>4, MembersOfTail DEF LinkTypeOK, AnswerInv
      <4> QED
        BY <3>4, <4>1, AnswerKept
    <3> QED
      BY <2>1, <3>1, <3>2, <3>3, <3>4, ProgramReads
  <2>2. CASE Network
    <3>1. tcp' # "closed"
      BY <2>2 DEF Network, LinkNext, BrokerReceive, BrokerPublish, BrokerPing, BrokerHangs, LinkDown, Drop
    <3>2. CASE BrokerHangs
      BY <3>1, <3>2, AnswerKept DEF BrokerHangs
    <3> QED
      BY <2>2, <3>1, <3>2, BrokerAdds, MembersLeftBehind, AnswerKept DEF Network, LinkNext
  <2>3. CASE UNCHANGED vars
    BY <2>3 DEF vars, linkVars, AnswerInv, Accepts
  <2> QED
    BY <2>1, <2>2, <2>3
<1> QED
  BY <1>1, <1>2, TypeCorrect, PTL DEF Spec


LEMMA GrantedIs == Granted <=> session = "accepted" \/ state = "Connected" \/ Has(toClient, ConnAck(0))
BY DEF Granted, Has, Members

\* Steps the abstract session does not see.
LEMMA Unseen ==
  ASSUME UNCHANGED <<tcp, state, pingOutstanding>>, Opening' <=> Opening, Granted' <=> Granted
  PROVE  UNCHANGED Session!vars
BY GrantedIs DEF Session!vars, Opening, Granted, Has, Members

\* The peer goes away.
LEMMA Dies ==
  ASSUME UNCHANGED <<state, pc, pingOutstanding>>, tcp = "open", tcp' = "lost", Granted' => Granted
  PROVE  Session!Die
BY DEF Session!Die, Granted, Has, Members

LEMMA NetworkMaps ==
  ASSUME TypeOK, AcceptanceInv, AnswerInv, Network
  PROVE  Session!Next \/ UNCHANGED Session!vars
<1>1. UNCHANGED <<state, pc, pingOutstanding>> /\ tcp = "open" /\ toClient \in Seq(Packet)
  BY DEF Network, clientVars, LinkNext, BrokerReceive, BrokerPublish, BrokerPing, BrokerHangs, LinkDown,
         TypeOK, LinkTypeOK
<1>2. Opening' <=> Opening
  BY <1>1 DEF Opening
<1>3. CASE BrokerReceive
  <2> DEFINE h == Head(toBroker)
  <2>1. CASE UNCHANGED toClient /\ Drop
    <3>1. Granted' => Granted
      BY <1>1, <2>1 DEF Drop, Granted
    <3> QED
      BY <1>1, <2>1, <3>1, Dies DEF Drop, Session!Next
  <2>2. CASE session = "accepted" /\ UNCHANGED <<tcp, session>>
    BY <1>1, <1>2, <2>2, Unseen DEF Granted
  <2>3. ASSUME session = "awaiting", UNCHANGED tcp, NEW rc \in {0} \cup RefusalCodes,
               session' = IF rc = 0 THEN "accepted" ELSE "refused",
               toClient' = Append(toClient, ConnAck(rc))
        PROVE  Session!Next \/ UNCHANGED Session!vars
    <3>1. state # "Connected" /\ Opening
      BY <1>1, <2>3 DEF AcceptanceInv, ConnectedMeansAccepted, Phases, Opening
    <3>2. CASE rc = 0
      BY <1>1, <2>3, <3>1, <3>2 DEF Session!Next, Session!Grant, Opening
    <3>3. CASE rc # 0
      <4>1. ConnAck(rc) \in Packet /\ ConnAck(rc) # ConnAck(0)
        BY <3>3, PacketsTyped, LinkConstants DEF ConnAck
      <4>2. Members(toClient') = Members(toClient) \cup {ConnAck(rc)}
        BY <1>1, <2>3, <4>1, MembersOfAppend
      <4>3. Granted' <=> Granted
        BY <1>1, <2>3, <3>1, <3>3, <4>1, <4>2 DEF Granted
      <4> QED
        BY <1>1, <1>2, <2>3, <4>3, Unseen
    <3> QED
      BY <3>2, <3>3
  <2> QED
    BY <1>3, <2>1, <2>2, <2>3 DEF BrokerReceive
<1>4. CASE BrokerPublish \/ BrokerPing
  BY <1>1, <1>2, <1>4, Unseen DEF BrokerPublish, BrokerPing, Granted
<1>5. CASE BrokerHangs
  BY <1>1, <1>2, <1>5, Unseen DEF BrokerHangs, Granted
<1>6. CASE LinkDown
  <2>1. ConnAck(0) \in Members(toClient') => ConnAck(0) \in Members(toClient)
    <3>1. ConnAck(0).cut = FALSE
      BY DEF ConnAck
    <3> QED
      BY <1>6, <3>1, MembersLeftBehind DEF TypeOK
  <2>2. Granted' => Granted
    BY <1>1, <1>6, <2>1 DEF Granted, LinkDown, Drop
  <2> QED
    BY <1>1, <1>6, <2>2, Dies DEF LinkDown, Drop, Session!Next
<1> QED
  BY <1>3, <1>4, <1>5, <1>6 DEF Network, LinkNext

\* A connection the client stops is gone for the abstract session too.
LEMMA StopGoesOffline ==
  ASSUME Stop, state' # "Connected", pc' = "app" \/ pc' = "callback"
  PROVE  Session!GoOffline
<1>1. ~Granted'
  BY MembersOfEmpty DEF Stop, Granted
<1> QED
  BY <1>1, GrantedIs DEF Stop, Session!GoOffline, Granted, Has, Members

LEMMA OfflineMaps ==
  ASSUME AcceptanceInv, AnswerInv, CallOffline \/ ConnectFails \/ Disconnect
  PROVE  Session!Next \/ UNCHANGED Session!vars
<1>1. CASE CallOffline /\ state = "Connected"
  <2>1. Session!GoOffline
    BY <1>1, StopGoesOffline DEF CallOffline, NoticeLoss, CanCall
  <2> QED
    BY <1>1, <2>1 DEF CallOffline, NoticeLoss, CanCall, TcpConnected, Session!Next, Session!NoticeLoss
<1>2. CASE CallOffline /\ state # "Connected"
  BY <1>2, Unseen DEF CallOffline, NoticeLoss, linkVars, Opening, Granted
<1>3. CASE ConnectFails
  <2>1. Session!GoOffline
    <3>1. CASE state = "Connected"
      BY <1>3, <3>1, StopGoesOffline DEF ConnectFails
    <3>2. CASE state # "Connected"
      <4>1. tcp = "closed" /\ toClient = <<>> /\ session = "none"
        BY <1>3, <3>2 DEF ConnectFails, AcceptanceInv, Phases, AnswerInv
      <4>2. ~Granted' /\ tcp' = "closed"
        BY <1>3, <3>2, <4>1, MembersOfEmpty DEF ConnectFails, linkVars, Granted
      <4> QED
        BY <1>3, <4>2 DEF ConnectFails, Session!GoOffline, Granted, Has, Members
    <3> QED
      BY <3>1, <3>2
  <2> QED
    BY <1>3, <2>1 DEF ConnectFails, TcpConnected, Session!Next, Session!OpenFails
<1>4. CASE Disconnect
  <2>1. Session!GoOffline
    BY <1>4, StopGoesOffline DEF Disconnect
  <2> QED
    BY <1>4, <2>1 DEF Disconnect, Session!Next, Session!Disconnect
<1> QED
  BY <1>1, <1>2, <1>3, <1>4

LEMMA ConnectMaps ==
  ASSUME TypeOK, AcceptanceInv, AnswerInv,
         \/ ConnectOpens \/ ConnectTimesOut \/ ConnectAnswered
         \/ ConnectReadsTorn \/ ConnectGivesUpOnTorn
  PROVE  Session!Next \/ UNCHANGED Session!vars
<1>1. CASE ConnectOpens
  <2>1. ~Granted'
    BY <1>1, MembersOfEmpty DEF ConnectOpens, OpenWith, Granted, AcceptanceInv, Phases
  <2> QED
    BY <1>1, <2>1 DEF ConnectOpens, OpenWith, TcpConnected, Session!Next, Session!Open, Granted, Has, Members
<1>2. CASE ConnectTimesOut \/ ConnectGivesUpOnTorn
  <2>1. /\ Opening /\ state # "Connected" /\ pc' = "app" /\ Stop
        /\ state' \in {state, "ConnectionTimeout"} /\ UNCHANGED pingOutstanding
    BY <1>2 DEF ConnectTimesOut, ConnectGivesUpOnTorn, Opening, AcceptanceInv, Phases
  <2>2. Session!GoOffline
    BY <2>1, StopGoesOffline
  <2> QED
    BY <2>1, <2>2 DEF Opening, Session!Next, Session!Abandon
<1>3. CASE ConnectAnswered
  <2> DEFINE p == Head(toClient)
  <2>1. toClient \in Seq(Packet) /\ toClient # <<>> /\ p \in Members(toClient) /\ ~p.cut
    BY <1>3, MembersOfTail DEF ConnectAnswered, TypeOK, LinkTypeOK
  <2>2. pc = "awaitAck" /\ pc' = "app" /\ state # "Connected"
    BY <1>3 DEF ConnectAnswered, AcceptanceInv, Phases
  <2>3. CASE Accepts(p)
    <3>1. Granted /\ Has(toClient, ConnAck(0))
      BY <2>1, <2>3 DEF AnswerInv, Granted, Has, Members
    <3>2. state' = "Connected" /\ pingOutstanding' = FALSE /\ UNCHANGED tcp
      BY <1>3, <2>3 DEF ConnectAnswered, PingAtConnect
    <3> QED
      BY <2>2, <3>1, <3>2 DEF Session!Next, Session!Establish
  <2>4. CASE ~Accepts(p)
    <3>1. /\ Stop /\ state' \in {state, "Refused"} /\ UNCHANGED pingOutstanding
      BY <1>3, <2>4 DEF ConnectAnswered
    <3>2. Session!GoOffline
      BY <2>2, <3>1, StopGoesOffline
    <3> QED
      BY <2>2, <3>1, <3>2 DEF Session!Next, Session!Abandon
  <2> QED
    BY <2>3, <2>4
<1>4. CASE ConnectReadsTorn
  <2>1. Members(toClient) = {Head(toClient)} \cup Members(toClient')
    BY <1>4, MembersOfTail DEF ConnectReadsTorn, TypeOK, LinkTypeOK
  <2>2. Head(toClient) # ConnAck(0)
    BY <1>4 DEF ConnectReadsTorn, ConnAck
  <2> QED
    BY <1>4, <2>1, <2>2, Unseen DEF ConnectReadsTorn, Opening, Granted
<1> QED
  BY <1>1, <1>2, <1>3, <1>4

LEMMA LoopMaps ==
  ASSUME TypeOK, AcceptanceInv, Loop \/ LoopTimesOut \/ LoopGivesUpOnTorn \/ CallbackReturns
  PROVE  Session!Next \/ UNCHANGED Session!vars
<1>1. CASE Loop
  <2>1. /\ state = "Connected" /\ UNCHANGED <<tcp, state>>
        /\ ~Opening /\ ~Opening'
    BY <1>1 DEF Loop, LoopReads, LoopEnds, TcpConnected, AcceptanceInv, Phases, Opening
  <2>2. pingOutstanding \in BOOLEAN /\ pingOutstanding' \in BOOLEAN
    BY <1>1 DEF Loop, LoopReads, LoopEnds, PingAfter, TypeOK
  <2>3. Granted /\ Granted'
    BY <2>1 DEF Granted
  <2>4. CASE pingOutstanding' = pingOutstanding
    BY <2>1, <2>3, <2>4, Unseen
  <2>5. CASE ~pingOutstanding /\ pingOutstanding'
    BY <2>1, <2>2, <2>5 DEF Session!Next, Session!Ping, Opening
  <2>6. CASE pingOutstanding /\ ~pingOutstanding'
    BY <2>1, <2>2, <2>6 DEF Session!Next, Session!Pong, Opening
  <2> QED
    BY <2>2, <2>4, <2>5, <2>6
<1>2. CASE LoopTimesOut
  <2>1. Session!GoOffline
    BY <1>2, StopGoesOffline DEF LoopTimesOut
  <2>2. state = "Connected"
    BY <1>2 DEF LoopTimesOut, TcpConnected, AcceptanceInv, Phases
  <2> QED
    BY <1>2, <2>1, <2>2 DEF LoopTimesOut, GivesUp, Session!Next, Session!GiveUp
<1>3. CASE LoopGivesUpOnTorn \/ CallbackReturns
  BY <1>3, Unseen DEF LoopGivesUpOnTorn, CallbackReturns, linkVars, Opening, Granted
<1> QED
  BY <1>1, <1>2, <1>3

\* The client is an MQTT session as MqttSession describes it: the meaning of the
\* codes of state(), one ping at a time, no connection given up but for an
\* unanswered ping, none reported lost that is not.
THEOREM ClientImplementsSession == Spec => ImplementsSession
<1>1. Init => Session!Init
  BY DEF Init, LinkInit, Session!Init, Has
<1>2. TypeOK /\ AcceptanceInv /\ AnswerInv /\ [Next]_vars => [Session!Next]_(Session!vars)
  <2> SUFFICES ASSUME TypeOK, AcceptanceInv, AnswerInv, [Next]_vars
               PROVE  Session!Next \/ UNCHANGED Session!vars
    OBVIOUS
  <2>1. CASE UNCHANGED vars
    BY <2>1, Unseen DEF vars, linkVars, clientVars, Opening, Granted
  <2>2. CASE Publish \/ Subscribe \/ Unsubscribe \/ Tick
    BY <2>2, Unseen DEF Publish, Subscribe, Unsubscribe, Request, Tick, LinkTick, Opening, Granted
  <2> QED
    BY <2>1, <2>2, NetworkMaps, OfflineMaps, ConnectMaps, LoopMaps DEF Next, Proceed
<1> QED
  BY <1>1, <1>2, TypeCorrect, AcceptanceInvariant, AnswerInvariant, PTL DEF Spec, ImplementsSession, Session!Spec

----------------------------------------------------------------------------
(* Counting the packets of a type in a queue.                              *)

OfType(type) == {p \in Packet : p.type = type}

LEMMA CountIs ==
  ASSUME NEW q \in Seq(Packet), NEW type
  PROVE  Count(q, type) = Number(q, OfType(type))
<1>1. \A i \in DOMAIN q : q[i] \in Packet
  BY ElementOfSeq, LenProperties
<1>2. {i \in DOMAIN q : q[i].type = type} = Places(q, OfType(type))
  BY <1>1 DEF Places, OfType
<1> QED
  BY <1>2 DEF Count, Number

LEMMA CountTyped ==
  ASSUME NEW q \in Seq(Packet), NEW type
  PROVE  Count(q, type) \in Nat
BY CountIs, NumberTyped

LEMMA CountOfEmpty == \A type : Count(<<>>, type) = 0
BY FS_EmptySet DEF Count

LEMMA CountOfOther ==
  ASSUME NEW p, NEW type, p.type # type
  PROVE  Count(<<p>>, type) = 0
<1>1. {i \in DOMAIN <<p>> : <<p>>[i].type = type} = {}
  OBVIOUS
<1> QED
  BY <1>1, FS_EmptySet DEF Count

LEMMA CountOfAppend ==
  ASSUME NEW q \in Seq(Packet), NEW p \in Packet, NEW type
  PROVE  Count(Append(q, p), type) = Count(q, type) + (IF p.type = type THEN 1 ELSE 0)
<1>1. Append(q, p) \in Seq(Packet) /\ (p \in OfType(type) <=> p.type = type)
  BY AppendProperties DEF OfType
<1>2. Number(Append(q, p), OfType(type)) = Number(q, OfType(type)) + (IF p \in OfType(type) THEN 1 ELSE 0)
  BY NumberOfAppend
<1>3. Count(q, type) = Number(q, OfType(type)) /\ Count(Append(q, p), type) = Number(Append(q, p), OfType(type))
  BY <1>1, CountIs
<1> QED
  BY <1>1, <1>2, <1>3

LEMMA CountOfTail ==
  ASSUME NEW q \in Seq(Packet), q # <<>>, NEW type
  PROVE  Count(q, type) = Count(Tail(q), type) + (IF Head(q).type = type THEN 1 ELSE 0)
<1>1. Tail(q) \in Seq(Packet) /\ (Head(q) \in OfType(type) <=> Head(q).type = type)
  BY HeadTailProperties, EmptySeq DEF OfType
<1>2. Number(q, OfType(type))
        = Number(Tail(q), OfType(type)) + (IF Head(q) \in OfType(type) THEN 1 ELSE 0)
  BY NumberOfTail
<1>3. Count(q, type) = Number(q, OfType(type)) /\ Count(Tail(q), type) = Number(Tail(q), OfType(type))
  BY <1>1, CountIs
<1> QED
  BY <1>1, <1>2, <1>3

\* What is added behind a queue: nothing, a packet or two.
LEMMA CountOfOne ==
  ASSUME NEW q \in Seq(Packet), NEW p \in Packet, NEW type
  PROVE  Count(q \o <<p>>, type) = Count(q, type) + (IF p.type = type THEN 1 ELSE 0)
<1>1. q \o <<p>> \in Seq(Packet) /\ (p \in OfType(type) <=> p.type = type)
  BY ConcatProperties DEF OfType
<1>2. Number(q \o <<p>>, OfType(type)) = Number(q, OfType(type)) + (IF p \in OfType(type) THEN 1 ELSE 0)
  BY NumberOfOne
<1>3. Count(q, type) = Number(q, OfType(type)) /\ Count(q \o <<p>>, type) = Number(q \o <<p>>, OfType(type))
  BY <1>1, CountIs
<1> QED
  BY <1>1, <1>2, <1>3

----------------------------------------------------------------------------
(* One ping is accounted for at any time (PingAccounting).                 *)

Requests == Count(toBroker, "PINGREQ")
Answers  == Count(toClient, "PINGRESP")

\* A connection begins without pings, and nothing arrives in pieces while it
\* stands.
PingInv ==
  /\ PingAccounting
  /\ Opening /\ tcp = "open" => Requests = 0 /\ Answers = 0
  /\ tcp = "open" => \A p \in Members(toClient) : ~p.cut

LEMMA PingInvIs ==
  PingInv <=> /\ state = "Connected" /\ tcp = "open" /\ ~hung =>
                   Requests + Answers = IF pingOutstanding THEN 1 ELSE 0
              /\ Opening /\ tcp = "open" => Requests = 0 /\ Answers = 0
              /\ tcp = "open" => \A p \in Members(toClient) : ~p.cut
BY DEF PingInv, PingAccounting, Requests, Answers

LEMMA PingsTyped == TypeOK => Requests \in Nat /\ Answers \in Nat
BY CountTyped DEF TypeOK, LinkTypeOK, Requests, Answers

\* On a connection that does not stand there is nothing to account for.
LEMMA DownKeepsPings ==
  ASSUME tcp' # "open"
  PROVE  PingInv'
BY DEF PingInv, PingAccounting

\* Steps that leave the pings, and nothing but whole packets, in the queues.
LEMMA PingsKept ==
  ASSUME PingInv, UNCHANGED <<tcp, hung, state, pingOutstanding>>, Opening' <=> Opening,
         UNCHANGED <<Requests, Answers>>,
         \A p \in Members(toClient') : p \in Members(toClient) \/ ~p.cut
  PROVE  PingInv'
BY DEF PingInv, PingAccounting, Requests, Answers

\* A write of anything but a ping.
LEMMA OtherSent ==
  ASSUME TypeOK, NEW p \in Packet, p.type # "PINGREQ"
  PROVE  Count(Sent(<<p>>), "PINGREQ") = Requests
<1>1. Count(toBroker \o <<p>>, "PINGREQ") = Requests
  BY CountOfOne, PingsTyped DEF TypeOK, LinkTypeOK, Requests
<1> QED
  BY <1>1 DEF Sent, Requests

LEMMA CallsKeepPings ==
  ASSUME TypeOK, PingInv,
         CallbackReturns \/ Publish \/ Subscribe \/ Unsubscribe \/ LoopGivesUpOnTorn \/ Tick
  PROVE  PingInv'
<1>1. UNCHANGED <<tcp, hung, state, pingOutstanding, toClient>> /\ (Opening' <=> Opening)
  BY DEF CallbackReturns, Publish, Subscribe, Unsubscribe, Request, LoopGivesUpOnTorn, Tick, LinkTick,
         linkVars, Opening
<1>2. toBroker' = toBroker \/ \E p \in Packet : p.type # "PINGREQ" /\ toBroker' = Sent(<<p>>)
  <2>1. CASE CallbackReturns
    <3>1. WithId("PUBACK", AckId) \in Packet /\ WithId("PUBACK", AckId).type # "PINGREQ"
      <4>1. current.id \in Nat
        BY DEF TypeOK, Packet
      <4> QED
        BY <4>1, PacketsTyped DEF PacketTypes, WithId, AckId
    <3> QED
      BY <2>1, <3>1 DEF CallbackReturns
  <2>2. CASE Publish
    <3>1. Publication(0, 0, TRUE) \in Packet /\ Publication(0, 0, TRUE).type # "PINGREQ"
      BY DEF Publication, Packet, PacketTypes
    <3> QED
      BY <2>2, <3>1 DEF Publish
  <2>3. ASSUME NEW t \in {"SUBSCRIBE", "UNSUBSCRIBE"}, Request(t)
        PROVE  \E p \in Packet : p.type # "PINGREQ" /\ toBroker' = Sent(<<p>>)
    <3>1. NextId \in Nat
      BY NextIdTyped, ClientAssumption DEF ClientAssumption, TypeOK
    <3>2. WithId(t, NextId) \in Packet /\ WithId(t, NextId).type # "PINGREQ"
      BY <3>1, PacketsTyped DEF PacketTypes, WithId
    <3> QED
      BY <2>3, <3>2 DEF Request
  <2>4. CASE LoopGivesUpOnTorn \/ Tick
    BY <2>4 DEF LoopGivesUpOnTorn, Tick, LinkTick, linkVars
  <2> QED
    BY <2>1, <2>2, <2>3, <2>4 DEF Subscribe, Unsubscribe
<1>3. Requests' = Requests
  <2>1. ASSUME NEW p \in Packet, p.type # "PINGREQ", toBroker' = Sent(<<p>>)
        PROVE  Requests' = Requests
    <3>1. Count(Sent(<<p>>), "PINGREQ") = Requests
      BY <2>1, OtherSent
    <3> QED
      BY <2>1, <3>1 DEF Requests
  <2> QED
    BY <1>2, <2>1 DEF Requests
<1>4. Answers' = Answers
  BY <1>1 DEF Answers
<1> QED
  BY <1>1, <1>3, <1>4, PingsKept

LEMMA OpeningKeepsPings ==
  ASSUME TypeOK, AcceptanceInv, PingInv, ConnectOpens \/ ConnectAnswered \/ ConnectReadsTorn, tcp' = "open"
  PROVE  PingInv'
<1>1. CASE ConnectOpens
  <2>1. Ctl("CONNECT").type # "PINGREQ"
    BY DEF Ctl
  <2>2. Count(<<Ctl("CONNECT")>>, "PINGREQ") = 0
    BY <2>1, CountOfOther
  <2>3. Requests' = 0 /\ Answers' = 0 /\ state' # "Connected" /\ toClient' = <<>>
    BY <1>1, <2>2, CountOfEmpty DEF ConnectOpens, OpenWith, Requests, Answers
  <2> QED
    BY <2>3, MembersOfEmpty DEF PingInv, PingAccounting
<1>2. CASE ConnectAnswered \/ ConnectReadsTorn
  <2>1. /\ tcp = "open" /\ Opening /\ toClient # <<>> /\ toClient' = Tail(toClient)
        /\ UNCHANGED toBroker
        /\ state' = "Connected" => pingOutstanding' = FALSE
    BY <1>2 DEF ConnectAnswered, ConnectReadsTorn, Stop, Opening, PingAtConnect, AcceptanceInv, Phases
  <2>2. Requests = 0 /\ Answers = 0
    BY <2>1 DEF PingInv
  <2>3. toClient \in Seq(Packet) /\ Tail(toClient) \in Seq(Packet)
    BY <2>1, HeadTailProperties DEF TypeOK, LinkTypeOK
  <2>4. /\ Answers = Count(Tail(toClient), "PINGRESP")
                     + (IF Head(toClient).type = "PINGRESP" THEN 1 ELSE 0)
        /\ Count(Tail(toClient), "PINGRESP") \in Nat
    BY <2>1, <2>3, CountOfTail, CountTyped DEF Answers
  <2>5. Count(Tail(toClient), "PINGRESP") = 0
    BY <2>2, <2>4
  <2>6. Answers' = 0
    BY <2>1, <2>5 DEF Answers
  <2>7. Requests' = 0
    BY <2>1, <2>2 DEF Requests
  <2>8. \A p \in Members(toClient') : ~p.cut
    BY <2>1, <2>3, MembersOfTail DEF PingInv
  <2> QED
    BY <2>1, <2>6, <2>7, <2>8 DEF PingInv, PingAccounting, Requests, Answers
<1> QED
  BY <1>1, <1>2

\* What loop() writes: the ping that is due is the only one.
LEMMA LoopSends ==
  ASSUME TypeOK, NEW sent \in {<<>>, <<Ctl("PINGREQ")>>}, tcp = "open", ~hung
  PROVE  LET n == Requests + (IF sent = <<>> THEN 0 ELSE 1) IN
         /\ Count(Sent(sent), "PINGREQ") = n
         /\ Count(Sent(sent \o <<Ctl("PINGRESP")>>), "PINGREQ") = n
<1> DEFINE n == Requests + (IF sent = <<>> THEN 0 ELSE 1)
<1>1. /\ Ctl("PINGREQ") \in Packet /\ Ctl("PINGREQ").type = "PINGREQ"
      /\ Ctl("PINGRESP") \in Packet /\ Ctl("PINGRESP").type # "PINGREQ"
      /\ toBroker \in Seq(Packet) /\ Requests \in Nat
      /\ <<Ctl("PINGREQ")>> # <<>>
  BY PacketsTyped, PingsTyped DEF PacketTypes, Ctl, TypeOK, LinkTypeOK
<1>2. sent \in Seq(Packet) /\ <<Ctl("PINGRESP")>> \in Seq(Packet)
  <2>1. <<>> \in Seq(Packet) /\ <<Ctl("PINGREQ")>> \in Seq(Packet) /\ <<Ctl("PINGRESP")>> \in Seq(Packet)
    BY <1>1
  <2> QED
    BY <2>1
<1>3. toBroker \o sent \in Seq(Packet)
  BY <1>1, <1>2, ConcatProperties
<1>4. Count(toBroker \o sent, "PINGREQ") = n
  <2>1. CASE sent = <<>>
    <3>1. toBroker \o sent = toBroker
      BY <1>1, <2>1, ConcatEmptySeq
    <3> QED
      BY <1>1, <2>1, <3>1 DEF Requests
  <2>2. CASE sent = <<Ctl("PINGREQ")>>
    <3>1. Count(toBroker \o <<Ctl("PINGREQ")>>, "PINGREQ") = Requests + 1
      BY <1>1, CountOfOne DEF Requests
    <3> QED
      BY <1>1, <2>2, <3>1
  <2> QED
    BY <2>1, <2>2
<1>5. Count(toBroker \o (sent \o <<Ctl("PINGRESP")>>), "PINGREQ") = Count(toBroker \o sent, "PINGREQ")
  <2>1. toBroker \o (sent \o <<Ctl("PINGRESP")>>) = (toBroker \o sent) \o <<Ctl("PINGRESP")>>
    BY <1>1, <1>2, ConcatAssociative
  <2>2. Count(toBroker \o sent, "PINGREQ") \in Nat
    BY <1>3, CountTyped
  <2>3. ASSUME NEW q \in Seq(Packet), Count(q, "PINGREQ") \in Nat
        PROVE  Count(q \o <<Ctl("PINGRESP")>>, "PINGREQ") = Count(q, "PINGREQ")
    BY <1>1, <2>3, CountOfOne
  <2> QED
    BY <1>3, <2>1, <2>2, <2>3
<1> QED
  BY <1>4, <1>5 DEF Sent

LEMMA LoopKeepsPings ==
  ASSUME TypeOK, AcceptanceInv, PingInv, Loop, tcp = "open"
  PROVE  PingInv'
<1> DEFINE ins  == IF KeepaliveDue THEN 0 ELSE inAge
           out  == IF KeepaliveDue THEN 0 ELSE outAge
           ping == pingOutstanding \/ KeepaliveDue
           sent == IF KeepaliveDue THEN <<Ctl("PINGREQ")>> ELSE <<>>
           p    == Head(toClient)
           n    == Requests + (IF sent = <<>> THEN 0 ELSE 1)
<1>1. /\ UNCHANGED <<tcp, hung, state>> /\ state = "Connected" /\ ~Opening'
      /\ \/ toClient = <<>> /\ toBroker' = Sent(sent) /\ LoopEnds(ins, out, ping) /\ UNCHANGED toClient
         \/ toClient # <<>> /\ toClient' = Tail(toClient) /\ LoopReads(p, ins, out, ping, sent)
  <2>1. state = "Connected"
    BY DEF Loop, AcceptanceInv, Phases
  <2>2. ~Opening'
    BY DEF Loop, LoopEnds, LoopReads, Opening
  <2> QED
    BY <2>1, <2>2 DEF Loop
<1>2. toClient \in Seq(Packet) /\ Requests \in Nat /\ Answers \in Nat
  BY PingsTyped DEF TypeOK, LinkTypeOK
<1>3. \A q \in Members(toClient') : ~q.cut
  BY <1>1, <1>2, MembersOfTail DEF PingInv
<1>4. ASSUME ~hung
      PROVE  Requests' + Answers' = IF pingOutstanding' THEN 1 ELSE 0
  <2>1. n \in Nat /\ n + Answers = IF ping THEN 1 ELSE 0
    <3>1. Requests + Answers = IF pingOutstanding THEN 1 ELSE 0
      BY <1>1, <1>4, PingInvIs
    <3>2. CASE KeepaliveDue
      <4>1. ~pingOutstanding /\ ping /\ sent # <<>>
        BY <3>2 DEF Loop, GivesUp
      <4> QED
        BY <1>2, <3>1, <4>1
    <3>3. CASE ~KeepaliveDue
      <4>1. (ping <=> pingOutstanding) /\ sent = <<>>
        BY <3>3
      <4> QED
        BY <1>2, <3>1, <4>1
    <3> QED
      BY <3>2, <3>3
  <2>2. /\ Count(Sent(sent), "PINGREQ") = n
        /\ Count(Sent(sent \o <<Ctl("PINGRESP")>>), "PINGREQ") = n
    BY <1>4, LoopSends
  <2> HIDE DEF ins, out, ping, sent, n
  <2>3. CASE toClient = <<>> /\ toBroker' = Sent(sent) /\ LoopEnds(ins, out, ping) /\ UNCHANGED toClient
    <3>1. Requests' = n /\ Answers' = Answers /\ pingOutstanding' = ping
      BY <2>2, <2>3 DEF Requests, Answers, LoopEnds
    <3> QED
      BY <2>1, <3>1
  <2>4. CASE toClient # <<>> /\ toClient' = Tail(toClient) /\ LoopReads(p, ins, out, ping, sent)
    <3>0. p \in Members(toClient) /\ ~p.cut
      BY <1>2, <2>4, MembersOfTail DEF PingInv
    <3> DEFINE rest == Count(Tail(toClient), "PINGRESP")
    <3>1. Answers = rest + (IF p.type = "PINGRESP" THEN 1 ELSE 0) /\ rest \in Nat
      <4>1. Tail(toClient) \in Seq(Packet)
        BY <1>2, <2>4, HeadTailProperties
      <4> QED
        BY <1>2, <2>4, <4>1, CountOfTail, CountTyped DEF Answers
    <3>2. Answers' = rest
      BY <2>4 DEF Answers
    <3>3. Requests' = n
      BY <2>2, <2>4 DEF Requests, LoopReads
    <3> HIDE DEF rest, p
    <3>4. pingOutstanding' = IF p.type = "PINGRESP" THEN FALSE ELSE ping
      BY <2>4, <3>0 DEF LoopReads, LoopEnds, PingAfter
    <3>5. CASE p.type = "PINGRESP"
      <4>1. n + Answers = 1 /\ Answers >= 1
        BY <1>2, <2>1, <3>1, <3>5
      <4>2. n + rest = 0
        BY <1>2, <2>1, <3>1, <3>5, <4>1
      <4>3. pingOutstanding' = FALSE
        BY <3>4, <3>5
      <4> QED
        BY <3>2, <3>3, <4>2, <4>3
    <3>6. CASE p.type # "PINGRESP"
      <4>1. n + rest = IF ping THEN 1 ELSE 0
        BY <1>2, <2>1, <3>1, <3>6
      <4>2. pingOutstanding' = ping
        BY <3>4, <3>6
      <4> QED
        BY <3>2, <3>3, <4>1, <4>2
    <3> QED
      BY <3>5, <3>6
  <2> QED
    BY <1>1, <2>3, <2>4 DEF ins, out, ping, sent
<1> QED
  BY <1>1, <1>3, <1>4 DEF PingInv, PingAccounting, Requests, Answers

LEMMA BrokerKeepsPings ==
  ASSUME TypeOK, AcceptanceInv, PingInv, Network, tcp' = "open"
  PROVE  PingInv'
<1>1. /\ UNCHANGED <<tcp, state, pingOutstanding>> /\ (Opening' <=> Opening) /\ tcp = "open"
      /\ toClient \in Seq(Packet) /\ toBroker \in Seq(Packet)
      /\ Requests \in Nat /\ Answers \in Nat
  BY PingsTyped DEF Network, clientVars, Opening, LinkNext, BrokerReceive, BrokerPublish, BrokerPing,
                    BrokerHangs, LinkDown, Drop, TypeOK, LinkTypeOK
<1>2. CASE BrokerHangs
  <2>1. Requests' = 0 /\ Answers' = Answers /\ hung' /\ toClient' = toClient
    BY <1>2, CountOfEmpty DEF BrokerHangs, Requests, Answers
  <2> QED
    BY <1>1, <2>1 DEF PingInv, PingAccounting, Requests, Answers
<1>3. CASE BrokerPublish \/ BrokerPing
  <2>1. PICK p \in Packet : toClient' = Append(toClient, p) /\ p.type # "PINGRESP" /\ ~p.cut
    <3>1. \A id \in MsgIds \cup {0}, q \in 0..2, f \in BOOLEAN :
            LET p == Publication(id, q, f) IN p \in Packet /\ p.type # "PINGRESP" /\ ~p.cut
      BY PacketsTyped, LinkConstants DEF Publication
    <3>2. LET p == Ctl("PINGREQ") IN p \in Packet /\ p.type # "PINGRESP" /\ ~p.cut
      BY PacketsTyped DEF Ctl, PacketTypes
    <3> QED
      BY <1>3, <3>1, <3>2, LinkConstants DEF BrokerPublish, BrokerPing
  <2>2. Count(Append(toClient, p), "PINGRESP") = Answers
    BY <1>1, <2>1, CountOfAppend DEF Answers
  <2>3. Members(toClient') = Members(toClient) \cup {p}
    BY <1>1, <2>1, MembersOfAppend
  <2>4. UNCHANGED <<toBroker, hung>>
    BY <1>3 DEF BrokerPublish, BrokerPing
  <2>5. Requests' = Requests /\ Answers' = Answers
    BY <2>1, <2>2, <2>4 DEF Requests, Answers
  <2> QED
    BY <1>1, <2>1, <2>3, <2>4, <2>5, PingsKept
<1>4. CASE BrokerReceive
  <2> DEFINE h    == Head(toBroker)
             gone == IF h.type = "PINGREQ" THEN 1 ELSE 0
             rest == Count(Tail(toBroker), "PINGREQ")
  <2>1. /\ hung' = hung /\ toBroker # <<>> /\ toBroker' = Tail(toBroker)
        /\ \/ h.type = "CONNECT" /\ \E rc \in {0} \cup RefusalCodes :
                                      toClient' = Append(toClient, ConnAck(rc))
           \/ toClient' = toClient \o Reply(h)
    BY <1>1, <1>4 DEF BrokerReceive, Drop
  <2>2. h \in Packet /\ Tail(toBroker) \in Seq(Packet)
    BY <1>1, <2>1, HeadTailProperties
  <2>3. Requests = rest + gone /\ rest \in Nat /\ Requests' = rest
    BY <1>1, <2>1, <2>2, CountOfTail, CountTyped DEF Requests
  <2>4. \/ gone = 0 /\ toClient' = toClient
        \/ \E p \in Packet : /\ toClient' = Append(toClient, p) /\ ~p.cut
                             /\ (p.type = "PINGRESP" <=> h.type = "PINGREQ")
    <3>1. CASE h.type = "CONNECT" /\ \E rc \in {0} \cup RefusalCodes :
                                      toClient' = Append(toClient, ConnAck(rc))
      <4>1. \A rc \in {0} \cup RefusalCodes :
              ConnAck(rc) \in Packet /\ ConnAck(rc).type # "PINGRESP" /\ ~ConnAck(rc).cut
        BY PacketsTyped, LinkConstants DEF ConnAck
      <4> QED
        BY <3>1, <4>1
    <3>2. CASE toClient' = toClient \o Reply(h)
      <4>1. \/ Reply(h) = <<>> /\ h.type # "PINGREQ"
            \/ Reply(h) = <<Ctl("PINGRESP")>> /\ h.type = "PINGREQ"
            \/ \E t \in {"SUBACK", "UNSUBACK", "PUBACK", "PUBREC", "PUBCOMP", "PUBREL"} :
                 Reply(h) = <<WithId(t, h.id)>> /\ h.type # "PINGREQ"
        BY DEF Reply
      <4>2. CASE Reply(h) = <<>> /\ h.type # "PINGREQ"
        BY <1>1, <3>2, <4>2, ConcatEmptySeq
      <4>3. ASSUME NEW p \in Packet, Reply(h) = <<p>> PROVE toClient' = Append(toClient, p)
        BY <1>1, <3>2, <4>3, AppendIsConcat
      <4>4. Ctl("PINGRESP") \in Packet /\ Ctl("PINGRESP").type = "PINGRESP" /\ ~Ctl("PINGRESP").cut
        BY PacketsTyped DEF PacketTypes, Ctl
      <4>5. \A t \in {"SUBACK", "UNSUBACK", "PUBACK", "PUBREC", "PUBCOMP", "PUBREL"} :
              /\ WithId(t, h.id) \in Packet /\ WithId(t, h.id).type # "PINGRESP"
              /\ ~WithId(t, h.id).cut
        <5>1. h.id \in Nat
          BY <2>2 DEF Packet
        <5> QED
          BY <5>1, PacketsTyped DEF PacketTypes, WithId
      <4> QED
        BY <4>1, <4>2, <4>3, <4>4, <4>5
    <3> QED
      BY <2>1, <3>1, <3>2
  <2>5. /\ Answers' = Answers + gone
        /\ \A p \in Members(toClient') : p \in Members(toClient) \/ ~p.cut
    <3>1. CASE gone = 0 /\ toClient' = toClient
      BY <1>1, <3>1 DEF Answers
    <3>2. ASSUME NEW p \in Packet, toClient' = Append(toClient, p), ~p.cut,
                 p.type = "PINGRESP" <=> h.type = "PINGREQ"
          PROVE  /\ Answers' = Answers + gone
                 /\ \A q \in Members(toClient') : q \in Members(toClient) \/ ~q.cut
      <4>1. Count(Append(toClient, p), "PINGRESP") = Answers + gone
        BY <1>1, <3>2, CountOfAppend DEF Answers
      <4>2. Members(toClient') = Members(toClient) \cup {p}
        BY <1>1, <3>2, MembersOfAppend
      <4> QED
        BY <3>2, <4>1, <4>2 DEF Answers
    <3> QED
      BY <2>4, <3>1, <3>2
  <2>6. gone \in {0, 1}
    OBVIOUS
  <2> HIDE DEF gone, rest
  <2>7. Requests' + Answers' = Requests + Answers
    BY <1>1, <2>3, <2>5, <2>6
  <2>8. Requests = 0 /\ Answers = 0 => Requests' = 0 /\ Answers' = 0
    BY <1>1, <2>3, <2>5, <2>6
  <2> QED
    BY <1>1, <2>1, <2>5, <2>7, <2>8 DEF PingInv, PingAccounting, Requests, Answers
<1> QED
  BY <1>2, <1>3, <1>4, <1>1 DEF Network, LinkNext, LinkDown, Drop

LEMMA PingInvariant == Spec => []PingInv
<1>1. Init => PingInv
  BY DEF Init, LinkInit, PingInv, PingAccounting
<1>2. TypeOK /\ AcceptanceInv /\ PingInv /\ [Next]_vars => PingInv'
  <2> SUFFICES ASSUME TypeOK, AcceptanceInv, PingInv, [Next]_vars, tcp' = "open" PROVE PingInv'
    BY DownKeepsPings
  <2>1. CASE UNCHANGED vars
    BY <2>1, PingsKept DEF vars, linkVars, clientVars, Opening, Requests, Answers
  <2>2. CASE Stop
    BY <2>2 DEF Stop
  <2>3. CASE CallOffline \/ ConnectFails
    BY <2>3 DEF CallOffline, ConnectFails, NoticeLoss, TcpConnected, Stop, linkVars
  <2>4. CASE ConnectTimesOut \/ ConnectGivesUpOnTorn \/ LoopTimesOut \/ Disconnect
    BY <2>2, <2>4 DEF ConnectTimesOut, ConnectGivesUpOnTorn, LoopTimesOut, Disconnect
  <2>5. CASE Loop
    BY <2>5, LoopKeepsPings DEF Loop
  <2> QED
    BY <2>1, <2>3, <2>4, <2>5, OpeningKeepsPings, CallsKeepPings, BrokerKeepsPings DEF Next, Proceed
<1> QED
  BY <1>1, <1>2, TypeCorrect, AcceptanceInvariant, PTL DEF Spec

\* One ping is accounted for at any time: a connection that stands carries a
\* PINGREQ or its answer exactly while pingOutstanding is set, so that no answer
\* of another connection or another ping is taken for it.
THEOREM PingsAreAccounted == Spec => []PingAccounting
<1>1. PingInv => PingAccounting
  BY DEF PingInv
<1> QED
  BY <1>1, PingInvariant, PTL

----------------------------------------------------------------------------
(* The ids of the packets of a set K in a queue, each of them once.        *)

Ids(q, K)  == {q[i].id : i \in {j \in DOMAIN q : q[j] \in K}}
Once(q, K) == \A i, j \in DOMAIN q : q[i] \in K /\ q[j] \in K /\ q[i].id = q[j].id => i = j

LEMMA IdsOfTail ==
  ASSUME NEW q \in Seq(Packet), q # <<>>, NEW K, Once(q, K)
  PROVE  /\ Once(Tail(q), K)
         /\ Ids(Tail(q), K) = IF Head(q) \in K THEN Ids(q, K) \ {Head(q).id} ELSE Ids(q, K)
         /\ Head(q) \in K => Head(q).id \in Ids(q, K)
<1>1. /\ Len(q) \in Nat \ {0} /\ DOMAIN q = 1..Len(q) /\ Head(q) = q[1]
      /\ DOMAIN Tail(q) = 1..(Len(q) - 1)
      /\ \A i \in 1..(Len(q) - 1) : Tail(q)[i] = q[i + 1]
  BY HeadTailProperties, LenProperties, EmptySeq
<1>2. ASSUME NEW i \in DOMAIN Tail(q), NEW j \in DOMAIN Tail(q),
             Tail(q)[i] \in K, Tail(q)[j] \in K, Tail(q)[i].id = Tail(q)[j].id
      PROVE  i = j
  <2>1. i + 1 \in DOMAIN q /\ j + 1 \in DOMAIN q /\ Tail(q)[i] = q[i + 1] /\ Tail(q)[j] = q[j + 1]
    BY <1>1
  <2>2. i + 1 = j + 1
    BY <1>2, <2>1 DEF Once
  <2> QED
    BY <1>1, <2>2
<1>3. ASSUME NEW i \in DOMAIN Tail(q), Tail(q)[i] \in K
      PROVE  Tail(q)[i].id \in Ids(q, K) /\ (Head(q) \in K => Tail(q)[i].id # Head(q).id)
  <2>1. i + 1 \in DOMAIN q /\ Tail(q)[i] = q[i + 1] /\ i + 1 # 1 /\ 1 \in DOMAIN q
    BY <1>1
  <2>2. Tail(q)[i].id \in Ids(q, K)
    BY <1>3, <2>1 DEF Ids
  <2>3. Head(q) \in K => Tail(q)[i].id # Head(q).id
    BY <1>1, <1>3, <2>1 DEF Once
  <2> QED
    BY <2>2, <2>3
<1>4. ASSUME NEW j \in DOMAIN q, q[j] \in K, ~(j = 1)
      PROVE  q[j].id \in Ids(Tail(q), K)
  <2>1. j - 1 \in DOMAIN Tail(q) /\ Tail(q)[j - 1] = q[j]
    BY <1>1, <1>4
  <2> QED
    BY <1>4, <2>1 DEF Ids
<1>5. Ids(Tail(q), K) \subseteq Ids(q, K)
  BY <1>3 DEF Ids
<1>6. Head(q) \in K => Head(q).id \in Ids(q, K) /\ Head(q).id \notin Ids(Tail(q), K)
  <2>1. Head(q) \in K => Head(q).id \in Ids(q, K)
    BY <1>1 DEF Ids
  <2>2. Head(q) \in K => Head(q).id \notin Ids(Tail(q), K)
    BY <1>3 DEF Ids
  <2> QED
    BY <2>1, <2>2
<1>7. \A x \in Ids(q, K) : x \in Ids(Tail(q), K) \/ (Head(q) \in K /\ x = Head(q).id)
  <2> SUFFICES ASSUME NEW j \in DOMAIN q, q[j] \in K
               PROVE  q[j].id \in Ids(Tail(q), K) \/ (Head(q) \in K /\ q[j].id = Head(q).id)
    BY DEF Ids
  <2> QED
    BY <1>1, <1>4
<1>8. Once(Tail(q), K)
  BY <1>2 DEF Once
<1> QED
  BY <1>5, <1>6, <1>7, <1>8

LEMMA IdsOfConcat ==
  ASSUME NEW q \in Seq(Packet), NEW r \in Seq(Packet), NEW K, \A p \in Members(r) : p \notin K,
         Once(q, K)
  PROVE  Once(q \o r, K) /\ Ids(q \o r, K) = Ids(q, K)
<1>1. /\ Len(q) \in Nat /\ Len(r) \in Nat
      /\ DOMAIN q = 1..Len(q) /\ DOMAIN r = 1..Len(r)
      /\ DOMAIN (q \o r) = 1..(Len(q) + Len(r))
      /\ \A i \in 1..(Len(q) + Len(r)) :
           (q \o r)[i] = IF i <= Len(q) THEN q[i] ELSE r[i - Len(q)]
  BY ConcatProperties, LenProperties
<1>2. ASSUME NEW i \in DOMAIN (q \o r), (q \o r)[i] \in K
      PROVE  i \in DOMAIN q /\ (q \o r)[i] = q[i]
  <2>1. CASE i <= Len(q)
    BY <1>1, <2>1
  <2>2. CASE i > Len(q)
    <3>1. i - Len(q) \in DOMAIN r /\ (q \o r)[i] = r[i - Len(q)]
      BY <1>1, <2>2
    <3> QED
      BY <1>2, <3>1 DEF Members
  <2> QED
    BY <1>1, <2>1, <2>2
<1>3. ASSUME NEW i \in DOMAIN q PROVE i \in DOMAIN (q \o r) /\ (q \o r)[i] = q[i]
  BY <1>1
<1>4. Once(q \o r, K)
  BY <1>2 DEF Once
<1>5. Ids(q \o r, K) \subseteq Ids(q, K)
  BY <1>2 DEF Ids
<1>6. Ids(q, K) \subseteq Ids(q \o r, K)
  BY <1>3 DEF Ids
<1> QED
  BY <1>4, <1>5, <1>6

LEMMA IdsOfAppend ==
  ASSUME NEW q \in Seq(Packet), NEW p \in Packet, NEW K, Once(q, K),
         p \in K => p.id \notin Ids(q, K)
  PROVE  /\ Once(Append(q, p), K)
         /\ Ids(Append(q, p), K) = IF p \in K THEN Ids(q, K) \cup {p.id} ELSE Ids(q, K)
<1> DEFINE a == Append(q, p)
<1>1. /\ Len(q) \in Nat /\ DOMAIN q = 1..Len(q)
      /\ DOMAIN a = 1..(Len(q) + 1)
      /\ \A i \in 1..Len(q) : a[i] = q[i]
      /\ a[Len(q) + 1] = p
  BY AppendProperties, LenProperties
<1> HIDE DEF a
<1>2. \A i \in DOMAIN a : (i \in DOMAIN q /\ a[i] = q[i]) \/ (i = Len(q) + 1 /\ a[i] = p)
  BY <1>1
<1>3. \A i \in DOMAIN q : i \in DOMAIN a /\ a[i] = q[i]
  BY <1>1
<1>4. Len(q) + 1 \in DOMAIN a
  BY <1>1
<1>5. \A i \in DOMAIN q : q[i] \in K => q[i].id \in Ids(q, K)
  BY DEF Ids
<1>6. Once(a, K)
  <2> SUFFICES ASSUME NEW i \in DOMAIN a, NEW j \in DOMAIN a, a[i] \in K, a[j] \in K, a[i].id = a[j].id
               PROVE  i = j
    BY DEF Once
  <2> QED
    BY <1>2, <1>5 DEF Once
<1>7. Ids(a, K) \subseteq Ids(q, K) \cup (IF p \in K THEN {p.id} ELSE {})
  BY <1>2 DEF Ids
<1>8. Ids(q, K) \subseteq Ids(a, K)
  BY <1>3 DEF Ids
<1>9. p \in K => p.id \in Ids(a, K)
  BY <1>1, <1>4 DEF Ids
<1> QED
  BY <1>6, <1>7, <1>8, <1>9 DEF a

\* Then there are as many ids as packets.
LEMMA IdsCounted ==
  ASSUME NEW q \in Seq(Packet), NEW K, Once(q, K)
  PROVE  Cardinality(Ids(q, K)) = Cardinality({i \in DOMAIN q : q[i] \in K})
<1> DEFINE places == {i \in DOMAIN q : q[i] \in K}
           f == [i \in places |-> q[i].id]
<1>1. IsFiniteSet(places)
  <2>1. Len(q) \in Nat /\ DOMAIN q = 1..Len(q)
    BY LenProperties
  <2>2. IsFiniteSet(1..Len(q)) /\ places \in SUBSET (1..Len(q))
    BY <2>1, FS_Interval
  <2> QED
    BY <2>2, FS_Subset
<1>2. f \in [places -> Ids(q, K)]
  BY DEF Ids
<1>3. \A a, b \in places : f[a] = f[b] => a = b
  BY DEF Once
<1>4. \A t \in Ids(q, K) : \E s \in places : f[s] = t
  BY DEF Ids
<1>5. f \in Bijection(places, Ids(q, K))
  BY <1>2, <1>3, <1>4, Fun_IsBij
<1> QED
  BY <1>1, <1>5, FS_Bijection, Fun_ExistsBij

----------------------------------------------------------------------------
(* Acknowledgements (AckConservation).                                     *)

ToAck  == {p \in Packet : p.type = "PUBLISH" /\ p.qos = 1}
PubAck == {p \in Packet : p.type = "PUBACK"}

\* AckConservation is inductive once it says that no id is on its way twice in
\* either direction, and that the client sends no other acknowledgements.
AckInv ==
  tcp = "open" /\ ~hung =>
    /\ unacked = Unread \cup InCallback \cup dropped \cup Acked
    /\ Unread \cap (InCallback \cup dropped \cup Acked) = {}
    /\ InCallback \cap (dropped \cup Acked) = {}
    /\ dropped \cap Acked = {}
    /\ Once(toClient, ToAck) /\ Once(toBroker, PubAck)
    /\ \A p \in Members(toBroker) : p.type # "PUBCOMP"

LEMMA AsIds ==
  ASSUME toClient \in Seq(Packet), toBroker \in Seq(Packet)
  PROVE  /\ Unread = Ids(toClient, ToAck) /\ Acked = Ids(toBroker, PubAck)
         /\ Count(toBroker, "PUBACK") = Cardinality({i \in DOMAIN toBroker : toBroker[i] \in PubAck})
<1>1. /\ \A i \in DOMAIN toClient : toClient[i] \in Packet
      /\ \A i \in DOMAIN toBroker : toBroker[i] \in Packet
  BY ElementOfSeq, LenProperties
<1>2. /\ \A i \in DOMAIN toClient :
           toClient[i] \in ToAck <=> toClient[i].type = "PUBLISH" /\ toClient[i].qos = 1
      /\ \A i \in DOMAIN toBroker : toBroker[i] \in PubAck <=> toBroker[i].type = "PUBACK"
  BY <1>1 DEF ToAck, PubAck
<1>3. {j \in DOMAIN toClient : toClient[j] \in ToAck}
        = {j \in DOMAIN toClient : toClient[j].type = "PUBLISH" /\ toClient[j].qos = 1}
  BY <1>2
<1>4. {j \in DOMAIN toBroker : toBroker[j] \in PubAck}
        = {j \in DOMAIN toBroker : toBroker[j].type = "PUBACK"}
  BY <1>2
<1> QED
  BY <1>3, <1>4 DEF Unread, Acked, Ids, Count

LEMMA AckInvSuffices == TypeOK /\ AckInv => AckConservation
<1> SUFFICES ASSUME TypeOK, AckInv, tcp = "open", ~hung
             PROVE  Cardinality(Acked) = Count(toBroker, "PUBACK")
  BY DEF AckInv, AckConservation
<1>1. toClient \in Seq(Packet) /\ toBroker \in Seq(Packet) /\ Once(toBroker, PubAck)
  BY DEF TypeOK, LinkTypeOK, AckInv
<1> QED
  BY <1>1, AsIds, IdsCounted

\* In terms of the four places, for a state and the one after it.
Balanced(u, unread, calling, lost, sent) ==
  /\ u = unread \cup calling \cup lost \cup sent
  /\ unread \cap (calling \cup lost \cup sent) = {}
  /\ calling \cap (lost \cup sent) = {}
  /\ lost \cap sent = {}

LEMMA AckInvIs ==
  ASSUME TypeOK
  PROVE  AckInv <=>
           (tcp = "open" /\ ~hung =>
              /\ Balanced(unacked, Ids(toClient, ToAck), InCallback, dropped, Ids(toBroker, PubAck))
              /\ Once(toClient, ToAck) /\ Once(toBroker, PubAck)
              /\ \A p \in Members(toBroker) : p.type # "PUBCOMP")
<1>1. toClient \in Seq(Packet) /\ toBroker \in Seq(Packet)
  BY DEF TypeOK, LinkTypeOK
<1> QED
  BY <1>1, AsIds DEF AckInv, Balanced

LEMMA AckInvIsNext ==
  ASSUME TypeOK'
  PROVE  AckInv' <=>
           (tcp' = "open" /\ ~hung' =>
              /\ Balanced(unacked', Ids(toClient', ToAck), InCallback', dropped', Ids(toBroker', PubAck))
              /\ Once(toClient', ToAck) /\ Once(toBroker', PubAck)
              /\ \A p \in Members(toBroker') : p.type # "PUBCOMP")
<1>1. /\ Unread' = Ids(toClient', ToAck) /\ Acked' = Ids(toBroker', PubAck)
  <2>1. (toClient \in Seq(Packet) /\ toBroker \in Seq(Packet))'
    BY DEF TypeOK, LinkTypeOK
  <2>2. /\ \A i \in DOMAIN toClient' : toClient'[i] \in Packet
        /\ \A i \in DOMAIN toBroker' : toBroker'[i] \in Packet
    BY <2>1, ElementOfSeq, LenProperties
  <2>3. /\ {j \in DOMAIN toClient' : toClient'[j] \in ToAck}
             = {j \in DOMAIN toClient' : toClient'[j].type = "PUBLISH" /\ toClient'[j].qos = 1}
        /\ {j \in DOMAIN toBroker' : toBroker'[j] \in PubAck}
             = {j \in DOMAIN toBroker' : toBroker'[j].type = "PUBACK"}
    BY <2>2 DEF ToAck, PubAck
  <2> QED
    BY <2>3 DEF Unread, Acked, Ids
<1> QED
  BY <1>1 DEF AckInv, Balanced, Once

\* What the broker may publish with for the client to acknowledge all of it:
\* subscribe() refuses a quality of service above 1.
ClientQos == BrokerQos \subseteq {0, 1}

LEMMA AckPackets ==
  /\ \A t \in PacketTypes \ {"PUBLISH"} :
       Ctl(t) \notin ToAck /\ \A id \in Nat : WithId(t, id) \notin ToAck
  /\ \A rc \in 0..5 : ConnAck(rc) \notin ToAck
  /\ \A id \in Nat, q \in 0..2, f \in BOOLEAN : Publication(id, q, f) \in ToAck <=> q = 1
  /\ \A id \in Nat, q \in 0..2, f \in BOOLEAN : Publication(id, q, f) \notin PubAck
  /\ \A t \in PacketTypes : Ctl(t) \in PubAck <=> t = "PUBACK"
  /\ \A t \in PacketTypes, id \in Nat : WithId(t, id) \in PubAck <=> t = "PUBACK"
BY PacketsTyped DEF ToAck, PubAck, Ctl, WithId, ConnAck, Publication

\* The client's other writes leave the acknowledgements on their way alone.
LEMMA OtherWrites ==
  ASSUME TypeOK, Once(toBroker, PubAck), \A p \in Members(toBroker) : p.type # "PUBCOMP",
         NEW r \in Seq(Packet), \A p \in Members(r) : p.type \notin {"PUBACK", "PUBCOMP"}
  PROVE  /\ Once(Sent(r), PubAck) /\ Ids(Sent(r), PubAck) = Ids(toBroker, PubAck)
         /\ \A p \in Members(Sent(r)) : p.type # "PUBCOMP"
<1>1. toBroker \in Seq(Packet)
  BY DEF TypeOK, LinkTypeOK
<1>2. \A p \in Members(r) : p \notin PubAck
  BY DEF PubAck
<1>3. /\ Once(toBroker \o r, PubAck) /\ Ids(toBroker \o r, PubAck) = Ids(toBroker, PubAck)
      /\ Members(toBroker \o r) = Members(toBroker) \cup Members(r)
  BY <1>1, <1>2, IdsOfConcat, MembersOfConcat
<1> QED
  BY <1>3 DEF Sent

\* Steps that move no acknowledgement.
LEMMA AcksKept ==
  ASSUME TypeOK, TypeOK', AckInv, UNCHANGED <<tcp, hung, unacked, InCallback, dropped>>,
         tcp = "open" /\ ~hung =>
           /\ Once(toClient', ToAck) /\ Ids(toClient', ToAck) = Ids(toClient, ToAck)
           /\ Once(toBroker', PubAck) /\ Ids(toBroker', PubAck) = Ids(toBroker, PubAck)
           /\ \A p \in Members(toBroker') : p.type # "PUBCOMP"
  PROVE  AckInv'
BY AckInvIs, AckInvIsNext

LEMMA CallsKeepAcks ==
  ASSUME TypeOK, TypeOK', AckInv,
         Publish \/ Subscribe \/ Unsubscribe \/ LoopGivesUpOnTorn \/ Tick
  PROVE  AckInv'
<1>1. /\ UNCHANGED <<tcp, hung, unacked, toClient, dropped>> /\ InCallback' = InCallback
      /\ toClient \in Seq(Packet) /\ toBroker \in Seq(Packet)
  BY DEF Publish, Subscribe, Unsubscribe, Request, LoopGivesUpOnTorn, Tick, LinkTick,
         linkVars, InCallback, TypeOK, LinkTypeOK
<1>2. toBroker' = toBroker
      \/ \E p \in Packet : p.type \notin {"PUBACK", "PUBCOMP"} /\ toBroker' = Sent(<<p>>)
  <2>1. CASE Publish
    <3> DEFINE p == Publication(0, 0, TRUE)
    <3>1. p \in Packet
      BY DEF Publication, Packet, PacketTypes
    <3>2. p.type = "PUBLISH"
      BY DEF Publication
    <3> QED
      BY <2>1, <3>1, <3>2 DEF Publish
  <2>2. ASSUME NEW t \in {"SUBSCRIBE", "UNSUBSCRIBE"}, Request(t)
        PROVE  \E p \in Packet : p.type \notin {"PUBACK", "PUBCOMP"} /\ toBroker' = Sent(<<p>>)
    <3>1. NextId \in Nat
      BY NextIdTyped, ClientAssumption DEF TypeOK, ClientAssumption
    <3>2. WithId(t, NextId) \in Packet /\ WithId(t, NextId).type \notin {"PUBACK", "PUBCOMP"}
      BY <3>1, PacketsTyped DEF WithId, PacketTypes
    <3> QED
      BY <2>2, <3>2 DEF Request
  <2>3. CASE LoopGivesUpOnTorn \/ Tick
    BY <2>3 DEF LoopGivesUpOnTorn, Tick, LinkTick, linkVars
  <2> QED
    BY <2>1, <2>2, <2>3 DEF Subscribe, Unsubscribe
<1>3. CASE toBroker' = toBroker
  BY <1>1, <1>3, AcksKept, AckInvIs
<1>4. ASSUME NEW p \in Packet, p.type \notin {"PUBACK", "PUBCOMP"}, toBroker' = Sent(<<p>>)
      PROVE  AckInv'
  <2>1. <<p>> \in Seq(Packet) /\ Members(<<p>>) = {p}
    BY MembersOfOne
  <2>2. tcp = "open" /\ ~hung =>
          /\ Once(toClient, ToAck)
          /\ Once(Sent(<<p>>), PubAck) /\ Ids(Sent(<<p>>), PubAck) = Ids(toBroker, PubAck)
          /\ \A q \in Members(Sent(<<p>>)) : q.type # "PUBCOMP"
    BY <1>4, <2>1, OtherWrites, AckInvIs
  <2> QED
    BY <1>1, <1>4, <2>2, AcksKept
<1> QED
  BY <1>2, <1>3, <1>4

\* loop() takes a publication out of the queue into the callback, or drops it.
LEMMA LoopKeepsAcks ==
  ASSUME TypeOK, TypeOK', PingInv, AckInv, Loop
  PROVE  AckInv'
<1> DEFINE ins  == IF KeepaliveDue THEN 0 ELSE inAge
           out  == IF KeepaliveDue THEN 0 ELSE outAge
           ping == pingOutstanding \/ KeepaliveDue
           sent == IF KeepaliveDue THEN <<Ctl("PINGREQ")>> ELSE <<>>
           p    == Head(toClient)
<1> SUFFICES ASSUME tcp = "open", ~hung, tcp' = "open", ~hung' PROVE AckInv'
  BY AckInvIsNext DEF Loop
<1>1. /\ UNCHANGED <<tcp, hung, unacked>> /\ pc = "app" /\ InCallback = {}
      /\ \/ toClient = <<>> /\ toBroker' = Sent(sent) /\ LoopEnds(ins, out, ping) /\ UNCHANGED toClient
         \/ toClient # <<>> /\ toClient' = Tail(toClient) /\ LoopReads(p, ins, out, ping, sent)
  BY DEF Loop, InCallback
<1>2. toClient \in Seq(Packet) /\ toBroker \in Seq(Packet)
  BY DEF TypeOK, LinkTypeOK
<1>3. /\ Balanced(unacked, Ids(toClient, ToAck), {}, dropped, Ids(toBroker, PubAck))
      /\ Once(toClient, ToAck) /\ Once(toBroker, PubAck)
      /\ \A q \in Members(toBroker) : q.type # "PUBCOMP"
  BY <1>1, AckInvIs
<1>4. \A r \in {sent, sent \o <<Ctl("PINGRESP")>>} :
        /\ Once(Sent(r), PubAck) /\ Ids(Sent(r), PubAck) = Ids(toBroker, PubAck)
        /\ \A q \in Members(Sent(r)) : q.type # "PUBCOMP"
  <2>1. \A t \in {"PINGREQ", "PINGRESP"} : Ctl(t) \in Packet /\ Ctl(t).type \notin {"PUBACK", "PUBCOMP"}
    BY PacketsTyped DEF PacketTypes, Ctl
  <2>2. /\ <<>> \in Seq(Packet) /\ <<Ctl("PINGREQ")>> \in Seq(Packet)
        /\ <<Ctl("PINGRESP")>> \in Seq(Packet)
    BY <2>1
  <2>3. sent \in Seq(Packet) /\ Members(sent) \subseteq {Ctl("PINGREQ")}
    BY <2>2, MembersOfEmpty, MembersOfOne
  <2>4. /\ sent \o <<Ctl("PINGRESP")>> \in Seq(Packet)
        /\ Members(sent \o <<Ctl("PINGRESP")>>) = Members(sent) \cup {Ctl("PINGRESP")}
    <3>1. ASSUME NEW r \in Seq(Packet), NEW s \in Seq(Packet)
          PROVE  r \o s \in Seq(Packet) /\ Members(r \o s) = Members(r) \cup Members(s)
      BY ConcatProperties, MembersOfConcat
    <3>2. Members(<<Ctl("PINGRESP")>>) = {Ctl("PINGRESP")}
      BY MembersOfOne
    <3> DEFINE answer == <<Ctl("PINGRESP")>>
    <3>3. sent \in Seq(Packet) /\ answer \in Seq(Packet)
      BY <2>2, <2>3
    <3> HIDE DEF sent, answer
    <3>4. sent \o answer \in Seq(Packet) /\ Members(sent \o answer) = Members(sent) \cup Members(answer)
      BY <3>1, <3>3
    <3> QED
      BY <3>2, <3>4 DEF answer
  <2> SUFFICES ASSUME NEW r \in Seq(Packet), \A q \in Members(r) : q.type \notin {"PUBACK", "PUBCOMP"}
               PROVE  /\ Once(Sent(r), PubAck) /\ Ids(Sent(r), PubAck) = Ids(toBroker, PubAck)
                      /\ \A q \in Members(Sent(r)) : q.type # "PUBCOMP"
    <3> HIDE DEF sent
    <3> QED
      BY <2>1, <2>3, <2>4
  <2> QED
    BY <1>3, OtherWrites
<1> HIDE DEF ins, out, ping, sent
<1>5. CASE toClient = <<>> /\ toBroker' = Sent(sent) /\ LoopEnds(ins, out, ping) /\ UNCHANGED toClient
  <2>1. InCallback' = {} /\ dropped' = dropped
    BY <1>5 DEF LoopEnds, InCallback
  <2> QED
    BY <1>1, <1>3, <1>4, <1>5, <2>1, AcksKept
<1>6. CASE toClient # <<>> /\ toClient' = Tail(toClient) /\ LoopReads(p, ins, out, ping, sent)
  <2>1. p \in Packet /\ ~p.cut
    <3>1. p \in Members(toClient)
      BY <1>2, <1>6, MembersOfTail
    <3> QED
      BY <1>2, <3>1, MembersTyped DEF PingInv
  <2>2. /\ Once(toClient', ToAck)
        /\ Ids(toClient', ToAck) = IF p \in ToAck THEN Ids(toClient, ToAck) \ {p.id} ELSE Ids(toClient, ToAck)
        /\ p \in ToAck => p.id \in Ids(toClient, ToAck)
    BY <1>2, <1>3, <1>6, IdsOfTail
  <2>3. toBroker' \in {Sent(sent), Sent(sent \o <<Ctl("PINGRESP")>>)}
    BY <1>6 DEF LoopReads
  <2>4. p \in ToAck <=> p.type = "PUBLISH" /\ p.qos = 1
    BY <2>1 DEF ToAck
  <2> HIDE DEF p
  <2>5. InCallback' = (IF p \in ToAck /\ p.fits THEN {p.id} ELSE {})
    <3>1. pc' = "callback" <=> p.type = "PUBLISH" /\ p.fits
      BY <1>6, <2>1 DEF LoopReads, LoopEnds
    <3>2. pc' = "callback" => current' = p
      BY <1>6, <2>1 DEF LoopReads, LoopEnds
    <3> QED
      BY <2>4, <3>1, <3>2 DEF InCallback
  <2>6. dropped' = (IF p \in ToAck /\ ~p.fits THEN dropped \cup {p.id} ELSE dropped)
    BY <1>6, <2>1, <2>4 DEF LoopReads, LoopEnds
  <2>7. Balanced(unacked, Ids(toClient', ToAck), InCallback', dropped', Ids(toBroker, PubAck))
    BY <1>3, <2>2, <2>5, <2>6 DEF Balanced
  <2>8. /\ Once(toBroker', PubAck) /\ Ids(toBroker', PubAck) = Ids(toBroker, PubAck)
        /\ \A q \in Members(toBroker') : q.type # "PUBCOMP"
    BY <1>4, <2>3
  <2> QED
    BY <1>1, <2>2, <2>7, <2>8, AckInvIsNext
<1> QED
  BY <1>1, <1>5, <1>6

\* The callback returns: its publication is acknowledged.
LEMMA CallbackKeepsAcks ==
  ASSUME TypeOK, TypeOK', AckInv, CallbackReturns
  PROVE  AckInv'
<1> SUFFICES ASSUME tcp = "open", ~hung, tcp' = "open", ~hung' PROVE AckInv'
  BY AckInvIsNext DEF CallbackReturns
<1>1. /\ UNCHANGED <<unacked, dropped, toClient>> /\ InCallback' = {}
      /\ InCallback = IF AckWanted THEN {current.id} ELSE {}
      /\ toBroker' = IF AckWanted THEN toBroker \o <<WithId("PUBACK", current.id)>> ELSE toBroker
  BY DEF CallbackReturns, InCallback, AckWanted, AckId, Sent
<1>2. toClient \in Seq(Packet) /\ toBroker \in Seq(Packet) /\ current.id \in Nat
  BY DEF TypeOK, LinkTypeOK, Packet
<1>3. /\ Balanced(unacked, Ids(toClient, ToAck), InCallback, dropped, Ids(toBroker, PubAck))
      /\ Once(toClient, ToAck) /\ Once(toBroker, PubAck)
      /\ \A q \in Members(toBroker) : q.type # "PUBCOMP"
  BY AckInvIs
<1>4. CASE AckWanted
  <2> DEFINE a == WithId("PUBACK", current.id)
  <2>1. a \in Packet /\ a \in PubAck /\ a.id = current.id /\ a.type = "PUBACK"
    BY <1>2, PacketsTyped, AckPackets DEF WithId, PacketTypes
  <2>2. toBroker' = Append(toBroker, a)
    BY <1>1, <1>2, <1>4, <2>1, AppendIsConcat
  <2> HIDE DEF a
  <2>3. current.id \notin Ids(toBroker, PubAck)
    BY <1>1, <1>3, <1>4 DEF Balanced
  <2>4. /\ Once(toBroker', PubAck) /\ Ids(toBroker', PubAck) = Ids(toBroker, PubAck) \cup {current.id}
        /\ Members(toBroker') = Members(toBroker) \cup {a}
    BY <1>2, <1>3, <2>1, <2>2, <2>3, IdsOfAppend, MembersOfAppend
  <2>5. Balanced(unacked, Ids(toClient, ToAck), {}, dropped, Ids(toBroker', PubAck))
    BY <1>1, <1>3, <1>4, <2>4 DEF Balanced
  <2> QED
    BY <1>1, <1>3, <2>1, <2>4, <2>5, AckInvIsNext
<1>5. CASE ~AckWanted
  BY <1>1, <1>3, <1>5, AckInvIsNext
<1> QED
  BY <1>4, <1>5

LEMMA ConnectKeepsAcks ==
  ASSUME TypeOK, TypeOK', PingInv, AckInv, ConnectOpens \/ ConnectAnswered \/ ConnectReadsTorn
  PROVE  AckInv'
<1>0. toClient \in Seq(Packet)
  BY DEF TypeOK, LinkTypeOK
<1>1. CASE ConnectOpens
  <2> DEFINE c == Ctl("CONNECT")
  <2>1. c \in Packet /\ c \notin PubAck /\ c.type # "PUBCOMP"
    BY PacketsTyped, AckPackets DEF PacketTypes, Ctl
  <2>2. /\ toClient' = <<>> /\ toBroker' = <<c>> /\ unacked' = {}
        /\ dropped' = {} /\ InCallback' = {}
    BY <1>1 DEF ConnectOpens, OpenWith, NewSession, InCallback
  <2> HIDE DEF c
  <2>3. Ids(toClient', ToAck) = {} /\ Once(toClient', ToAck)
    BY <2>2 DEF Ids, Once
  <2>4. Ids(toBroker', PubAck) = {} /\ Once(toBroker', PubAck) /\ Members(toBroker') = {c}
    BY <2>1, <2>2, MembersOfOne DEF Ids, Once
  <2> QED
    BY <2>1, <2>2, <2>3, <2>4, AckInvIsNext DEF Balanced
<1>2. CASE ConnectReadsTorn
  <2>1. tcp' # "open"
    BY <1>0, <1>2, MembersOfTail DEF ConnectReadsTorn, PingInv
  <2> QED
    BY <2>1, AckInvIsNext
<1>3. CASE ConnectAnswered
  <2> SUFFICES ASSUME tcp' = "open" PROVE AckInv'
    BY AckInvIsNext
  <2> DEFINE p == Head(toClient)
  <2>1. /\ Accepts(p) /\ toClient # <<>> /\ toClient' = Tail(toClient)
        /\ UNCHANGED <<tcp, hung, unacked, toBroker, dropped>>
        /\ InCallback' = InCallback
    BY <1>3 DEF ConnectAnswered, Stop, InCallback
  <2>2. p \notin ToAck
    BY <2>1 DEF Accepts, ToAck
  <2>3. Once(toClient, ToAck) => Once(toClient', ToAck) /\ Ids(toClient', ToAck) = Ids(toClient, ToAck)
    BY <1>0, <2>1, <2>2, IdsOfTail
  <2> QED
    BY <2>1, <2>3, AcksKept, AckInvIs
<1> QED
  BY <1>1, <1>2, <1>3

\* A publication is forwarded under an id that is in none of the places.
LEMMA BrokerPublishKeepsAcks ==
  ASSUME TypeOK, TypeOK', ClientQos, AckInv, BrokerPublish \/ BrokerPing, UNCHANGED clientVars
  PROVE  AckInv'
<1>1. /\ UNCHANGED <<tcp, hung, toBroker, dropped>> /\ InCallback' = InCallback
      /\ toClient \in Seq(Packet) /\ tcp = "open" /\ ~hung
  BY DEF BrokerPublish, BrokerPing, clientVars, InCallback, TypeOK, LinkTypeOK
<1>2. PICK p \in Packet :
        /\ toClient' = Append(toClient, p)
        /\ \/ p \notin ToAck /\ unacked' = unacked
           \/ p \in ToAck /\ p.id \notin unacked /\ unacked' = unacked \cup {p.id}
  <2>1. CASE BrokerPing
    <3>1. Ctl("PINGREQ") \in Packet /\ Ctl("PINGREQ") \notin ToAck
      BY PacketsTyped, AckPackets DEF PacketTypes
    <3> QED
      BY <2>1, <3>1 DEF BrokerPing
  <2>2. CASE BrokerPublish
    <3>1. PICK q \in BrokerQos, f \in BrokerFits :
            \/ q = 0 /\ toClient' = Append(toClient, Publication(0, 0, f)) /\ UNCHANGED unacked
            \/ /\ q # 0
               /\ \E id \in MsgIds \ unacked :
                    /\ toClient' = Append(toClient, Publication(id, q, f))
                    /\ unacked' = unacked \cup {id}
      BY <2>2 DEF BrokerPublish
    <3>2. q \in {0, 1} /\ f \in BOOLEAN /\ MsgIds \subseteq Nat
      BY LinkAssumption DEF LinkAssumption, ClientQos
    <3>3. ASSUME NEW id \in Nat, NEW r \in {0, 1}
          PROVE  /\ Publication(id, r, f) \in Packet /\ Publication(id, r, f).id = id
                 /\ Publication(id, r, f) \in ToAck <=> r = 1
      <4>1. Publication(id, r, f).id = id
        BY DEF Publication
      <4> QED
        BY <3>2, <4>1, PacketsTyped, AckPackets
    <3>4. CASE q = 0 /\ toClient' = Append(toClient, Publication(0, 0, f)) /\ UNCHANGED unacked
      BY <3>3, <3>4
    <3>5. ASSUME NEW id \in MsgIds \ unacked, q # 0,
                 toClient' = Append(toClient, Publication(id, q, f)), unacked' = unacked \cup {id}
          PROVE  \E p \in Packet :
                   /\ toClient' = Append(toClient, p)
                   /\ p \in ToAck /\ p.id \notin unacked /\ unacked' = unacked \cup {p.id}
      BY <3>2, <3>3, <3>5
    <3> QED
      BY <3>1, <3>4, <3>5
  <2> QED
    BY <2>1, <2>2
<1>3. /\ Balanced(unacked, Ids(toClient, ToAck), InCallback, dropped, Ids(toBroker, PubAck))
      /\ Once(toClient, ToAck) /\ Once(toBroker, PubAck)
      /\ \A q \in Members(toBroker) : q.type # "PUBCOMP"
  BY <1>1, AckInvIs
<1>4. p \in ToAck => p.id \notin Ids(toClient, ToAck)
  BY <1>2, <1>3 DEF Balanced
<1>5. /\ Once(toClient', ToAck)
      /\ Ids(toClient', ToAck) = IF p \in ToAck THEN Ids(toClient, ToAck) \cup {p.id} ELSE Ids(toClient, ToAck)
  BY <1>1, <1>2, <1>3, <1>4, IdsOfAppend
<1>6. Balanced(unacked', Ids(toClient', ToAck), InCallback, dropped, Ids(toBroker, PubAck))
  BY <1>2, <1>3, <1>5 DEF Balanced
<1> QED
  BY <1>1, <1>3, <1>5, <1>6, AckInvIsNext

\* The broker takes a packet: only an acknowledgement settles a publication.
LEMMA BrokerReceiveKeepsAcks ==
  ASSUME TypeOK, TypeOK', AckInv, BrokerReceive, UNCHANGED clientVars
  PROVE  AckInv'
<1> SUFFICES ASSUME tcp' = "open" PROVE AckInv'
  BY AckInvIsNext
<1> DEFINE h == Head(toBroker)
<1>1. /\ UNCHANGED <<tcp, hung, dropped>> /\ InCallback' = InCallback
      /\ toClient \in Seq(Packet) /\ toBroker \in Seq(Packet) /\ tcp = "open" /\ ~hung
      /\ toBroker # <<>> /\ toBroker' = Tail(toBroker)
      /\ \/ /\ h.type = "CONNECT" /\ unacked' = unacked
            /\ \E rc \in {0} \cup RefusalCodes : toClient' = Append(toClient, ConnAck(rc))
         \/ /\ toClient' = toClient \o Reply(h)
            /\ unacked' = IF h.type \in {"PUBACK", "PUBCOMP"} THEN unacked \ {h.id} ELSE unacked
  BY DEF BrokerReceive, Drop, clientVars, InCallback, TypeOK, LinkTypeOK
<1>2. h \in Packet /\ h \in Members(toBroker) /\ Members(toBroker') \subseteq Members(toBroker)
  BY <1>1, HeadTailProperties, MembersOfTail
<1>3. /\ Balanced(unacked, Ids(toClient, ToAck), InCallback, dropped, Ids(toBroker, PubAck))
      /\ Once(toClient, ToAck) /\ Once(toBroker, PubAck)
      /\ \A q \in Members(toBroker) : q.type # "PUBCOMP"
  BY <1>1, AckInvIs
<1>4. /\ Once(toBroker', PubAck)
      /\ Ids(toBroker', PubAck) = IF h \in PubAck THEN Ids(toBroker, PubAck) \ {h.id} ELSE Ids(toBroker, PubAck)
      /\ h \in PubAck => h.id \in Ids(toBroker, PubAck)
  BY <1>1, <1>3, IdsOfTail
<1>5. h \in PubAck <=> h.type = "PUBACK"
  BY <1>2 DEF PubAck
<1>6. \E r \in Seq(Packet) : toClient' = toClient \o r /\ \A p \in Members(r) : p \notin ToAck
  <2>1. ASSUME NEW p \in Packet, p \notin ToAck
        PROVE  <<p>> \in Seq(Packet) /\ \A m \in Members(<<p>>) : m \notin ToAck
    BY <2>1, MembersOfOne
  <2>2. ASSUME NEW rc \in {0} \cup RefusalCodes, toClient' = Append(toClient, ConnAck(rc))
        PROVE  \E r \in Seq(Packet) : toClient' = toClient \o r /\ \A p \in Members(r) : p \notin ToAck
    <3>1. ConnAck(rc) \in Packet /\ ConnAck(rc) \notin ToAck
      BY PacketsTyped, AckPackets, LinkConstants
    <3>2. toClient' = toClient \o <<ConnAck(rc)>>
      BY <1>1, <2>2, <3>1, AppendIsConcat
    <3> QED
      BY <2>1, <3>1, <3>2
  <2>3. Reply(h) \in Seq(Packet) /\ \A p \in Members(Reply(h)) : p \notin ToAck
    <3>1. \/ Reply(h) = <<>> \/ Reply(h) = <<Ctl("PINGRESP")>>
          \/ \E t \in {"SUBACK", "UNSUBACK", "PUBACK", "PUBREC", "PUBCOMP", "PUBREL"} :
               Reply(h) = <<WithId(t, h.id)>>
      BY DEF Reply
    <3>2. Ctl("PINGRESP") \in Packet /\ Ctl("PINGRESP") \notin ToAck
      BY PacketsTyped, AckPackets DEF PacketTypes
    <3>3. \A t \in {"SUBACK", "UNSUBACK", "PUBACK", "PUBREC", "PUBCOMP", "PUBREL"} :
            WithId(t, h.id) \in Packet /\ WithId(t, h.id) \notin ToAck
      <4>1. h.id \in Nat
        BY <1>2 DEF Packet
      <4> QED
        BY <4>1, PacketsTyped, AckPackets DEF PacketTypes
    <3>4. <<>> \in Seq(Packet) /\ \A p \in Members(<<>>) : p \notin ToAck
      BY MembersOfEmpty
    <3> QED
      BY <2>1, <3>1, <3>2, <3>3, <3>4
  <2> QED
    BY <1>1, <2>2, <2>3
<1>7. Once(toClient', ToAck) /\ Ids(toClient', ToAck) = Ids(toClient, ToAck)
  BY <1>1, <1>3, <1>6, IdsOfConcat
<1> HIDE DEF h
<1>8. Balanced(unacked', Ids(toClient', ToAck), InCallback, dropped, Ids(toBroker', PubAck))
  <2>1. unacked' = IF h \in PubAck THEN unacked \ {h.id} ELSE unacked
    BY <1>1, <1>2, <1>3, <1>5
  <2> QED
    BY <1>3, <1>4, <1>7, <2>1 DEF Balanced
<1> QED
  BY <1>1, <1>2, <1>3, <1>4, <1>7, <1>8, AckInvIsNext

LEMMA AckInvariant ==
  ASSUME ClientQos
  PROVE  Spec => []AckInv
<1>1. Init => AckInv
  BY DEF Init, LinkInit, AckInv
<1>2. TypeOK /\ TypeOK' /\ PingInv /\ AckInv /\ [Next]_vars => AckInv'
  <2> SUFFICES ASSUME TypeOK, TypeOK', PingInv, AckInv, [Next]_vars PROVE AckInv'
    OBVIOUS
  <2>1. CASE tcp' # "open" \/ hung'
    BY <2>1, AckInvIsNext
  <2>2. CASE UNCHANGED vars
    <3>1. UNCHANGED <<tcp, hung, unacked, dropped, toClient, toBroker>> /\ InCallback' = InCallback
      BY <2>2 DEF vars, linkVars, clientVars, InCallback
    <3> QED
      BY <3>1, AcksKept, AckInvIs
  <2>3. Stop => tcp' # "open"
    BY DEF Stop
  <2>4. CASE CallOffline \/ ConnectFails
    BY <2>1, <2>3, <2>4 DEF CallOffline, ConnectFails, NoticeLoss, TcpConnected, linkVars
  <2>5. CASE ConnectTimesOut \/ ConnectGivesUpOnTorn \/ LoopTimesOut \/ Disconnect
    BY <2>1, <2>3, <2>5 DEF ConnectTimesOut, ConnectGivesUpOnTorn, LoopTimesOut, Disconnect
  <2>6. CASE Network
    BY <2>1, <2>6, BrokerReceiveKeepsAcks, BrokerPublishKeepsAcks
       DEF Network, LinkNext, BrokerHangs, LinkDown, Drop
  <2> QED
    BY <2>2, <2>4, <2>5, <2>6, ConnectKeepsAcks, LoopKeepsAcks, CallsKeepAcks, CallbackKeepsAcks
       DEF Next, Proceed
<1> QED
  BY <1>1, <1>2, TypeCorrect, PingInvariant, PTL DEF Spec

\* A QoS 1 publication is acknowledged once, with its own id and only after its
\* callback (loop()), for a broker that keeps to the qualities of service that
\* subscribe() lets the client ask for.
THEOREM AcksAreConserved ==
  ASSUME ClientQos
  PROVE  Spec => []AckConservation
<1>1. TypeOK /\ AckInv => AckConservation
  BY AckInvSuffices
<1>2. Spec => []AckInv
  BY AckInvariant
<1> QED
  BY <1>1, <1>2, TypeCorrect, PTL

----------------------------------------------------------------------------
(* The broker is not left without a packet for long (SilenceBounded).      *)

\* While nothing is on its way to the broker its silence is no longer than the
\* time since the client's last write, which loop() bounds.
SilenceInv ==
  /\ session = "awaiting" /\ ~hung =>
       pc = "awaitAck" /\ toClient = <<>> /\ toBroker # <<>> /\ Tail(toBroker) = <<>>
  /\ session = "accepted" /\ ~hung =>
       /\ tcp = "open"
       /\ pc \in {"app", "callback", "awaitAck"}
       /\ pc = "awaitAck" => toClient # <<>> /\ toBroker = <<>> /\ silence = 0
       /\ pc = "app" => waited <= MaxGap
       /\ pc = "callback" => waited <= CallbackTime
       /\ brokerBusy <= BrokerDelay
       /\ toBroker = <<>> =>
            /\ silence <= outAge \/ outAge > KeepAlive
            /\ pc = "app" => silence <= KeepAlive + CallbackTime + waited
            /\ pc = "callback" => silence <= KeepAlive + waited
       /\ toBroker # <<>> => silence <= KeepAlive + MaxGap + CallbackTime + brokerBusy

LEMMA Periods ==
  /\ KeepAlive \in Nat /\ MaxGap \in Nat /\ CallbackTime \in Nat /\ BrokerDelay \in Nat
  /\ SocketTimeout \in Nat /\ AgeCap \in Nat /\ AgeCap > KeepAlive
  /\ WaitCap >= MaxGap /\ WaitCap >= CallbackTime /\ WaitCap \in Nat /\ SilenceCap \in Nat
BY ClientAssumption, LinkAssumption DEF ClientAssumption, LinkAssumption, AgeCap, WaitCap

LEMMA TimesTyped ==
  ASSUME TypeOK
  PROVE  /\ silence \in Nat /\ outAge \in Nat /\ inAge \in Nat /\ waited \in Nat /\ brokerBusy \in Nat
         /\ outAge <= AgeCap /\ inAge <= AgeCap
BY Periods DEF TypeOK, LinkTypeOK

\* A connection that is given up, or begun, owes nothing.
LEMMA EndsSilence ==
  ASSUME session' \notin {"awaiting", "accepted"} \/ hung'
  PROVE  SilenceInv'
BY DEF SilenceInv

LEMMA TickKeepsSilence ==
  ASSUME TypeOK, SilenceInv, Tick
  PROVE  SilenceInv'
<1>1. /\ UNCHANGED <<tcp, toClient, toBroker, session, hung, pc>>
      /\ ~Overdue /\ ~BrokerOverdue
      /\ outAge' = Older(outAge)
      /\ waited' = IF waited < WaitCap THEN waited + 1 ELSE waited
      /\ brokerBusy' = IF tcp = "open" /\ ~hung /\ toBroker # <<>> THEN brokerBusy + 1 ELSE 0
      /\ silence' = IF tcp = "open" /\ silence < SilenceCap THEN silence + 1 ELSE silence
  BY DEF Tick, LinkTick
<1> SUFFICES ASSUME session = "accepted", ~hung PROVE SilenceInv'
  BY <1>1 DEF SilenceInv
<1>2. silence' \in {silence, silence + 1} /\ outAge' \in {outAge + 1, AgeCap}
  BY <1>1, TimesTyped, Periods DEF Older
<1>3. pc \in {"app", "callback"}
  BY <1>1 DEF SilenceInv, Overdue
<1>4. /\ pc = "app" => waited < MaxGap
      /\ pc = "callback" => waited < CallbackTime
  BY <1>1, TimesTyped, Periods DEF Overdue
<1>5. waited' = waited + 1
  BY <1>1, <1>3, <1>4, TimesTyped, Periods
<1>6. IF toBroker = <<>> THEN brokerBusy' = 0 ELSE brokerBusy' = brokerBusy + 1 /\ brokerBusy < BrokerDelay
  BY <1>1, TimesTyped, Periods DEF BrokerOverdue, SilenceInv
<1>7. toBroker = <<>> =>
        /\ silence' <= outAge' \/ outAge' > KeepAlive
        /\ pc = "app" => silence' <= KeepAlive + CallbackTime + waited'
        /\ pc = "callback" => silence' <= KeepAlive + waited'
  <2> SUFFICES ASSUME toBroker = <<>>
               PROVE  /\ silence' <= outAge' \/ outAge' > KeepAlive
                      /\ pc = "app" => silence' <= KeepAlive + CallbackTime + waited'
                      /\ pc = "callback" => silence' <= KeepAlive + waited'
    OBVIOUS
  <2>1. /\ silence <= outAge \/ outAge > KeepAlive
        /\ pc = "app" => silence <= KeepAlive + CallbackTime + waited
        /\ pc = "callback" => silence <= KeepAlive + waited
    BY DEF SilenceInv
  <2>2. silence' <= outAge' \/ outAge' > KeepAlive
    BY <1>2, <2>1, TimesTyped, Periods
  <2> QED
    BY <1>2, <1>5, <2>1, <2>2, TimesTyped, Periods
<1>8. toBroker # <<>> => silence' <= KeepAlive + MaxGap + CallbackTime + brokerBusy'
  BY <1>2, <1>6, TimesTyped, Periods DEF SilenceInv
<1>9. /\ brokerBusy' <= BrokerDelay
      /\ pc = "app" => waited' <= MaxGap
      /\ pc = "callback" => waited' <= CallbackTime
  BY <1>4, <1>5, <1>6, TimesTyped, Periods
<1> QED
  BY <1>1, <1>3, <1>7, <1>8, <1>9 DEF SilenceInv

\* loop() does not go on without a write once the last one is KeepAlive old.
LEMMA LoopKeepsSilence ==
  ASSUME TypeOK, PingInv, SilenceInv, Loop
  PROVE  SilenceInv'
<1> DEFINE sent == IF KeepaliveDue THEN <<Ctl("PINGREQ")>> ELSE <<>>
<1>1. /\ UNCHANGED <<tcp, session, hung, brokerBusy, silence>> /\ pc = "app"
  BY DEF Loop
<1> SUFFICES ASSUME session = "accepted", ~hung PROVE SilenceInv'
  BY <1>1 DEF SilenceInv
<1>2. tcp = "open" /\ toClient \in Seq(Packet) /\ toBroker \in Seq(Packet)
  BY DEF SilenceInv, TypeOK, LinkTypeOK
<1>3. toClient # <<>> => ~Head(toClient).cut
  BY <1>2, MembersOfTail DEF PingInv
<1>4. /\ pc' \in {"app", "callback"} /\ waited' = 0
      /\ toBroker' \in {Sent(sent), Sent(sent \o <<Ctl("PINGRESP")>>)}
      /\ outAge' = IF KeepaliveDue THEN 0 ELSE outAge
  BY <1>3 DEF Loop, LoopReads, LoopEnds
<1>5. toBroker' = <<>> => toBroker = <<>> /\ ~KeepaliveDue
  <2>1. /\ <<Ctl("PINGREQ")>> \in Seq(Packet) /\ <<Ctl("PINGRESP")>> \in Seq(Packet)
        /\ <<>> \in Seq(Packet)
    <3>1. Ctl("PINGREQ") \in Packet /\ Ctl("PINGRESP") \in Packet
      BY PacketsTyped DEF PacketTypes
    <3> QED
      BY <3>1
  <2>2. ASSUME NEW r \in Seq(Packet), NEW s \in Seq(Packet), r \o s = <<>>
        PROVE  r = <<>> /\ s = <<>>
    BY <2>2, ConcatProperties, EmptySeq, LenProperties
  <2>3. sent \in Seq(Packet) /\ (KeepaliveDue => sent # <<>>)
    BY <2>1
  <2> HIDE DEF sent
  <2>4. sent \o <<Ctl("PINGRESP")>> \in Seq(Packet)
    BY <2>1, <2>3, ConcatProperties
  <2>5. PICK r \in {sent, sent \o <<Ctl("PINGRESP")>>} : toBroker' = toBroker \o r
    BY <1>1, <1>2, <1>4 DEF Sent
  <2>6. toBroker' = <<>> => toBroker = <<>> /\ r = <<>>
    BY <1>2, <2>2, <2>3, <2>4, <2>5
  <2>7. r = <<>> => sent = <<>>
    BY <2>1, <2>2, <2>3, <2>5
  <2> QED
    BY <2>3, <2>6, <2>7
<1>6. ~KeepaliveDue => outAge <= KeepAlive
  BY TimesTyped, Periods DEF KeepaliveDue
<1>7. toBroker' = <<>> => silence <= outAge' /\ silence <= KeepAlive
  BY <1>4, <1>5, <1>6, TimesTyped, Periods DEF SilenceInv
<1>8. silence <= KeepAlive + MaxGap + CallbackTime + brokerBusy
  BY <1>1, TimesTyped, Periods DEF SilenceInv
<1> QED
  BY <1>1, <1>2, <1>4, <1>7, <1>8, TimesTyped, Periods DEF SilenceInv
\* Writes outside loop() put something on its way to the broker.
LEMMA WritesKeepSilence ==
  ASSUME TypeOK, SilenceInv, Publish \/ Subscribe \/ Unsubscribe \/ CallbackReturns
  PROVE  SilenceInv'
<1>1. /\ UNCHANGED <<tcp, toClient, session, hung, brokerBusy, silence>>
      /\ pc \in {"app", "callback"} /\ pc' \in {"app", "callback"}
      /\ \/ pc' = pc /\ waited' = waited
         \/ pc = "callback" /\ pc' = "app" /\ waited' = 0
      /\ \/ \E p \in Packet : toBroker' = Sent(<<p>>)
         \/ pc' # pc /\ toBroker' = toBroker /\ outAge' = outAge
  <2>1. CASE Publish
    <3>1. Publication(0, 0, TRUE) \in Packet
      BY DEF Publication, Packet, PacketTypes
    <3> QED
      BY <2>1, <3>1 DEF Publish, CanCall
  <2>2. ASSUME NEW t \in {"SUBSCRIBE", "UNSUBSCRIBE"}, Request(t)
        PROVE  /\ UNCHANGED <<tcp, toClient, session, hung, brokerBusy, silence, pc, waited>>
               /\ pc \in {"app", "callback"} /\ \E p \in Packet : toBroker' = Sent(<<p>>)
    <3>1. NextId \in Nat
      BY NextIdTyped, ClientAssumption DEF TypeOK, ClientAssumption
    <3>2. WithId(t, NextId) \in Packet
      BY <3>1, PacketsTyped DEF PacketTypes
    <3> QED
      BY <2>2, <3>2 DEF Request, CanCall
  <2>3. CASE CallbackReturns
    <3>1. WithId("PUBACK", AckId) \in Packet
      <4>1. AckId \in Nat
        BY DEF AckId, TypeOK, Packet
      <4> QED
        BY <4>1, PacketsTyped DEF PacketTypes
    <3> QED
      BY <2>3, <3>1 DEF CallbackReturns
  <2> QED
    BY <2>1, <2>2, <2>3 DEF Subscribe, Unsubscribe
<1> SUFFICES ASSUME session = "accepted", ~hung PROVE SilenceInv'
  BY <1>1 DEF SilenceInv
<1>2. tcp = "open" /\ toBroker \in Seq(Packet)
  BY DEF SilenceInv, TypeOK, LinkTypeOK
<1>3. silence <= KeepAlive + MaxGap + CallbackTime + brokerBusy
  BY <1>1, TimesTyped, Periods DEF SilenceInv
<1>4. /\ brokerBusy <= BrokerDelay
      /\ pc' = "app" => waited' <= MaxGap
      /\ pc' = "callback" => waited' <= CallbackTime
  BY <1>1, Periods DEF SilenceInv
<1>5. CASE \E p \in Packet : toBroker' = Sent(<<p>>)
  <2>1. toBroker' # <<>>
    <3>1. PICK p \in Packet : toBroker' = Append(toBroker, p)
      BY <1>2, <1>5, AppendIsConcat DEF Sent, SilenceInv
    <3> QED
      BY <1>2, <3>1, AppendProperties
  <2> QED
    BY <1>1, <1>2, <1>3, <1>4, <2>1 DEF SilenceInv
<1>6. CASE pc' # pc /\ toBroker' = toBroker /\ outAge' = outAge
  <2>1. toBroker = <<>> => silence <= KeepAlive + CallbackTime + waited'
    <3>1. pc = "callback" /\ waited' = 0 /\ waited <= CallbackTime
      BY <1>1, <1>6 DEF SilenceInv
    <3> QED
      BY <3>1, TimesTyped, Periods DEF SilenceInv
  <2> QED
    BY <1>1, <1>2, <1>3, <1>4, <1>6, <2>1 DEF SilenceInv
<1> QED
  BY <1>1, <1>5, <1>6

LEMMA BrokerKeepsSilence ==
  ASSUME TypeOK, SilenceInv, LinkNext, UNCHANGED clientVars
  PROVE  SilenceInv'
<1>0. UNCHANGED <<pc, waited, outAge>> /\ toClient \in Seq(Packet) /\ toBroker \in Seq(Packet)
  BY DEF clientVars, TypeOK, LinkTypeOK
<1>1. CASE BrokerHangs \/ LinkDown
  BY <1>1, EndsSilence DEF BrokerHangs, LinkDown, Drop
<1>2. CASE BrokerPublish \/ BrokerPing
  <2>1. /\ session = "accepted" /\ ~hung
        /\ UNCHANGED <<tcp, toBroker, session, hung, brokerBusy, silence>>
    BY <1>2 DEF BrokerPublish, BrokerPing
  <2>2. toClient' # <<>>
    <3>1. PICK p \in Packet : toClient' = Append(toClient, p)
      <4>1. \A id \in Nat, q \in BrokerQos, f \in BrokerFits : Publication(id, q, f) \in Packet
        BY PacketsTyped, LinkAssumption DEF LinkAssumption
      <4>2. Ctl("PINGREQ") \in Packet /\ MsgIds \subseteq Nat
        BY PacketsTyped, LinkAssumption DEF PacketTypes, LinkAssumption
      <4> QED
        BY <1>2, <4>1, <4>2 DEF BrokerPublish, BrokerPing
    <3> QED
      BY <1>0, <3>1, AppendProperties
  <2> QED
    BY <1>0, <2>1, <2>2 DEF SilenceInv
<1>3. CASE BrokerReceive
  <2> SUFFICES ASSUME session' = "accepted" PROVE SilenceInv'
    BY <1>3, EndsSilence DEF BrokerReceive, Drop
  <2>1. /\ tcp = "open" /\ ~hung /\ tcp' = tcp /\ hung' = hung
        /\ silence' = 0 /\ brokerBusy' = 0 /\ toBroker # <<>> /\ toBroker' = Tail(toBroker)
    BY <1>3 DEF BrokerReceive, Drop
  <2>2. silence' <= KeepAlive + MaxGap + CallbackTime + brokerBusy'
    BY <2>1, Periods
  <2>3. silence' <= outAge /\ silence' <= KeepAlive + CallbackTime + waited
        /\ silence' <= KeepAlive + waited /\ brokerBusy' <= BrokerDelay
    BY <2>1, TimesTyped, Periods
  <2>4. CASE session = "awaiting"
    <3>1. PICK rc \in {0} \cup RefusalCodes : toClient' = Append(toClient, ConnAck(rc))
      BY <1>3, <2>4, <2>1 DEF BrokerReceive, Drop
    <3>2. toClient' # <<>>
      <4>1. ConnAck(rc) \in Packet
        BY PacketsTyped, LinkConstants
      <4> QED
        BY <1>0, <3>1, <4>1, AppendProperties
    <3> QED
      BY <1>0, <2>1, <2>4, <2>2, <2>3, <3>2 DEF SilenceInv
  <2>5. CASE session = "accepted"
    BY <1>0, <2>1, <2>5, <2>2, <2>3 DEF SilenceInv
  <2> QED
    BY <1>3, <2>4, <2>5 DEF BrokerReceive, Drop
<1> QED
  BY <1>1, <1>2, <1>3 DEF LinkNext

LEMMA ConnectKeepsSilence ==
  ASSUME TypeOK, PingInv, SilenceInv,
         ConnectOpens \/ ConnectAnswered \/ ConnectReadsTorn \/ LoopGivesUpOnTorn
  PROVE  SilenceInv'
<1>0. toClient \in Seq(Packet)
  BY DEF TypeOK, LinkTypeOK
<1>1. CASE ConnectOpens
  <2> DEFINE c == Ctl("CONNECT")
  <2>1. c \in Packet
    BY PacketsTyped DEF PacketTypes
  <2>2. session' = "awaiting" /\ pc' = "awaitAck" /\ toClient' = <<>> /\ toBroker' = <<c>>
    BY <1>1 DEF ConnectOpens, OpenWith
  <2> HIDE DEF c
  <2>3. toBroker' # <<>> /\ Tail(toBroker') = <<>>
    BY <2>1, <2>2
  <2> QED
    BY <2>2, <2>3 DEF SilenceInv
<1>2. CASE ConnectReadsTorn
  <2>1. tcp # "open" /\ UNCHANGED <<tcp, session, hung>> /\ toClient # <<>>
    BY <1>0, <1>2, MembersOfTail DEF ConnectReadsTorn, PingInv
  <2> QED
    BY <2>1, EndsSilence DEF SilenceInv
<1>3. CASE ConnectAnswered
  <2> SUFFICES ASSUME session' = "accepted", ~hung' PROVE SilenceInv'
    BY <1>3, EndsSilence DEF ConnectAnswered, Stop, SilenceInv
  <2>1. /\ UNCHANGED <<tcp, toBroker, session, hung, brokerBusy, silence, outAge>>
        /\ pc = "awaitAck" /\ pc' = "app" /\ waited' = 0
    BY <1>3 DEF ConnectAnswered, Stop
  <2>2. silence = 0 /\ toBroker = <<>> /\ brokerBusy <= BrokerDelay /\ tcp = "open"
    BY <2>1 DEF SilenceInv
  <2>3. silence <= outAge /\ silence <= KeepAlive + CallbackTime + waited' /\ waited' <= MaxGap
    BY <2>1, <2>2, TimesTyped, Periods
  <2> QED
    BY <2>1, <2>2, <2>3 DEF SilenceInv
<1>4. CASE LoopGivesUpOnTorn
  BY <1>4, EndsSilence DEF LoopGivesUpOnTorn, linkVars, SilenceInv
<1> QED
  BY <1>1, <1>2, <1>3, <1>4

LEMMA SilenceInvariant == Spec => []SilenceInv
<1>1. Init => SilenceInv
  BY DEF Init, LinkInit, SilenceInv
<1>2. TypeOK /\ PingInv /\ SilenceInv /\ [Next]_vars => SilenceInv'
  <2> SUFFICES ASSUME TypeOK, PingInv, SilenceInv, [Next]_vars PROVE SilenceInv'
    OBVIOUS
  <2>1. CASE UNCHANGED vars
    BY <2>1 DEF vars, linkVars, clientVars, SilenceInv
  <2>2. Stop => SilenceInv'
    BY EndsSilence DEF Stop
  <2>3. CASE CallOffline \/ ConnectFails
    <3>1. Stop \/ (UNCHANGED <<linkVars>> /\ ~TcpConnected)
      BY <2>3 DEF CallOffline, ConnectFails, NoticeLoss
    <3>2. ~TcpConnected => session # "accepted" \/ hung
      BY DEF TcpConnected, SilenceInv
    <3>3. session = "awaiting" /\ ~hung => ~CanCall
      BY DEF SilenceInv, CanCall
    <3>4. CanCall
      BY <2>3 DEF CallOffline, ConnectFails, CanCall
    <3> QED
      BY <2>2, <3>1, <3>2, <3>3, <3>4, EndsSilence DEF linkVars
  <2>4. CASE ConnectTimesOut \/ ConnectGivesUpOnTorn \/ LoopTimesOut \/ Disconnect
    BY <2>2, <2>4 DEF ConnectTimesOut, ConnectGivesUpOnTorn, LoopTimesOut, Disconnect
  <2>5. CASE Network
    BY <2>5, BrokerKeepsSilence DEF Network
  <2> QED
    BY <2>1, <2>3, <2>4, <2>5, ConnectKeepsSilence, LoopKeepsSilence, WritesKeepSilence,
       TickKeepsSilence DEF Next, Proceed
<1> QED
  BY <1>1, <1>2, TypeCorrect, PingInvariant, PTL DEF Spec

\* The keepalive works: a broker that is not hung never goes without a packet for
\* longer than the keepalive period and what one round of the application and
\* one packet of the broker take (loop(), publish(), subscribe()).
THEOREM SilenceIsBounded == Spec => []SilenceBounded
<1>1. TypeOK /\ SilenceInv => SilenceBounded
  <2> SUFFICES ASSUME TypeOK, SilenceInv, session = "accepted", ~hung
               PROVE  silence <= KeepAlive + MaxGap + CallbackTime + BrokerDelay
    BY DEF SilenceBounded
  <2>1. CASE toBroker # <<>>
    BY <2>1, TimesTyped, Periods DEF SilenceInv
  <2>2. CASE toBroker = <<>>
    BY <2>2, TimesTyped, Periods DEF SilenceInv
  <2> QED
    BY <2>1, <2>2
<1> QED
  BY <1>1, TypeCorrect, SilenceInvariant, PTL

----------------------------------------------------------------------------
(* Only a hung broker is given up on (OnlyHungIsDropped).  A ping and its     *)
(* answer each pass one queue, the broker takes a packet off its own within   *)
(* BrokerDelay and loop() one off the other within a round of the             *)
(* application, so the age of a ping is bounded by the places it still has to *)
(* pass.                                                                      *)

\* Packets that can be on their way at once, the ping and an owed PUBACK included.
Most  == QueueCap + 2
Round == MaxGap + CallbackTime

\* What the keepalive period has to leave room for.
Patience == KeepAlive >= Most * (BrokerDelay + Round)

Standing == state = "Connected" /\ tcp = "open" /\ ~hung

Held == IF pc = "callback" /\ current.qos = 1 THEN 1 ELSE 0
Owed == IF state = "Connected" /\ pingOutstanding THEN 1 ELSE 0

\* The queues do not grow beyond their bound by more than a write of loop().
RoomInv ==
  tcp = "open" /\ ~hung => Len(toClient) + Len(toBroker) + Held <= QueueCap + 1 + Owed

\* The age a ping has at most when its request, or its answer, is about to be
\* number i in its queue.
AtBroker(i) == (Most - i) * BrokerDelay
AtClient(i) == AtBroker(0) + (Most - i) * Round

\* What the current round of the application has taken.
Elapsed == IF pc = "callback" THEN waited ELSE CallbackTime + waited

Young(age) == inAge <= age /\ outAge <= age

AgeInv ==
  Standing =>
    /\ \A i \in DOMAIN toBroker : toBroker[i].type = "PINGREQ" => Young(AtBroker(i) + brokerBusy)
    /\ \A i \in DOMAIN toClient : toClient[i].type = "PINGRESP" => Young(AtClient(i) + Elapsed)

LEMMA Products ==
  ASSUME NEW m \in Nat, NEW i \in 1..m, NEW d \in Nat
  PROVE  /\ (m - i) * d \in Nat
         /\ (m - (i - 1)) * d = (m - i) * d + d
         /\ (m - i) * d + d <= (m - 0) * d
<1>1. \A a \in Nat, b \in Nat : a * b \in Nat
  OBVIOUS
<1>2. PICK k \in Nat : k = m - i
  OBVIOUS
<1>3. m - (i - 1) = k + 1 /\ m - 0 = (k + 1) + (i - 1) /\ i - 1 \in Nat
  BY <1>2
<1>4. (k + 1) * d = k * d + d
  BY SMT
<1>5. ((k + 1) + (i - 1)) * d = (k + 1) * d + (i - 1) * d
  BY SMT
<1>6. k * d \in Nat /\ (i - 1) * d \in Nat
  BY <1>1, <1>3
<1> HIDE <1>2
<1> DEFINE x == k * d
           z == (i - 1) * d
<1>7. x \in Nat /\ z \in Nat /\ (k + 1) * d = x + d /\ ((k + 1) + (i - 1)) * d = (x + d) + z
  BY <1>4, <1>5, <1>6
<1> QED
  BY <1>2, <1>3, <1>7

LEMMA Deadlines ==
  /\ Most \in Nat /\ Round \in Nat /\ BrokerDelay \in Nat /\ MaxGap \in Nat /\ CallbackTime \in Nat
  /\ AtBroker(0) \in Nat
  /\ \A i \in 1..Most : /\ AtBroker(i) \in Nat /\ AtClient(i) \in Nat
                        /\ AtBroker(i - 1) = AtBroker(i) + BrokerDelay
                        /\ AtClient(i - 1) = AtClient(i) + Round
                        /\ AtBroker(0) <= AtClient(i)
                        /\ AtBroker(i) + BrokerDelay <= AtBroker(0)
                        /\ AtClient(i) + Round <= AtBroker(0) + Most * Round
<1>1. /\ Most \in Nat /\ Most # 0 /\ Round \in Nat
      /\ BrokerDelay \in Nat /\ MaxGap \in Nat /\ CallbackTime \in Nat
  BY Periods, LinkAssumption DEF Most, Round, LinkAssumption
<1>2. ASSUME NEW d \in Nat
      PROVE  Most * d \in Nat /\ (Most - 0) * d = Most * d
  BY <1>1
<1>3. AtBroker(0) \in Nat
  BY <1>1, <1>2 DEF AtBroker
<1>4. ASSUME NEW i \in 1..Most
      PROVE  /\ AtBroker(i) \in Nat /\ AtBroker(i - 1) = AtBroker(i) + BrokerDelay
             /\ AtBroker(i) + BrokerDelay <= AtBroker(0)
  BY <1>1, Products DEF AtBroker
<1>5. ASSUME NEW i \in 1..Most
      PROVE  /\ AtClient(i) \in Nat /\ AtClient(i - 1) = AtClient(i) + Round
             /\ AtBroker(0) <= AtClient(i)
             /\ AtClient(i) + Round <= AtBroker(0) + Most * Round
  <2> DEFINE x == (Most - i) * Round
             y == (Most - (i - 1)) * Round
             z == Most * Round
             b == AtBroker(0)
  <2>1. x \in Nat /\ y = x + Round /\ x + Round <= z /\ z \in Nat
    BY <1>1, <1>2, Products
  <2>2. AtClient(i) = b + x /\ AtClient(i - 1) = b + y
    BY DEF AtClient
  <2> HIDE DEF x, y, z, b
  <2>3. b \in Nat
    BY <1>3 DEF b
  <2>4. /\ AtClient(i) \in Nat /\ AtClient(i - 1) = AtClient(i) + Round
        /\ b <= AtClient(i) /\ AtClient(i) + Round <= b + z
    BY <1>1, <2>1, <2>2, <2>3
  <2> QED
    BY <2>4 DEF b, z
<1> QED
  BY <1>1, <1>3, <1>4, <1>5

LEMMA LengthsOf ==
  ASSUME NEW q \in Seq(Packet)
  PROVE  /\ Len(q) \in Nat /\ DOMAIN q = 1..Len(q)
         /\ q # <<>> => /\ Len(q) >= 1 /\ Tail(q) \in Seq(Packet) /\ Len(Tail(q)) = Len(q) - 1
                        /\ \A i \in DOMAIN Tail(q) : i + 1 \in DOMAIN q /\ Tail(q)[i] = q[i + 1]
         /\ \A r \in Seq(Packet) : q \o r \in Seq(Packet) /\ Len(q \o r) = Len(q) + Len(r)
         /\ \A p \in Packet : Append(q, p) \in Seq(Packet) /\ Len(Append(q, p)) = Len(q) + 1
<1>1. Len(q) \in Nat /\ DOMAIN q = 1..Len(q)
  BY LenProperties
<1>2. ASSUME q # <<>>
      PROVE  /\ Len(q) >= 1 /\ Tail(q) \in Seq(Packet) /\ Len(Tail(q)) = Len(q) - 1
             /\ \A i \in DOMAIN Tail(q) : i + 1 \in DOMAIN q /\ Tail(q)[i] = q[i + 1]
  <2>1. /\ Tail(q) \in Seq(Packet) /\ Len(Tail(q)) = Len(q) - 1
        /\ \A i \in 1..(Len(q) - 1) : Tail(q)[i] = q[i + 1]
    BY <1>2, HeadTailProperties
  <2>2. Len(q) >= 1
    BY <1>1, <1>2, EmptySeq
  <2>3. DOMAIN Tail(q) = 1..(Len(q) - 1)
    BY <2>1, LenProperties
  <2> QED
    BY <1>1, <2>1, <2>2, <2>3
<1> QED
  BY <1>1, <1>2, ConcatProperties, AppendProperties

\* What is behind a queue when a packet is added keeps its place.
LEMMA PlacesOfAppend ==
  ASSUME NEW q \in Seq(Packet), NEW p \in Packet, NEW i \in DOMAIN Append(q, p)
  PROVE  \/ i \in DOMAIN q /\ Append(q, p)[i] = q[i]
         \/ i = Len(q) + 1 /\ Append(q, p)[i] = p
<1>1. /\ Len(q) \in Nat /\ DOMAIN q = 1..Len(q) /\ Append(q, p) \in Seq(Packet)
      /\ Len(Append(q, p)) = Len(q) + 1
      /\ \A j \in 1..Len(q) : Append(q, p)[j] = q[j]
      /\ Append(q, p)[Len(q) + 1] = p
  BY LenProperties, AppendProperties
<1>2. i \in 1..(Len(q) + 1)
  BY <1>1, LenProperties
<1> QED
  BY <1>1, <1>2

LEMMA Room ==
  ASSUME TypeOK
  PROVE  /\ toClient \in Seq(Packet) /\ toBroker \in Seq(Packet)
         /\ Len(toClient) \in Nat /\ Len(toBroker) \in Nat
         /\ Held \in {0, 1} /\ Owed \in {0, 1} /\ QueueCap \in Nat
BY LengthsOf, LinkAssumption DEF TypeOK, LinkTypeOK, Held, Owed, LinkAssumption

LEMMA RoomNext ==
  ASSUME TypeOK'
  PROVE  /\ toClient' \in Seq(Packet) /\ toBroker' \in Seq(Packet)
         /\ Len(toClient') \in Nat /\ Len(toBroker') \in Nat
         /\ Held' \in {0, 1} /\ Owed' \in {0, 1}
<1>1. toClient' \in Seq(Packet) /\ toBroker' \in Seq(Packet)
  BY DEF TypeOK, LinkTypeOK
<1>2. Held' \in {0, 1} /\ Owed' \in {0, 1}
  BY DEF Held, Owed
<1> QED
  BY <1>1, <1>2, LengthsOf

\* Steps that leave the queues no longer than before.
LEMMA RoomStays ==
  ASSUME TypeOK, TypeOK', RoomInv, tcp = "open", ~hung,
         Len(toClient') <= Len(toClient), Len(toBroker') <= Len(toBroker),
         Held' <= Held, Owed' >= Owed
  PROVE  RoomInv'
<1>1. /\ Len(toClient) \in Nat /\ Len(toBroker) \in Nat /\ Held \in {0, 1} /\ Owed \in {0, 1}
      /\ Len(toClient') \in Nat /\ Len(toBroker') \in Nat /\ Held' \in {0, 1} /\ Owed' \in {0, 1}
      /\ QueueCap \in Nat
  BY Room, RoomNext
<1>2. Len(toClient) + Len(toBroker) + Held <= QueueCap + 1 + Owed
  BY DEF RoomInv
<1>3. Len(toClient') + Len(toBroker') + Held' <= QueueCap + 1 + Owed'
  BY <1>1, <1>2
<1> QED
  BY <1>3 DEF RoomInv

\* What is sent while the queues are below their bound.
LEMMA RoomBelow ==
  ASSUME TypeOK, TypeOK', Len(toClient) + Len(toBroker) < QueueCap,
         Len(toClient') + Len(toBroker') <= Len(toClient) + Len(toBroker) + 1
  PROVE  RoomInv'
<1>1. /\ Len(toClient) \in Nat /\ Len(toBroker) \in Nat
      /\ Len(toClient') \in Nat /\ Len(toBroker') \in Nat /\ Held' \in {0, 1} /\ Owed' \in {0, 1}
      /\ QueueCap \in Nat
  BY Room, RoomNext
<1>2. Len(toClient') + Len(toBroker') + Held' <= QueueCap + 1 + Owed'
  BY <1>1
<1> QED
  BY <1>2 DEF RoomInv

\* What a write adds to a connection that stands.
LEMMA SentLength ==
  ASSUME TypeOK, tcp = "open", ~hung, NEW ps \in Seq(Packet)
  PROVE  Sent(ps) = toBroker \o ps /\ Len(Sent(ps)) = Len(toBroker) + Len(ps)
BY LengthsOf, Room DEF Sent

LEMMA OneLength ==
  ASSUME NEW p \in Packet
  PROVE  <<p>> \in Seq(Packet) /\ Len(<<p>>) = 1
OBVIOUS

LEMMA CallsKeepRoom ==
  ASSUME TypeOK, TypeOK', RoomInv, tcp = "open", ~hung,
         Publish \/ Subscribe \/ Unsubscribe \/ CallbackReturns \/ LoopGivesUpOnTorn \/ Tick
  PROVE  RoomInv'
<1>1. CASE Publish \/ Subscribe \/ Unsubscribe
  <2>1. PICK p \in Packet : toBroker' = Sent(<<p>>)
    <3>1. Publication(0, 0, TRUE) \in Packet
      BY DEF Publication, Packet, PacketTypes
    <3>2. NextId \in Nat
      BY NextIdTyped, ClientAssumption DEF TypeOK, ClientAssumption
    <3>3. WithId("SUBSCRIBE", NextId) \in Packet /\ WithId("UNSUBSCRIBE", NextId) \in Packet
      BY <3>2, PacketsTyped DEF PacketTypes
    <3> QED
      BY <1>1, <3>1, <3>3 DEF Publish, Subscribe, Unsubscribe, Request
  <2>2. toClient' = toClient /\ Len(toClient) + Len(toBroker) < QueueCap
    BY <1>1 DEF Publish, Subscribe, Unsubscribe, Request
  <2>3. Len(toBroker') = Len(toBroker) + 1
    BY <2>1, OneLength, SentLength
  <2>4. Len(toClient') + Len(toBroker') <= Len(toClient) + Len(toBroker) + 1
    BY <2>2, <2>3, Room
  <2> QED
    BY <2>2, <2>4, RoomBelow
<1>2. CASE CallbackReturns
  <2>1. /\ pc = "callback" /\ pc' = "app" /\ Held' = 0 /\ Owed' = Owed
        /\ UNCHANGED <<toClient, tcp, hung>>
    BY <1>2 DEF CallbackReturns, Held, Owed
  <2>2. Len(toBroker') = Len(toBroker) + Held
    <3>1. CASE AckWanted
      <4>1. WithId("PUBACK", AckId) \in Packet
        <5>1. AckId \in Nat
          BY DEF AckId, TypeOK, Packet
        <5> QED
          BY <5>1, PacketsTyped DEF PacketTypes
      <4>2. toBroker' = Sent(<<WithId("PUBACK", AckId)>>) /\ Held = 1
        BY <1>2, <2>1, <3>1 DEF CallbackReturns, AckWanted, Held
      <4> QED
        BY <4>1, <4>2, OneLength, SentLength
    <3>2. CASE ~AckWanted
      BY <1>2, <2>1, <3>2, Room DEF CallbackReturns, AckWanted, Held
    <3> QED
      BY <3>1, <3>2
  <2>3. Len(toClient) + Len(toBroker) + Held <= QueueCap + 1 + Owed
    BY DEF RoomInv
  <2>4. Len(toClient') + Len(toBroker') + Held' <= QueueCap + 1 + Owed'
    <3>1. Len(toClient') = Len(toClient)
      BY <2>1
    <3> QED
      BY <2>1, <2>2, <2>3, <3>1, Room
  <2> QED
    BY <2>4 DEF RoomInv
<1>3. CASE LoopGivesUpOnTorn \/ Tick
  <2>1. UNCHANGED <<toClient, toBroker, state, pingOutstanding, current>> /\ (pc' = pc \/ pc' = "app")
    BY <1>3 DEF LoopGivesUpOnTorn, Tick, LinkTick, linkVars
  <2>2. Owed' = Owed /\ Held' <= Held
    <3>1. Owed' = Owed /\ (Held' = Held \/ Held' = 0)
      BY <2>1 DEF Owed, Held
    <3> QED
      BY <3>1, Room
  <2>3. Len(toClient') <= Len(toClient) /\ Len(toBroker') <= Len(toBroker) /\ Owed' >= Owed
    BY <2>1, <2>2, Room
  <2> QED
    BY <2>2, <2>3, RoomStays
<1> QED
  BY <1>1, <1>2, <1>3

LEMMA OpeningKeepsRoom ==
  ASSUME TypeOK, TypeOK', AcceptanceInv, RoomInv, tcp' = "open", ~hung',
         ConnectOpens \/ ConnectAnswered \/ ConnectReadsTorn
  PROVE  RoomInv'
<1>1. CASE ConnectOpens
  <2>1. toClient' = <<>> /\ toBroker' = <<Ctl("CONNECT")>> /\ pc' = "awaitAck"
    BY <1>1 DEF ConnectOpens, OpenWith
  <2>2. Len(toClient') = 0 /\ Len(toBroker') = 1 /\ Held' = 0
    BY <2>1 DEF Held
  <2>3. Len(toClient') + Len(toBroker') + Held' <= QueueCap + 1 + Owed'
    <3>1. Owed' \in {0, 1} /\ QueueCap \in Nat
      BY Room, RoomNext
    <3>2. 1 <= QueueCap + 1 + Owed'
      <4>1. \A a \in Nat, b \in Nat : 1 <= a + 1 + b
        OBVIOUS
      <4>2. Owed' \in Nat
        BY <3>1
      <4> QED
        BY <3>1, <4>1, <4>2
    <3>3. Len(toClient') + Len(toBroker') + Held' = 1
      BY <2>2
    <3> QED
      BY <3>2, <3>3
  <2> QED
    BY <2>3 DEF RoomInv
<1>2. CASE ConnectAnswered \/ ConnectReadsTorn
  <2>1. /\ tcp = "open" /\ ~hung /\ pc' \in {"app", "tornAck"} /\ pc = "awaitAck"
        /\ toClient # <<>> /\ toClient' = Tail(toClient) /\ toBroker' = toBroker
        /\ state # "Connected"
    BY <1>2 DEF ConnectAnswered, ConnectReadsTorn, Stop, AcceptanceInv, Phases
  <2>2. Held' = 0 /\ Held = 0 /\ Owed = 0
    BY <2>1 DEF Held, Owed
  <2>3. Len(toClient') = Len(toClient) - 1
    BY <2>1, Room, LengthsOf
  <2>4. /\ Len(toClient') <= Len(toClient) /\ Len(toBroker') <= Len(toBroker)
        /\ Held' <= Held /\ Owed' >= Owed
    <3>1. Owed' \in {0, 1}
      BY RoomNext
    <3> QED
      BY <2>1, <2>2, <2>3, <3>1, Room
  <2> QED
    BY <2>1, <2>4, RoomStays
<1> QED
  BY <1>1, <1>2

\* loop() writes a ping that then is owed an answer, and at most answers what it
\* reads.
LEMMA LoopKeepsRoom ==
  ASSUME TypeOK, TypeOK', AcceptanceInv, RoomInv, Loop, tcp = "open", ~hung
  PROVE  RoomInv'
<1> DEFINE ins  == IF KeepaliveDue THEN 0 ELSE inAge
           out  == IF KeepaliveDue THEN 0 ELSE outAge
           ping == pingOutstanding \/ KeepaliveDue
           sent == IF KeepaliveDue THEN <<Ctl("PINGREQ")>> ELSE <<>>
           p    == Head(toClient)
           n    == IF KeepaliveDue THEN 1 ELSE 0
           owed == IF ping THEN 1 ELSE 0
<1>1. /\ UNCHANGED <<tcp, hung, state>> /\ state = "Connected" /\ pc = "app"
      /\ \/ toClient = <<>> /\ toBroker' = Sent(sent) /\ LoopEnds(ins, out, ping) /\ UNCHANGED toClient
         \/ toClient # <<>> /\ toClient' = Tail(toClient) /\ LoopReads(p, ins, out, ping, sent)
  <2>1. state = "Connected"
    BY DEF Loop, AcceptanceInv, Phases
  <2> QED
    BY <2>1 DEF Loop
<1>2. Held = 0 /\ owed = Owed + n /\ Owed \in {0, 1} /\ n \in {0, 1}
  <2>1. KeepaliveDue => ~pingOutstanding
    BY DEF Loop, GivesUp
  <2>2. Held = 0 /\ Owed = IF pingOutstanding THEN 1 ELSE 0
    BY <1>1 DEF Held, Owed
  <2> QED
    BY <2>1, <2>2
<1>3. /\ Len(Sent(sent)) = Len(toBroker) + n
      /\ Len(Sent(sent \o <<Ctl("PINGRESP")>>)) = Len(toBroker) + n + 1
  <2>1. Ctl("PINGREQ") \in Packet /\ Ctl("PINGRESP") \in Packet
    BY PacketsTyped DEF PacketTypes
  <2>2. sent \in Seq(Packet) /\ Len(sent) = n
    <3>1. <<>> \in Seq(Packet) /\ Len(<<>>) = 0
      OBVIOUS
    <3> QED
      BY <2>1, <3>1, OneLength
  <2>3. <<Ctl("PINGRESP")>> \in Seq(Packet) /\ Len(<<Ctl("PINGRESP")>>) = 1
    BY <2>1, OneLength
  <2> HIDE DEF sent, n
  <2>4. sent \o <<Ctl("PINGRESP")>> \in Seq(Packet) /\ Len(sent \o <<Ctl("PINGRESP")>>) = n + 1
    BY <2>2, <2>3, LengthsOf
  <2>5. Len(Sent(sent)) = Len(toBroker) + n
    BY <2>2, SentLength
  <2>6. Len(Sent(sent \o <<Ctl("PINGRESP")>>)) = Len(toBroker) + (n + 1)
    BY <2>4, SentLength
  <2>7. n \in {0, 1} /\ Len(toBroker) \in Nat
    BY <1>2, Room
  <2> QED
    BY <2>5, <2>6, <2>7
<1>4. Len(toClient) + Len(toBroker) <= QueueCap + 1 + Owed
  BY <1>2, Room DEF RoomInv
<1> HIDE DEF ins, out, ping, sent, n, owed
<1>5. CASE toClient = <<>> /\ toBroker' = Sent(sent) /\ LoopEnds(ins, out, ping) /\ UNCHANGED toClient
  <2>1. Held' = 0 /\ Owed' = owed
    BY <1>1, <1>5 DEF LoopEnds, Held, Owed, owed
  <2>2. Len(toClient') = Len(toClient) /\ Len(toBroker') = Len(toBroker) + n
    BY <1>3, <1>5
  <2>3. Len(toClient') + Len(toBroker') + Held' <= QueueCap + 1 + Owed'
    BY <1>2, <1>4, <2>1, <2>2, Room
  <2> QED
    BY <2>3 DEF RoomInv
<1>6. CASE toClient # <<>> /\ toClient' = Tail(toClient) /\ LoopReads(p, ins, out, ping, sent)
  <2>1. Len(toClient') = Len(toClient) - 1 /\ Len(toClient) >= 1
    BY <1>6, Room, LengthsOf
  <2> HIDE DEF p
  <2>2. \/ toBroker' = Sent(sent) /\ pingOutstanding' = ping
        \/ toBroker' = Sent(sent \o <<Ctl("PINGRESP")>>) /\ pingOutstanding' = ping /\ pc' = "app"
        \/ toBroker' = Sent(sent) /\ pc' = "app"
    BY <1>6 DEF LoopReads, LoopEnds
  <2>3. Held' \in {0, 1} /\ Owed' \in {0, 1} /\ (pc' = "app" => Held' = 0)
        /\ (pingOutstanding' = ping => Owed' = owed)
    <3>1. (pc' = "app" => Held' = 0) /\ (pingOutstanding' = ping => Owed' = owed)
      BY <1>1 DEF Held, Owed, owed
    <3> QED
      BY <3>1, RoomNext
  <2>4. CASE toBroker' = Sent(sent) /\ pingOutstanding' = ping
    <3>1. Len(toClient') + Len(toBroker') + Held' <= QueueCap + 1 + Owed'
      BY <1>2, <1>3, <1>4, <2>1, <2>3, <2>4, Room
    <3> QED
      BY <3>1 DEF RoomInv
  <2>5. CASE toBroker' = Sent(sent \o <<Ctl("PINGRESP")>>) /\ pingOutstanding' = ping /\ pc' = "app"
    <3>1. Len(toClient') + Len(toBroker') + Held' <= QueueCap + 1 + Owed'
      BY <1>2, <1>3, <1>4, <2>1, <2>3, <2>5, Room
    <3> QED
      BY <3>1 DEF RoomInv
  <2>6. CASE toBroker' = Sent(sent) /\ pc' = "app"
    <3>1. n + Owed <= 1
      BY <1>2 DEF owed
    <3>2. Len(toClient') + Len(toBroker') + Held' <= QueueCap + 1 + Owed'
      BY <1>2, <1>3, <1>4, <2>1, <2>3, <2>6, <3>1, Room
    <3> QED
      BY <3>2 DEF RoomInv
  <2> QED
    BY <2>2, <2>4, <2>5, <2>6
<1> QED
  BY <1>1, <1>5, <1>6

\* What the broker answers to a packet is a packet at most.
LEMMA ReplyLength ==
  ASSUME NEW p \in Packet
  PROVE  \/ Reply(p) = <<>> /\ p.type # "PINGREQ"
         \/ Reply(p) = <<Ctl("PINGRESP")>> /\ p.type = "PINGREQ"
         \/ \E r \in Packet : Reply(p) = <<r>> /\ r.type # "PINGRESP" /\ p.type # "PINGREQ"
<1>1. \/ Reply(p) = <<>> /\ p.type # "PINGREQ"
      \/ Reply(p) = <<Ctl("PINGRESP")>> /\ p.type = "PINGREQ"
      \/ \E t \in {"SUBACK", "UNSUBACK", "PUBACK", "PUBREC", "PUBCOMP", "PUBREL"} :
           Reply(p) = <<WithId(t, p.id)>> /\ p.type # "PINGREQ"
  BY DEF Reply
<1>2. p.id \in Nat
  BY DEF Packet
<1>3. \A t \in {"SUBACK", "UNSUBACK", "PUBACK", "PUBREC", "PUBCOMP", "PUBREL"} :
        WithId(t, p.id) \in Packet /\ WithId(t, p.id).type # "PINGRESP"
  BY <1>2, PacketsTyped DEF PacketTypes, WithId
<1> QED
  BY <1>1, <1>3

\* What the broker's step does to the queues of a connection that stands.
LEMMA BrokerMoves ==
  ASSUME TypeOK, Network, tcp' = "open", ~hung'
  PROVE  /\ tcp = "open" /\ ~hung /\ UNCHANGED clientVars
         /\ \/ /\ toBroker # <<>> /\ toBroker' = Tail(toBroker) /\ brokerBusy' = 0
               /\ \/ toClient' = toClient
                  \/ \E p \in Packet : /\ toClient' = Append(toClient, p)
                                       /\ p.type = "PINGRESP" => Head(toBroker).type = "PINGREQ"
            \/ /\ toBroker' = toBroker /\ brokerBusy' = brokerBusy
               /\ Len(toClient) + Len(toBroker) < QueueCap
               /\ \E p \in Packet : toClient' = Append(toClient, p) /\ p.type # "PINGRESP"
<1>0. /\ UNCHANGED clientVars /\ tcp = "open" /\ ~hung /\ ~BrokerHangs /\ ~LinkDown
      /\ toClient \in Seq(Packet) /\ toBroker \in Seq(Packet)
  BY DEF Network, LinkNext, BrokerReceive, BrokerPublish, BrokerPing, BrokerHangs, LinkDown, Drop,
         TypeOK, LinkTypeOK
<1>1. CASE BrokerPublish \/ BrokerPing
  <2>1. PICK p \in Packet : toClient' = Append(toClient, p) /\ p.type # "PINGRESP"
    <3>1. \A id \in MsgIds \cup {0}, q \in 0..2, f \in BOOLEAN :
            LET p == Publication(id, q, f) IN p \in Packet /\ p.type # "PINGRESP"
      BY PacketsTyped, LinkConstants DEF Publication
    <3>2. LET p == Ctl("PINGREQ") IN p \in Packet /\ p.type # "PINGRESP"
      BY PacketsTyped DEF Ctl, PacketTypes
    <3> QED
      BY <1>1, <3>1, <3>2, LinkConstants DEF BrokerPublish, BrokerPing
  <2>2. /\ toBroker' = toBroker /\ brokerBusy' = brokerBusy
        /\ Len(toClient) + Len(toBroker) < QueueCap
    BY <1>1 DEF BrokerPublish, BrokerPing
  <2> QED
    BY <1>0, <2>1, <2>2
<1>2. CASE BrokerReceive
  <2> DEFINE h == Head(toBroker)
  <2>1. /\ toBroker # <<>> /\ toBroker' = Tail(toBroker) /\ brokerBusy' = 0
        /\ \/ \E rc \in {0} \cup RefusalCodes : toClient' = Append(toClient, ConnAck(rc))
           \/ toClient' = toClient \o Reply(h)
    BY <1>0, <1>2 DEF BrokerReceive, Drop
  <2>2. h \in Packet
    BY <1>0, <2>1, HeadTailProperties
  <2>3. \/ toClient' = toClient
        \/ \E p \in Packet : /\ toClient' = Append(toClient, p)
                             /\ p.type = "PINGRESP" => h.type = "PINGREQ"
    <3>1. ASSUME NEW rc \in {0} \cup RefusalCodes, toClient' = Append(toClient, ConnAck(rc))
          PROVE  \E p \in Packet : toClient' = Append(toClient, p) /\ p.type # "PINGRESP"
      <4>1. ConnAck(rc) \in Packet /\ ConnAck(rc).type # "PINGRESP"
        BY PacketsTyped, LinkConstants DEF ConnAck
      <4> QED
        BY <3>1, <4>1
    <3>2. CASE toClient' = toClient \o Reply(h)
      <4>1. CASE Reply(h) = <<>>
        BY <1>0, <3>2, <4>1, ConcatEmptySeq
      <4>2. ASSUME NEW p \in Packet, Reply(h) = <<p>> PROVE toClient' = Append(toClient, p)
        BY <1>0, <3>2, <4>2, AppendIsConcat
      <4>3. Ctl("PINGRESP") \in Packet
        BY PacketsTyped DEF PacketTypes
      <4> QED
        BY <2>2, <4>1, <4>2, <4>3, ReplyLength
    <3> QED
      BY <2>1, <3>1, <3>2
  <2> QED
    BY <1>0, <2>1, <2>3
<1> QED
  BY <1>0, <1>1, <1>2 DEF Network, LinkNext

LEMMA BrokerKeepsRoom ==
  ASSUME TypeOK, TypeOK', RoomInv, Network, tcp' = "open", ~hung'
  PROVE  RoomInv'
<1>0. /\ tcp = "open" /\ ~hung /\ Held' = Held /\ Owed' = Owed
      /\ toClient \in Seq(Packet) /\ toBroker \in Seq(Packet)
  BY BrokerMoves, Room DEF clientVars, Held, Owed
<1>1. \A p \in Packet : Len(Append(toClient, p)) = Len(toClient) + 1
  BY <1>0, LengthsOf
<1>2. CASE toBroker # <<>> /\ toBroker' = Tail(toBroker)
  <2>1. Len(toBroker') = Len(toBroker) - 1
    BY <1>0, <1>2, LengthsOf
  <2>2. toBroker' # toBroker
    <3>1. Len(toBroker') # Len(toBroker)
      BY <2>1, Room
    <3> QED
      BY <3>1
  <2>3. Len(toClient') = Len(toClient) \/ Len(toClient') = Len(toClient) + 1
    <3>1. toClient' = toClient \/ \E p \in Packet : toClient' = Append(toClient, p)
      BY <2>2, BrokerMoves
    <3> QED
      BY <1>1, <3>1
  <2>4. Len(toClient) + Len(toBroker) + Held <= QueueCap + 1 + Owed
    BY <1>0 DEF RoomInv
  <2>5. Len(toClient') + Len(toBroker') + Held' <= QueueCap + 1 + Owed'
    BY <1>0, <2>1, <2>3, <2>4, Room
  <2> QED
    BY <2>5 DEF RoomInv
<1>3. CASE ~(toBroker # <<>> /\ toBroker' = Tail(toBroker))
  <2>1. /\ toBroker' = toBroker /\ Len(toClient) + Len(toBroker) < QueueCap
        /\ \E p \in Packet : toClient' = Append(toClient, p)
    BY <1>3, BrokerMoves
  <2>2. Len(toClient') = Len(toClient) + 1
    BY <1>1, <2>1
  <2>3. Len(toClient') + Len(toBroker') <= Len(toClient) + Len(toBroker) + 1
    BY <2>1, <2>2, Room
  <2> QED
    BY <2>1, <2>3, RoomBelow
<1> QED
  BY <1>2, <1>3

LEMMA RoomInvariant == Spec => []RoomInv
<1>1. Init => RoomInv
  BY DEF Init, LinkInit, RoomInv
<1>2. TypeOK /\ TypeOK' /\ AcceptanceInv /\ RoomInv /\ [Next]_vars => RoomInv'
  <2> SUFFICES ASSUME TypeOK, TypeOK', AcceptanceInv, RoomInv, [Next]_vars, tcp' = "open", ~hung'
               PROVE  RoomInv'
    BY DEF RoomInv
  <2>1. CASE UNCHANGED vars
    BY <2>1 DEF vars, linkVars, clientVars, RoomInv, Held, Owed
  <2>2. CASE CallOffline \/ ConnectFails
    BY <2>2 DEF CallOffline, ConnectFails, NoticeLoss, TcpConnected, Stop, linkVars
  <2>3. CASE ConnectTimesOut \/ ConnectGivesUpOnTorn \/ LoopTimesOut \/ Disconnect
    BY <2>3 DEF ConnectTimesOut, ConnectGivesUpOnTorn, LoopTimesOut, Disconnect, Stop
  <2>4. CASE ConnectOpens \/ ConnectAnswered \/ ConnectReadsTorn
    BY <2>4, OpeningKeepsRoom
  <2>5. CASE Loop
    <3>1. tcp = "open" /\ ~hung
      BY <2>5 DEF Loop
    <3> QED
      BY <2>5, <3>1, LoopKeepsRoom
  <2>6. CASE Publish \/ Subscribe \/ Unsubscribe \/ CallbackReturns \/ LoopGivesUpOnTorn \/ Tick
    <3>1. tcp = "open" /\ ~hung
      BY <2>6 DEF Publish, Subscribe, Unsubscribe, Request, CallbackReturns, LoopGivesUpOnTorn, Tick,
                  LinkTick, linkVars
    <3> QED
      BY <2>6, <3>1, CallsKeepRoom
  <2>7. CASE Network
    BY <2>7, BrokerKeepsRoom
  <2> QED
    BY <2>1, <2>2, <2>3, <2>4, <2>5, <2>6, <2>7 DEF Next, Proceed
<1> QED
  BY <1>1, <1>2, TypeCorrect, AcceptanceInvariant, PTL DEF Spec

LEMMA WithinRoom ==
  ASSUME NEW q \in Seq(Packet), NEW r \in Seq(Packet), NEW h \in {0, 1}, NEW o \in {0, 1},
         Len(q) + Len(r) + h <= QueueCap + 1 + o
  PROVE  DOMAIN q \subseteq 1..Most /\ DOMAIN r \subseteq 1..Most
<1>1. /\ Len(q) \in Nat /\ DOMAIN q = 1..Len(q) /\ Len(r) \in Nat /\ DOMAIN r = 1..Len(r)
      /\ QueueCap \in Nat
  BY LengthsOf, LinkAssumption DEF LinkAssumption
<1>2. Len(q) <= Most /\ Len(r) <= Most
  BY <1>1 DEF Most
<1>3. Most \in Nat
  BY Deadlines
<1> QED
  BY <1>1, <1>2, <1>3

LEMMA PlacesBound ==
  ASSUME TypeOK, RoomInv, Standing
  PROVE  DOMAIN toClient \subseteq 1..Most /\ DOMAIN toBroker \subseteq 1..Most
BY Room, WithinRoom DEF RoomInv, Standing

LEMMA PlacesBoundNext ==
  ASSUME TypeOK', RoomInv', Standing'
  PROVE  DOMAIN toClient' \subseteq 1..Most /\ DOMAIN toBroker' \subseteq 1..Most
BY RoomNext, WithinRoom DEF RoomInv, Standing

\* On a connection that stands the application is on time, and so is the broker.
LEMMA OnTime ==
  ASSUME TypeOK, AcceptanceInv, SilenceInv, Standing
  PROVE  /\ session = "accepted" /\ pc \in {"app", "callback"}
         /\ brokerBusy \in Nat /\ brokerBusy <= BrokerDelay
         /\ Elapsed \in Nat /\ Elapsed <= Round
         /\ pc = "callback" => Elapsed <= CallbackTime
<1>1. session = "accepted" /\ pc # "awaitAck"
  BY DEF AcceptanceInv, ConnectedMeansAccepted, Phases, Standing
<1>2. /\ pc \in {"app", "callback"} /\ brokerBusy <= BrokerDelay
      /\ pc = "app" => waited <= MaxGap
      /\ pc = "callback" => waited <= CallbackTime
  BY <1>1 DEF SilenceInv, Standing
<1>3. waited \in Nat /\ CallbackTime \in Nat /\ MaxGap \in Nat /\ brokerBusy \in Nat
  BY TimesTyped, Periods
<1>4. CASE pc = "app"
  <2>1. Elapsed = CallbackTime + waited
    BY <1>4 DEF Elapsed
  <2> QED
    BY <1>1, <1>2, <1>3, <1>4, <2>1 DEF Round
<1>5. CASE pc = "callback"
  <2>1. Elapsed = waited
    BY <1>5 DEF Elapsed
  <2> QED
    BY <1>1, <1>2, <1>3, <1>5, <2>1 DEF Round
<1> QED
  BY <1>2, <1>4, <1>5

LEMMA ElapsedNext ==
  ASSUME TypeOK'
  PROVE  Elapsed' \in Nat /\ brokerBusy' \in Nat /\ inAge' \in Nat /\ outAge' \in Nat
<1>1. waited' \in Nat /\ brokerBusy' \in Nat /\ inAge' \in 0..AgeCap /\ outAge' \in 0..AgeCap
  BY DEF TypeOK, LinkTypeOK
<1>2. AgeCap \in Nat /\ CallbackTime \in Nat
  BY Periods
<1>3. Elapsed' = waited' \/ Elapsed' = CallbackTime + waited'
  BY DEF Elapsed
<1>4. inAge' \in Nat /\ outAge' \in Nat
  BY <1>1, <1>2
<1>5. Elapsed' \in Nat
  BY <1>1, <1>2, <1>3
<1> QED
  BY <1>1, <1>4, <1>5

\* A ping that has just been sent is young, and one that is not there has no age.
LEMMA FreshAges ==
  ASSUME TypeOK', RoomInv', inAge' = 0, outAge' = 0
  PROVE  AgeInv'
<1> SUFFICES ASSUME Standing' PROVE AgeInv'
  BY DEF AgeInv
<1>1. ASSUME NEW i \in 1..Most
      PROVE  0 <= AtBroker(i) + brokerBusy' /\ 0 <= AtClient(i) + Elapsed'
  BY <1>1, Deadlines, ElapsedNext
<1> QED
  BY <1>1, PlacesBoundNext DEF AgeInv, Young

LEMMA NoneOfNumber ==
  ASSUME NEW q \in Seq(Packet), NEW type, Count(q, type) = 0
  PROVE  \A i \in DOMAIN q : q[i].type # type
<1>1. Number(q, OfType(type)) = 0
  BY CountIs
<1>2. Places(q, OfType(type)) = {}
  <2>1. IsFiniteSet(Places(q, OfType(type))) /\ Cardinality(Places(q, OfType(type))) = 0
    BY <1>1, NumberTyped
  <2> QED
    BY <2>1, FS_EmptySet
<1>3. \A i \in DOMAIN q : q[i] \in Packet
  BY ElementOfSeq, LenProperties
<1> QED
  BY <1>2, <1>3 DEF Places, OfType

LEMMA SomeOfNumber ==
  ASSUME NEW q \in Seq(Packet), NEW type, Count(q, type) # 0
  PROVE  \E i \in DOMAIN q : q[i].type = type
<1>1. CASE {i \in DOMAIN q : q[i].type = type} = {}
  BY <1>1, FS_EmptySet DEF Count
<1>2. CASE {i \in DOMAIN q : q[i].type = type} # {}
  BY <1>2
<1> QED
  BY <1>1, <1>2

LEMMA NoAges ==
  ASSUME TypeOK', PingInv', ~pingOutstanding'
  PROVE  AgeInv'
<1> SUFFICES ASSUME Standing' PROVE AgeInv'
  BY DEF AgeInv
<1>1. Count(toBroker', "PINGREQ") + Count(toClient', "PINGRESP") = 0
  BY DEF PingInv, PingAccounting, Standing
<1>2. toClient' \in Seq(Packet) /\ toBroker' \in Seq(Packet)
  BY RoomNext
<1>3. Count(toBroker', "PINGREQ") \in Nat /\ Count(toClient', "PINGRESP") \in Nat
  BY <1>2, CountTyped
<1>4. Count(toBroker', "PINGREQ") = 0 /\ Count(toClient', "PINGRESP") = 0
  BY <1>1, <1>3
<1> QED
  BY <1>2, <1>4, NoneOfNumber DEF AgeInv

\* k ticks that leave the pings where they are.
LEMMA AgesKept ==
  ASSUME TypeOK, TypeOK', AcceptanceInv, SilenceInv, RoomInv, AgeInv, Standing, NEW k \in {0, 1},
         \A age \in Nat : Young(age) => inAge' <= age + k /\ outAge' <= age + k,
         toBroker # <<>> => brokerBusy' >= brokerBusy + k, Elapsed' >= Elapsed + k,
         \A i \in DOMAIN toBroker' : toBroker'[i].type = "PINGREQ" =>
            i \in DOMAIN toBroker /\ toBroker[i].type = "PINGREQ",
         \A i \in DOMAIN toClient' : toClient'[i].type = "PINGRESP" =>
            i \in DOMAIN toClient /\ toClient[i].type = "PINGRESP"
  PROVE  AgeInv'
<1>0. /\ Elapsed \in Nat /\ brokerBusy \in Nat /\ Elapsed' \in Nat /\ brokerBusy' \in Nat
      /\ inAge' \in Nat /\ outAge' \in Nat
  BY OnTime, ElapsedNext
<1>1. ASSUME NEW i \in DOMAIN toBroker', toBroker'[i].type = "PINGREQ"
      PROVE  inAge' <= AtBroker(i) + brokerBusy' /\ outAge' <= AtBroker(i) + brokerBusy'
  <2>1. i \in DOMAIN toBroker /\ toBroker[i].type = "PINGREQ"
    BY <1>1
  <2>2. AtBroker(i) \in Nat
    BY <2>1, PlacesBound, Deadlines
  <2>3. Young(AtBroker(i) + brokerBusy)
    BY <2>1 DEF AgeInv
  <2>4. inAge' <= (AtBroker(i) + brokerBusy) + k /\ outAge' <= (AtBroker(i) + brokerBusy) + k
    <3>1. AtBroker(i) + brokerBusy \in Nat
      BY <1>0, <2>2
    <3> QED
      BY <2>3, <3>1
  <2>5. brokerBusy' >= brokerBusy + k
    <3>1. toBroker # <<>>
      <4>1. DOMAIN <<>> = {}
        OBVIOUS
      <4> QED
        BY <2>1, <4>1
    <3> QED
      BY <3>1
  <2> QED
    BY <1>0, <2>2, <2>4, <2>5
<1>2. ASSUME NEW i \in DOMAIN toClient', toClient'[i].type = "PINGRESP"
      PROVE  inAge' <= AtClient(i) + Elapsed' /\ outAge' <= AtClient(i) + Elapsed'
  <2>1. i \in DOMAIN toClient /\ toClient[i].type = "PINGRESP"
    BY <1>2
  <2>2. AtClient(i) \in Nat
    BY <2>1, PlacesBound, Deadlines
  <2>3. Young(AtClient(i) + Elapsed)
    BY <2>1 DEF AgeInv
  <2>4. inAge' <= (AtClient(i) + Elapsed) + k /\ outAge' <= (AtClient(i) + Elapsed) + k
    <3>1. AtClient(i) + Elapsed \in Nat
      BY <1>0, <2>2
    <3> QED
      BY <2>3, <3>1
  <2> QED
    BY <1>0, <2>2, <2>4
<1> QED
  BY <1>1, <1>2 DEF AgeInv, Young

\* A packet that is not a ping takes no ping's place.
LEMMA OthersAppended ==
  ASSUME NEW q \in Seq(Packet), NEW p \in Packet, NEW type, p.type # type,
         NEW i \in DOMAIN Append(q, p), Append(q, p)[i].type = type
  PROVE  i \in DOMAIN q /\ q[i].type = type
BY PlacesOfAppend

LEMMA SentIsAppended ==
  ASSUME TypeOK, Standing, NEW p \in Packet
  PROVE  Sent(<<p>>) = Append(toBroker, p)
<1>1. Sent(<<p>>) = toBroker \o <<p>> /\ toBroker \in Seq(Packet)
  BY Room DEF Sent, Standing
<1> QED
  BY <1>1, AppendIsConcat

LEMMA CallsKeepAges ==
  ASSUME TypeOK, TypeOK', AcceptanceInv, SilenceInv, RoomInv, AgeInv, Standing,
         Publish \/ Subscribe \/ Unsubscribe \/ CallbackReturns
  PROVE  AgeInv'
<1>1. toBroker' = toBroker \/ \E p \in Packet : p.type # "PINGREQ" /\ toBroker' = Append(toBroker, p)
  <2>1. CASE CallbackReturns
    <3>1. WithId("PUBACK", AckId) \in Packet /\ WithId("PUBACK", AckId).type # "PINGREQ"
      <4>1. AckId \in Nat
        BY DEF AckId, TypeOK, Packet
      <4> QED
        BY <4>1, PacketsTyped DEF PacketTypes, WithId
    <3> QED
      BY <2>1, <3>1, SentIsAppended DEF CallbackReturns
  <2>2. CASE Publish
    <3>1. Publication(0, 0, TRUE) \in Packet /\ Publication(0, 0, TRUE).type # "PINGREQ"
      BY DEF Publication, Packet, PacketTypes
    <3> QED
      BY <2>2, <3>1, SentIsAppended DEF Publish
  <2>3. ASSUME NEW t \in {"SUBSCRIBE", "UNSUBSCRIBE"}, Request(t)
        PROVE  \E p \in Packet : p.type # "PINGREQ" /\ toBroker' = Append(toBroker, p)
    <3>1. NextId \in Nat
      BY NextIdTyped, ClientAssumption DEF ClientAssumption, TypeOK
    <3>2. WithId(t, NextId) \in Packet /\ WithId(t, NextId).type # "PINGREQ"
      BY <3>1, PacketsTyped DEF PacketTypes, WithId
    <3> QED
      BY <2>3, <3>2, SentIsAppended DEF Request
  <2> QED
    BY <2>1, <2>2, <2>3 DEF Subscribe, Unsubscribe
<1>2. \A i \in DOMAIN toBroker' : toBroker'[i].type = "PINGREQ" =>
        i \in DOMAIN toBroker /\ toBroker[i].type = "PINGREQ"
  <2>1. CASE toBroker' = toBroker
    BY <2>1
  <2>2. ASSUME NEW p \in Packet, p.type # "PINGREQ", toBroker' = Append(toBroker, p),
               NEW i \in DOMAIN toBroker', toBroker'[i].type = "PINGREQ"
        PROVE  i \in DOMAIN toBroker /\ toBroker[i].type = "PINGREQ"
    BY <2>2, Room, OthersAppended
  <2> QED
    BY <1>1, <2>1, <2>2
<1>3. /\ UNCHANGED <<toClient, brokerBusy, inAge>> /\ outAge' \in {0, inAge, outAge}
      /\ \/ UNCHANGED <<pc, waited>>
         \/ pc = "callback" /\ pc' = "app" /\ waited' = 0
  BY DEF Publish, Subscribe, Unsubscribe, Request, CallbackReturns
<1>4. \A age \in Nat : Young(age) => inAge' <= age + 0 /\ outAge' <= age + 0
  BY <1>3, TimesTyped DEF Young
<1>5. brokerBusy' >= brokerBusy + 0
  BY <1>3, TimesTyped
<1>6. Elapsed' >= Elapsed + 0
  <2>1. CASE UNCHANGED <<pc, waited>>
    <3>1. Elapsed' = Elapsed
      BY <2>1 DEF Elapsed
    <3> QED
      BY <3>1, OnTime
  <2>2. CASE pc = "callback" /\ pc' = "app" /\ waited' = 0
    <3>1. Elapsed' = CallbackTime + 0
      BY <2>2 DEF Elapsed
    <3> QED
      BY <2>2, <3>1, OnTime, Periods
  <2> QED
    BY <1>3, <2>1, <2>2
<1> QED
  BY <1>2, <1>3, <1>4, <1>5, <1>6, AgesKept

LEMMA TickKeepsAges ==
  ASSUME TypeOK, TypeOK', AcceptanceInv, SilenceInv, RoomInv, AgeInv, Standing, Tick
  PROVE  AgeInv'
<1>1. /\ UNCHANGED <<toClient, toBroker, pc>> /\ ~Overdue
      /\ inAge' = Older(inAge) /\ outAge' = Older(outAge)
      /\ waited' = IF waited < WaitCap THEN waited + 1 ELSE waited
      /\ brokerBusy' = IF tcp = "open" /\ ~hung /\ toBroker # <<>> THEN brokerBusy + 1 ELSE 0
  BY DEF Tick, LinkTick
<1>2. \A a \in 0..AgeCap : Older(a) <= a + 1
  BY Periods DEF Older
<1>3. \A age \in Nat : Young(age) => inAge' <= age + 1 /\ outAge' <= age + 1
  <2>1. inAge' <= inAge + 1 /\ outAge' <= outAge + 1
    BY <1>1, <1>2 DEF TypeOK
  <2> QED
    BY <2>1, TimesTyped, ElapsedNext DEF Young
<1>4. toBroker # <<>> => brokerBusy' >= brokerBusy + 1
  BY <1>1, TimesTyped DEF Standing
<1>5. Elapsed' >= Elapsed + 1
  <2>1. pc \in {"app", "callback"}
    BY OnTime
  <2>2. waited < WaitCap
    BY <1>1, <2>1, TimesTyped, Periods DEF Overdue
  <2>3. waited' = waited + 1
    BY <1>1, <2>2
  <2> QED
    BY <1>1, <2>3, TimesTyped, Periods DEF Elapsed
<1> QED
  BY <1>1, <1>3, <1>4, <1>5, AgesKept

LEMMA BrokerKeepsAges ==
  ASSUME TypeOK, TypeOK', AcceptanceInv, SilenceInv, RoomInv, AgeInv, Network, Standing'
  PROVE  AgeInv'
<1>1. /\ Standing /\ UNCHANGED <<pc, waited, inAge, outAge>> /\ Elapsed' = Elapsed
      /\ toClient \in Seq(Packet) /\ toBroker \in Seq(Packet)
  BY BrokerMoves, Room DEF Standing, clientVars, Elapsed
<1>2. CASE toBroker # <<>> /\ toBroker' = Tail(toBroker) /\ brokerBusy' = 0
  <2>1. ASSUME NEW i \in DOMAIN toBroker', toBroker'[i].type = "PINGREQ"
        PROVE  inAge' <= AtBroker(i) + brokerBusy' /\ outAge' <= AtBroker(i) + brokerBusy'
    <3>1. i + 1 \in DOMAIN toBroker /\ toBroker[i + 1].type = "PINGREQ"
      BY <1>1, <1>2, <2>1, LengthsOf
    <3>2. Young(AtBroker(i + 1) + brokerBusy)
      BY <1>1, <3>1 DEF AgeInv
    <3>3. i \in Nat /\ i + 1 \in 1..Most /\ (i + 1) - 1 = i
      <4>1. DOMAIN toBroker' = 1..Len(toBroker')
        BY LengthsOf, RoomNext
      <4>2. i \in Nat
        BY <2>1, <4>1
      <4> QED
        BY <1>1, <3>1, <4>2, PlacesBound
    <3>4. AtBroker(i + 1) \in Nat /\ AtBroker(i) = AtBroker(i + 1) + BrokerDelay
      BY <3>3, Deadlines
    <3>5. /\ brokerBusy \in Nat /\ brokerBusy <= BrokerDelay /\ BrokerDelay \in Nat
          /\ inAge \in Nat /\ outAge \in Nat
      BY <1>1, OnTime, TimesTyped, Periods
    <3>6. inAge <= AtBroker(i) /\ outAge <= AtBroker(i)
      BY <3>2, <3>4, <3>5 DEF Young
    <3>7. AtBroker(i) + brokerBusy' = AtBroker(i)
      BY <1>2, <3>4, <3>5
    <3> QED
      BY <1>1, <3>6, <3>7
  <2>2. ASSUME NEW i \in DOMAIN toClient', toClient'[i].type = "PINGRESP"
        PROVE  inAge' <= AtClient(i) + Elapsed' /\ outAge' <= AtClient(i) + Elapsed'
    <3>0. \/ i \in DOMAIN toClient /\ toClient[i].type = "PINGRESP"
          \/ i = Len(toClient) + 1 /\ Head(toBroker).type = "PINGREQ"
      <4>1. \/ toClient' = toClient
            \/ \E p \in Packet : /\ toClient' = Append(toClient, p)
                                 /\ p.type = "PINGRESP" => Head(toBroker).type = "PINGREQ"
        BY BrokerMoves DEF Standing
      <4>2. CASE toClient' = toClient
        BY <2>2, <4>2
      <4>3. ASSUME NEW p \in Packet, toClient' = Append(toClient, p),
                   p.type = "PINGRESP" => Head(toBroker).type = "PINGREQ"
            PROVE  \/ i \in DOMAIN toClient /\ toClient[i].type = "PINGRESP"
                   \/ i = Len(toClient) + 1 /\ Head(toBroker).type = "PINGREQ"
        BY <1>1, <2>2, <4>3, PlacesOfAppend
      <4> QED
        BY <4>1, <4>2, <4>3
    <3>1. CASE i \in DOMAIN toClient /\ toClient[i].type = "PINGRESP"
      BY <1>1, <3>1 DEF AgeInv, Young
    <3>2. CASE i = Len(toClient) + 1 /\ Head(toBroker).type = "PINGREQ"
      <4>1. 1 \in DOMAIN toBroker /\ toBroker[1].type = "PINGREQ"
        BY <1>1, <1>2, <3>2, LengthsOf
      <4>2. Young(AtBroker(1) + brokerBusy)
        BY <1>1, <4>1 DEF AgeInv
      <4>3. 1 \in 1..Most /\ i \in 1..Most
        <5>1. 1 \in 1..Most
          BY <1>1, <4>1, PlacesBound
        <5>2. Len(toClient) + 1 <= Most /\ Len(toClient) + 1 >= 1
          <6>1. Len(toClient) + Len(toBroker) + Held <= QueueCap + 1 + Owed
            BY <1>1 DEF RoomInv, Standing
          <6>2. Len(toBroker) >= 1
            BY <1>1, <1>2, LengthsOf
          <6> QED
            BY <6>1, <6>2, Room DEF Most
        <5> QED
          BY <3>2, <5>1, <5>2, Room, Deadlines
      <4>4. /\ AtBroker(1) \in Nat /\ AtBroker(1) + BrokerDelay <= AtBroker(0)
            /\ AtBroker(0) <= AtClient(i) /\ AtBroker(0) \in Nat /\ AtClient(i) \in Nat
        BY <4>3, Deadlines
      <4>5. Elapsed \in Nat /\ brokerBusy \in Nat /\ brokerBusy <= BrokerDelay
        BY <1>1, OnTime
      <4>6. inAge <= AtClient(i) + Elapsed /\ outAge <= AtClient(i) + Elapsed
        BY <4>2, <4>4, <4>5, TimesTyped, Deadlines DEF Young
      <4> QED
        BY <1>1, <4>6
    <3> QED
      BY <3>0, <3>1, <3>2
  <2> QED
    BY <2>1, <2>2 DEF AgeInv, Young
<1>3. CASE ~(toBroker # <<>> /\ toBroker' = Tail(toBroker) /\ brokerBusy' = 0)
  <2>1. /\ toBroker' = toBroker /\ brokerBusy' = brokerBusy
        /\ \E p \in Packet : toClient' = Append(toClient, p) /\ p.type # "PINGRESP"
    BY <1>3, BrokerMoves DEF Standing
  <2>2. \A i \in DOMAIN toClient' : toClient'[i].type = "PINGRESP" =>
          i \in DOMAIN toClient /\ toClient[i].type = "PINGRESP"
    BY <1>1, <2>1, OthersAppended
  <2>3. \A age \in Nat : Young(age) => inAge' <= age + 0 /\ outAge' <= age + 0
    BY <1>1, TimesTyped DEF Young
  <2>4. brokerBusy' >= brokerBusy + 0 /\ Elapsed' >= Elapsed + 0
    BY <1>1, <2>1, OnTime
  <2> QED
    BY <1>1, <2>1, <2>2, <2>3, <2>4, AgesKept
<1> QED
  BY <1>2, <1>3

\* A round of loop() in which no keepalive is due moves the answer on by a place.
LEMMA LoopKeepsAges ==
  ASSUME TypeOK, TypeOK', AcceptanceInv, SilenceInv, RoomInv, RoomInv', PingInv, AgeInv, Standing, Loop
  PROVE  AgeInv'
<1> DEFINE ins  == IF KeepaliveDue THEN 0 ELSE inAge
           out  == IF KeepaliveDue THEN 0 ELSE outAge
           ping == pingOutstanding \/ KeepaliveDue
           sent == IF KeepaliveDue THEN <<Ctl("PINGREQ")>> ELSE <<>>
           p    == Head(toClient)
<1>1. /\ pc = "app" /\ brokerBusy' = brokerBusy
      /\ \/ toClient = <<>> /\ toBroker' = Sent(sent) /\ LoopEnds(ins, out, ping) /\ UNCHANGED toClient
         \/ toClient # <<>> /\ toClient' = Tail(toClient) /\ LoopReads(p, ins, out, ping, sent)
  BY DEF Loop
<1>2. toClient # <<>> => ~p.cut
  BY Room, MembersOfTail DEF PingInv, Standing
<1>3. /\ outAge' = out /\ (inAge' = ins \/ inAge' = 0) /\ waited' = 0
      /\ toBroker' = Sent(sent) \/ toBroker' = Sent(sent \o <<Ctl("PINGRESP")>>)
  <2> HIDE DEF ins, out, ping, sent, p
  <2> QED
    BY <1>1, <1>2 DEF LoopEnds, LoopReads
<1>4. CASE KeepaliveDue
  <2>1. inAge' = 0 /\ outAge' = 0
    BY <1>3, <1>4
  <2> QED
    BY <2>1, FreshAges
<1>5. CASE ~KeepaliveDue
  <2>1. outAge' = outAge /\ (inAge' = inAge \/ inAge' = 0)
    BY <1>3, <1>5
  <2>2. toBroker' = toBroker \/ toBroker' = Append(toBroker, Ctl("PINGRESP"))
    <3>1. sent = <<>> /\ Ctl("PINGRESP") \in Packet
      BY <1>5, PacketsTyped DEF PacketTypes
    <3>2. Sent(<<>>) = toBroker
      BY Room, ConcatEmptySeq DEF Sent
    <3>3. <<>> \o <<Ctl("PINGRESP")>> = <<Ctl("PINGRESP")>>
      BY <3>1, OneLength, ConcatEmptySeq
    <3>4. Sent(<<Ctl("PINGRESP")>>) = Append(toBroker, Ctl("PINGRESP"))
      BY <3>1, SentIsAppended
    <3> HIDE DEF sent
    <3> QED
      BY <1>3, <3>1, <3>2, <3>3, <3>4
  <2>3. \A i \in DOMAIN toBroker' : toBroker'[i].type = "PINGREQ" =>
          i \in DOMAIN toBroker /\ toBroker[i].type = "PINGREQ"
    <3>1. CASE toBroker' = toBroker
      BY <3>1
    <3>2. CASE toBroker' = Append(toBroker, Ctl("PINGRESP"))
      <4>1. Ctl("PINGRESP") \in Packet /\ Ctl("PINGRESP").type # "PINGREQ"
        BY PacketsTyped DEF PacketTypes, Ctl
      <4> QED
        BY <3>2, <4>1, Room, OthersAppended
    <3> QED
      BY <2>2, <3>1, <3>2
  <2>4. ASSUME NEW i \in DOMAIN toBroker', toBroker'[i].type = "PINGREQ"
        PROVE  inAge' <= AtBroker(i) + brokerBusy' /\ outAge' <= AtBroker(i) + brokerBusy'
    <3>1. i \in DOMAIN toBroker /\ toBroker[i].type = "PINGREQ"
      BY <2>3, <2>4
    <3>2. Young(AtBroker(i) + brokerBusy)
      BY <3>1 DEF AgeInv
    <3>3. AtBroker(i) \in Nat
      BY <3>1, PlacesBound, Deadlines
    <3> QED
      BY <1>1, <2>1, <3>2, <3>3, TimesTyped DEF Young
  <2>5. ASSUME NEW i \in DOMAIN toClient', toClient'[i].type = "PINGRESP"
        PROVE  inAge' <= AtClient(i) + Elapsed' /\ outAge' <= AtClient(i) + Elapsed'
    <3>1. toClient # <<>> /\ toClient' = Tail(toClient)
      <4>1. DOMAIN <<>> = {}
        OBVIOUS
      <4>2. toClient = <<>> => toClient' = <<>>
        BY <1>1
      <4> QED
        BY <1>1, <2>5, <4>1, <4>2
    <3>2. i + 1 \in DOMAIN toClient /\ toClient[i + 1].type = "PINGRESP"
      BY <2>5, <3>1, Room, LengthsOf
    <3>3. Young(AtClient(i + 1) + Elapsed)
      BY <3>2 DEF AgeInv
    <3>4. i + 1 \in 1..Most /\ (i + 1) - 1 = i
      <4>1. DOMAIN toClient' = 1..Len(toClient')
        BY LengthsOf, RoomNext
      <4>2. i \in Nat
        BY <2>5, <4>1
      <4> QED
        BY <3>2, <4>2, PlacesBound
    <3>5. AtClient(i + 1) \in Nat /\ AtClient(i) = AtClient(i + 1) + Round
      BY <3>4, Deadlines
    <3>6. Elapsed \in Nat /\ Elapsed <= Round /\ Elapsed' \in Nat /\ Round \in Nat
      BY OnTime, ElapsedNext, Deadlines
    <3> QED
      BY <2>1, <3>3, <3>5, <3>6, TimesTyped DEF Young
  <2> QED
    BY <2>4, <2>5 DEF AgeInv, Young
<1> QED
  BY <1>4, <1>5

LEMMA AgeInvariant == Spec => []AgeInv
<1>1. Init => AgeInv
  BY DEF Init, AgeInv, Standing
<1>2. TypeOK /\ TypeOK' /\ AcceptanceInv /\ PingInv /\ PingInv' /\ SilenceInv /\ RoomInv /\ RoomInv'
        /\ AgeInv /\ [Next]_vars => AgeInv'
  <2> SUFFICES ASSUME TypeOK, TypeOK', AcceptanceInv, PingInv, PingInv', SilenceInv, RoomInv, RoomInv',
                      AgeInv, [Next]_vars, Standing'
               PROVE  AgeInv'
    BY DEF AgeInv
  <2>1. CASE UNCHANGED vars
    BY <2>1 DEF vars, linkVars, clientVars, AgeInv, Standing, Young, Elapsed
  <2>2. CASE CallOffline \/ ConnectFails
    BY <2>2 DEF CallOffline, ConnectFails, NoticeLoss, TcpConnected, Stop, linkVars, Standing
  <2>3. CASE ConnectTimesOut \/ ConnectGivesUpOnTorn \/ LoopTimesOut \/ Disconnect
    BY <2>3 DEF ConnectTimesOut, ConnectGivesUpOnTorn, LoopTimesOut, Disconnect, Stop, Standing
  <2>4. CASE ConnectOpens \/ ConnectReadsTorn \/ LoopGivesUpOnTorn
    <3>1. state' # "Connected" \/ (pc = "tornLoop" /\ Standing)
      BY <2>4 DEF ConnectOpens, ConnectReadsTorn, LoopGivesUpOnTorn, linkVars, Standing, AcceptanceInv,
                  Phases
    <3> QED
      BY <3>1, OnTime DEF Standing
  <2>5. CASE ConnectAnswered
    <3>1. ~pingOutstanding'
      BY <2>5 DEF ConnectAnswered, Stop, Standing, PingAtConnect
    <3> QED
      BY <3>1, NoAges
  <2>6. CASE Publish \/ Subscribe \/ Unsubscribe \/ CallbackReturns \/ Tick \/ Loop
    <3>1. Standing
      BY <2>6 DEF Publish, Subscribe, Unsubscribe, Request, CallbackReturns, Tick, LinkTick, Loop, Standing
    <3> QED
      BY <2>6, <3>1, CallsKeepAges, TickKeepsAges, LoopKeepsAges
  <2>7. CASE Network
    BY <2>7, BrokerKeepsAges
  <2> QED
    BY <2>1, <2>2, <2>3, <2>4, <2>5, <2>6, <2>7 DEF Next, Proceed
<1> QED
  BY <1>1, <1>2, TypeCorrect, AcceptanceInvariant, PingInvariant, SilenceInvariant, RoomInvariant,
     PTL DEF Spec

\* While a ping or its answer is on its way the keepalive is not due again.
LEMMA PingsAreYoung ==
  ASSUME Patience, TypeOK, AcceptanceInv, PingInv, SilenceInv, RoomInv, AgeInv, Standing,
         pingOutstanding
  PROVE  ~KeepaliveDue
<1> DEFINE limit == AtBroker(0) + Most * Round
<1>1. /\ KeepAlive \in Nat /\ limit \in Nat /\ limit <= KeepAlive /\ BrokerDelay \in Nat /\ Round \in Nat
      /\ \A i \in 1..Most : /\ AtBroker(i) \in Nat /\ AtBroker(i) + BrokerDelay <= limit
                            /\ AtClient(i) \in Nat /\ AtClient(i) + Round <= limit
  <2> DEFINE d == Most * BrokerDelay
             r == Most * Round
  <2>1. d \in Nat /\ r \in Nat /\ Most * (BrokerDelay + Round) = d + r
    BY Deadlines
  <2>2. AtBroker(0) = d
    BY Deadlines DEF AtBroker
  <2>3. KeepAlive \in Nat /\ KeepAlive >= Most * (BrokerDelay + Round)
    BY Periods DEF Patience
  <2>4. limit = d + r
    BY <2>2
  <2>5. \A i \in 1..Most : /\ AtBroker(i) \in Nat /\ AtBroker(i) + BrokerDelay <= d
                           /\ AtClient(i) \in Nat /\ AtClient(i) + Round <= limit
    BY <2>2, Deadlines
  <2> HIDE DEF d, r, limit
  <2>6. \A i \in 1..Most : AtBroker(i) + BrokerDelay <= limit
    BY <2>1, <2>4, <2>5, Periods
  <2> QED
    BY <2>1, <2>3, <2>4, <2>5, <2>6, Deadlines
<1> HIDE DEF limit
<1>2. PICK age \in Nat : Young(age) /\ age <= limit
  <2>0. /\ toClient \in Seq(Packet) /\ toBroker \in Seq(Packet)
        /\ brokerBusy \in Nat /\ brokerBusy <= BrokerDelay /\ Elapsed \in Nat /\ Elapsed <= Round
    BY Room, OnTime
  <2>1. Requests # 0 \/ Answers # 0
    <3>1. Requests + Answers = 1
      BY PingInvIs DEF Standing
    <3> QED
      BY <3>1
  <2>2. CASE Requests # 0
    <3>1. PICK i \in DOMAIN toBroker : toBroker[i].type = "PINGREQ"
      BY <2>0, <2>2, SomeOfNumber DEF Requests
    <3>2. Young(AtBroker(i) + brokerBusy)
      BY <3>1 DEF AgeInv
    <3>3. AtBroker(i) \in Nat /\ AtBroker(i) + BrokerDelay <= limit
      BY <1>1, <3>1, PlacesBound
    <3>4. AtBroker(i) + brokerBusy \in Nat /\ AtBroker(i) + brokerBusy <= limit
      BY <1>1, <2>0, <3>3
    <3> QED
      BY <3>2, <3>4
  <2>3. CASE Answers # 0
    <3>1. PICK i \in DOMAIN toClient : toClient[i].type = "PINGRESP"
      BY <2>0, <2>3, SomeOfNumber DEF Answers
    <3>2. Young(AtClient(i) + Elapsed)
      BY <3>1 DEF AgeInv
    <3>3. AtClient(i) \in Nat /\ AtClient(i) + Round <= limit
      BY <1>1, <3>1, PlacesBound
    <3>4. AtClient(i) + Elapsed \in Nat /\ AtClient(i) + Elapsed <= limit
      BY <1>1, <2>0, <3>3
    <3> QED
      BY <3>2, <3>4
  <2> QED
    BY <2>1, <2>2, <2>3
<1>3. age <= KeepAlive
  BY <1>1, <1>2
<1> QED
  BY <1>1, <1>2, <1>3, TimesTyped DEF Young, KeepaliveDue

\* Only a hung broker is given up on: when the keepalive period leaves room for
\* every packet that can be on its way to be handled by the broker and read by
\* loop(), a connection that is ended for an unanswered ping is one whose broker
\* has stopped answering (loop()).
THEOREM OnlyHungAreDropped ==
  ASSUME Patience
  PROVE  Spec => OnlyHungIsDropped
<1>1. TypeOK /\ AcceptanceInv /\ PingInv /\ SilenceInv /\ RoomInv /\ AgeInv /\ [Next]_vars
        => [state = "Connected" /\ state' = "ConnectionTimeout" /\ tcp = "open" => hung]_vars
  <2> SUFFICES ASSUME TypeOK, AcceptanceInv, PingInv, SilenceInv, RoomInv, AgeInv, Next,
                      Standing, state' = "ConnectionTimeout"
               PROVE  FALSE
    BY DEF Standing
  <2>1. LoopTimesOut
    <3>1. ~ConnectTimesOut
      BY DEF ConnectTimesOut, AcceptanceInv, Phases, Standing
    <3>2. ~(CallOffline \/ ConnectFails \/ ConnectOpens \/ Disconnect \/ ConnectAnswered)
      BY DEF CallOffline, ConnectFails, ConnectOpens, Disconnect, ConnectAnswered, NoticeLoss,
             TcpConnected, Standing
    <3>3. ~(Loop \/ LoopGivesUpOnTorn \/ CallbackReturns \/ ConnectReadsTorn \/ ConnectGivesUpOnTorn)
      BY DEF Loop, LoopGivesUpOnTorn, CallbackReturns, ConnectReadsTorn, ConnectGivesUpOnTorn, Standing
    <3>4. ~(Publish \/ Subscribe \/ Unsubscribe \/ Network \/ Tick)
      BY DEF Publish, Subscribe, Unsubscribe, Request, Network, clientVars, Tick, Standing
    <3> QED
      BY <3>1, <3>2, <3>3, <3>4 DEF Next, Proceed
  <2>2. KeepaliveDue /\ pingOutstanding
    BY <2>1 DEF LoopTimesOut, GivesUp
  <2> QED
    BY <2>2, PingsAreYoung
<1> QED
  BY <1>1, TypeCorrect, AcceptanceInvariant, PingInvariant, SilenceInvariant, RoomInvariant,
     AgeInvariant, PTL DEF Spec, OnlyHungIsDropped
=============================================================================
