--------------------------- MODULE ReliableClient ---------------------------
(***************************************************************************)
(* The MQTT client of libraries/pubsubclient.old, which every MQTT sketch  *)
(* but the Sonoff one uses, over the connection of MqttLink.  Unlike the   *)
(* 2.4 client it publishes with all three qualities of service and has     *)
(* connect, subscribe, unsubscribe and publish wait for the answer and     *)
(* retry (send_reliably, wait_for).                                        *)
(*                                                                         *)
(* A wait processes whatever arrives, and processing a QoS 2 publication   *)
(* waits in turn, so waits nest.  The variable stack is the program's call *)
(* stack, innermost call first; when it is empty the sketch is in its own  *)
(* loop.  A frame is a send_reliably() call, with the packet it sent, its  *)
(* retries and the place it is at in wait_for(), or a user callback:       *)
(*   "poll"      the loop that waits for the first byte                    *)
(*   "head"      the test of the reading loop                              *)
(*   "blocked"   readPacket(), which waits for bytes without a limit       *)
(*   "stuck"     readByte() in a packet that was cut off in its header     *)
(*   "callback"  the user's callback, with the publication it is run for   *)
(*                                                                         *)
(* The clients of the sketches are globals, so their fields start at zero. *)
(* Ages of lastInActivity and lastOutActivity stand for millis() values,   *)
(* as in PubSubClient.  X_Fault is X with a seeded fault, as there.        *)
(***************************************************************************)
EXTENDS MqttLink

CONSTANTS
  KeepAlive,      (* MQTT_KEEPALIVE                                         *)
  MaxRetries,     (* _max_retries                                           *)
  MaxGap,         (* the sketch calls loop() at least every MaxGap ticks    *)
  CallbackTime,   (* ticks the user's callback takes at most                *)
  RequestCap,     (* bound: no packet id above this one is used             *)
  MaxConnections, (* bound: how often the sketch opens a connection; the    *)
                  (* sketches that connect in setup() do it once            *)
  AppQos          (* qualities of service the sketch publishes with         *)

ASSUME ReliableAssumption ==
  /\ KeepAlive \in Nat \ {0} /\ MaxRetries \in Nat
  /\ MaxGap \in Nat /\ CallbackTime \in Nat
  /\ RequestCap \in Nat /\ MaxConnections \in Nat
  /\ AppQos \subseteq 0..2

VARIABLES
  stack,
  inAge, outAge,
  pingOutstanding,
  nextMsgId,
  waited,          (* ticks since the sketch or the callback went on        *)
  connections,     (* history: connections opened so far                    *)
  handled          (* history: requests the broker has processed on this one *)

clientVars == <<stack, inAge, outAge, pingOutstanding, nextMsgId, waited, connections,
                handled>>
vars == <<linkVars, clientVars>>
othersOfLink == <<tcp, session, unacked, hung, brokerBusy, silence>>

AgeCap == KeepAlive + 1
Older(a) == IF a < AgeCap THEN a + 1 ELSE a
WaitCap == MaxGap + CallbackTime

Frame == [phase : {"poll", "head", "blocked", "stuck", "callback"}, sent : Packet,
          retries : 0..MaxRetries]

TypeOK ==
  /\ LinkTypeOK
  /\ stack \in Seq(Frame)
  /\ inAge \in 0..AgeCap /\ outAge \in 0..AgeCap
  /\ pingOutstanding \in BOOLEAN
  /\ nextMsgId \in Nat
  /\ waited \in 0..WaitCap
  /\ connections \in 0..MaxConnections
  /\ handled \subseteq Packet

Init ==
  /\ LinkInit
  /\ stack = <<>>
  /\ inAge = 0 /\ outAge = 0
  /\ pingOutstanding = FALSE
  /\ nextMsgId = 0
  /\ waited = 0
  /\ connections = 0
  /\ handled = {}

----------------------------------------------------------------------------
(* Packets.  PUBLISH, SUBSCRIBE and the packets of the QoS 2 exchange wait *)
(* for an answer (Message::response_type).                                 *)

\* Unsubscribe is constructed with MQTTSUBSCRIBE, and its topics carry no QoS
\* byte: on the wire it is a SUBSCRIBE that ends too early.
UnsubscribePacket(id) == Cut(WithId("SUBSCRIBE", id))

\* PublishAck::write_variable_header has an empty body: the id is missing.
PubAckPacket(id) == Cut(Ctl("PUBACK"))

\* PublishComp is constructed with MQTTPUBREC.
PubCompPacket(id) == WithId("PUBREC", id)

\* Seeded fault: PUBREL waits for PUBREC.
ResponseType_RecForRel(p) ==
  CASE p.type = "CONNECT"              -> "CONNACK"
    [] p.type = "SUBSCRIBE" /\ ~p.cut  -> "SUBACK"
    [] p.type = "SUBSCRIBE" /\ p.cut   -> "UNSUBACK"
    [] p.type = "PUBLISH" /\ p.qos = 1 -> "PUBACK"
    [] p.type = "PUBLISH" /\ p.qos = 2 -> "PUBREC"
    [] p.type = "PUBREL"               -> "PUBREC"
    [] p.type = "PUBREC"               -> "PUBREL"

ResponseType(p) ==
  CASE p.type = "CONNECT"              -> "CONNACK"
    [] p.type = "SUBSCRIBE" /\ ~p.cut  -> "SUBACK"
    [] p.type = "SUBSCRIBE" /\ p.cut   -> "UNSUBACK"
    [] p.type = "PUBLISH" /\ p.qos = 1 -> "PUBACK"
    [] p.type = "PUBLISH" /\ p.qos = 2 -> "PUBREC"
    [] p.type = "PUBREL"               -> "PUBCOMP"
    [] p.type = "PUBREC"               -> "PUBREL"

Top == Head(stack)
InApp == stack = <<>>
InCallback == stack # <<>> /\ Top.phase = "callback"
Waiting(p) == [phase |-> "poll", sent |-> p, retries |-> 0]
Push(f) == <<f>> \o stack

\* The caller that goes on after a packet was processed is a reading loop.
AtHead(s) == IF s = <<>> THEN s ELSE <<[Head(s) EXCEPT !.phase = "head"]>> \o Tail(s)

----------------------------------------------------------------------------
(* Connections.                                                            *)

\* connected() stops a connection it finds dead; without one, loop(),
\* publish(), subscribe() and unsubscribe() do nothing more, and connect()
\* fails if TCP refuses.
CallOffline ==
  /\ InApp \/ InCallback
  /\ ~TcpConnected
  /\ Stop /\ handled' = {}
  /\ waited' = IF InApp THEN 0 ELSE waited
  /\ UNCHANGED <<stack, inAge, outAge, pingOutstanding, nextMsgId, connections>>

\* pingOutstanding is left as it was.
ConnectOpens ==
  /\ InApp /\ ~TcpConnected
  /\ connections < MaxConnections
  /\ connections' = connections + 1
  /\ OpenWith(Ctl("CONNECT")) /\ handled' = {}
  /\ nextMsgId' = 1
  /\ inAge' = 0 /\ outAge' = 0
  /\ stack' = <<Waiting(Ctl("CONNECT"))>>
  /\ waited' = 0
  /\ UNCHANGED pingOutstanding

Disconnect ==
  /\ InApp
  /\ Stop /\ handled' = {}
  /\ inAge' = 0 /\ outAge' = 0
  /\ waited' = 0
  /\ UNCHANGED <<stack, pingOutstanding, nextMsgId, connections>>

----------------------------------------------------------------------------
(* send_reliably() and wait_for()                                          *)

\* Seeded fault: the retries are counted one too far.
Retry_OneMore == Top.retries <= MaxRetries

\* send_reliably() has not had its answer: it sends again, or gives up.  A
\* failed connect() stops the connection; a failed PUBREC inside _process_message
\* only ends that, and the caller reads on.
Retry == Top.retries < MaxRetries

Resend ==
  /\ stack' = <<[Top EXCEPT !.phase = "poll", !.retries = @ + 1]>> \o Tail(stack)
  /\ toBroker' = Sent(<<Top.sent>>)
  /\ outAge' = 0
  /\ UNCHANGED <<othersOfLink, toClient, handled>>

GiveUp ==
  /\ stack' = Tail(stack)
  /\ IF Top.sent.type = "CONNECT" THEN Stop /\ handled' = {}
                                  ELSE UNCHANGED <<linkVars, handled>>
  /\ UNCHANGED outAge

\* The first loop lasts while inAge <= keepalive and nothing is available, the
\* second one until inAge >= keepalive.
WaitFails ==
  /\ ~InApp
  /\ \/ Top.phase = "poll" /\ toClient = <<>> /\ inAge > KeepAlive
     \/ Top.phase = "head" /\ inAge >= KeepAlive
  /\ IF Retry THEN Resend ELSE GiveUp
  /\ waited' = 0
  /\ UNCHANGED <<inAge, pingOutstanding, nextMsgId, connections>>

\* The program enters readPacket().
WaitReads ==
  /\ ~InApp
  /\ \/ Top.phase = "poll" /\ toClient # <<>> /\ stack' = AtHead(stack)
     \/ /\ Top.phase = "head" /\ inAge < KeepAlive
        /\ stack' = <<[Top EXCEPT !.phase = "blocked"]>> \o Tail(stack)
  /\ UNCHANGED <<linkVars, inAge, outAge, pingOutstanding, nextMsgId, waited, connections,
                 handled>>

----------------------------------------------------------------------------
(* readPacket() and _process_message()                                     *)

\* Seeded fault: the packet id is not looked at.
Answers_AnyId(p) == ~InApp /\ p.type = ResponseType(Top.sent)

Answers(p) ==
  /\ ~InApp
  /\ p.type = ResponseType(Top.sent)
  /\ Top.sent.id \in {0, p.id}

\* wait_for() returns true, and so does send_reliably(): publish() goes on with
\* PUBREL, _process_message with PUBCOMP, and the other calls are over.
Succeed ==
  LET p == Top.sent IN
  \/ /\ p.type = "PUBLISH" /\ p.qos = 2
     /\ stack' = <<Waiting(WithId("PUBREL", p.id))>> \o Tail(stack)
     /\ toBroker' = Sent(<<WithId("PUBREL", p.id)>>)
     /\ outAge' = 0
  \/ /\ p.type = "PUBREC"
     /\ stack' = AtHead(Tail(stack))
     /\ toBroker' = Sent(<<PubCompPacket(p.id)>>)
     /\ outAge' = 0
  \/ /\ ~(p.type = "PUBLISH" /\ p.qos = 2) /\ p.type # "PUBREC"
     /\ stack' = Tail(stack)
     /\ UNCHANGED <<toBroker, outAge>>

PingAfter(p, ping) == IF p.type = "PINGRESP" THEN FALSE ELSE ping

\* _process_message(p) for a packet nobody waits for, after the packets wrote
\* were written.
Handle(p, wrote, out, ping) ==
  \/ /\ p.type = "PUBLISH"
     /\ stack' = <<[phase |-> "callback", sent |-> p, retries |-> 0]>> \o AtHead(stack)
     /\ toBroker' = Sent(wrote)
     /\ outAge' = out /\ pingOutstanding' = ping
  \/ /\ p.type = "PINGREQ"
     /\ stack' = AtHead(stack)
     /\ toBroker' = Sent(wrote \o <<Ctl("PINGRESP")>>)
     /\ outAge' = 0 /\ pingOutstanding' = ping
  \/ /\ p.type \notin {"PUBLISH", "PINGREQ"}
     /\ stack' = AtHead(stack)
     /\ toBroker' = Sent(wrote)
     /\ outAge' = out /\ pingOutstanding' = PingAfter(p, ping)

\* What readPacket() may make of the bytes of p.  A packet cut behind its header
\* is taken as complete, with whatever the heap held for the missing bytes.
Parsed(p) ==
  CASE ~p.cut -> {p}
    [] p.cut /\ p.type \in {"PINGREQ", "PINGRESP"} -> {}
    [] OTHER -> {[p EXCEPT !.id = id, !.cut = FALSE] :
                   id \in {p.id} \cup MsgIds \cup 1..RequestCap}

\* A packet cut in its header keeps readByte() waiting for good.
BlocksIn(p, wrote, out, ping) ==
  /\ p.cut
  /\ stack' = Push([phase |-> "stuck", sent |-> p, retries |-> 0])
  /\ toBroker' = Sent(wrote)
  /\ outAge' = out /\ pingOutstanding' = ping
  /\ UNCHANGED inAge

WaitProcesses ==
  /\ ~InApp /\ Top.phase = "blocked" /\ toClient # <<>>
  /\ toClient' = Tail(toClient)
  /\ \/ BlocksIn(Head(toClient), <<>>, outAge, pingOutstanding)
     \/ \E p \in Parsed(Head(toClient)) :
          /\ inAge' = 0
          /\ \/ Answers(p) /\ Succeed /\ UNCHANGED pingOutstanding
             \/ ~Answers(p) /\ Handle(p, <<>>, outAge, pingOutstanding)
  /\ waited' = 0
  /\ UNCHANGED <<othersOfLink, nextMsgId, connections, handled>>

\* What follows a callback in _process_message.
CallbackReturns ==
  /\ InCallback
  /\ LET p == Top.sent IN
     \/ /\ p.qos = 0
        /\ stack' = Tail(stack)
        /\ UNCHANGED <<toBroker, outAge>>
     \/ /\ p.qos = 1
        /\ stack' = Tail(stack)
        /\ toBroker' = Sent(<<PubAckPacket(p.id)>>)
        /\ outAge' = 0
     \/ /\ p.qos = 2
        /\ stack' = <<Waiting(WithId("PUBREC", p.id))>> \o Tail(stack)
        /\ toBroker' = Sent(<<WithId("PUBREC", p.id)>>)
        /\ outAge' = 0
  /\ waited' = 0
  /\ UNCHANGED <<othersOfLink, toClient, inAge, pingOutstanding, nextMsgId, connections,
                 handled>>

----------------------------------------------------------------------------
(* loop()                                                                  *)

KeepaliveDue == inAge > KeepAlive \/ outAge > KeepAlive
GivesUp == KeepaliveDue /\ pingOutstanding

LoopTimesOut ==
  /\ InApp /\ TcpConnected
  /\ GivesUp
  /\ Stop /\ handled' = {}
  /\ waited' = 0
  /\ UNCHANGED <<stack, inAge, outAge, pingOutstanding, nextMsgId, connections>>

Loop ==
  /\ InApp /\ TcpConnected
  /\ ~GivesUp
  /\ LET ins   == IF KeepaliveDue THEN 0 ELSE inAge
         out   == IF KeepaliveDue THEN 0 ELSE outAge
         ping  == pingOutstanding \/ KeepaliveDue
         wrote == IF KeepaliveDue THEN <<Ctl("PINGREQ")>> ELSE <<>>
     IN \/ /\ toClient = <<>>
           /\ toBroker' = Sent(wrote)
           /\ inAge' = ins /\ outAge' = out /\ pingOutstanding' = ping
           /\ UNCHANGED <<toClient, stack>>
        \/ /\ toClient # <<>>
           /\ toClient' = Tail(toClient)
           /\ \/ BlocksIn(Head(toClient), wrote, out, ping)
              \/ \E p \in Parsed(Head(toClient)) : inAge' = 0 /\ Handle(p, wrote, out, ping)
  /\ waited' = 0
  /\ UNCHANGED <<othersOfLink, nextMsgId, connections, handled>>

----------------------------------------------------------------------------
(* Operations of the sketch.                                               *)

RoomToAsk == Len(toClient) + Len(toBroker) < QueueCap

\* A QoS 0 publication, which callbacks send too.
PublishOnce ==
  /\ InApp \/ InCallback
  /\ TcpConnected /\ RoomToAsk
  /\ toBroker' = Sent(<<Publication(0, 0, TRUE)>>)
  /\ outAge' = 0
  /\ UNCHANGED <<othersOfLink, toClient, stack, inAge, pingOutstanding, nextMsgId, waited,
                 connections, handled>>

\* next_packet_id() takes its 16 bit counter from 65535 to 1.
NextPacketId == IF (nextMsgId + 1) % 65536 = 0 THEN 1 ELSE nextMsgId + 1

SendReliably(p) ==
  /\ InApp /\ TcpConnected /\ RoomToAsk
  /\ nextMsgId < RequestCap
  /\ nextMsgId' = NextPacketId
  /\ stack' = <<Waiting(p)>>
  /\ toBroker' = Sent(<<p>>)
  /\ outAge' = 0
  /\ waited' = 0
  /\ UNCHANGED <<othersOfLink, toClient, inAge, pingOutstanding, connections, handled>>

PublishReliably == \E q \in AppQos \ {0} : SendReliably(Publication(NextPacketId, q, TRUE))
Subscribe       == SendReliably(WithId("SUBSCRIBE", NextPacketId))
Unsubscribe     == SendReliably(UnsubscribePacket(NextPacketId))

----------------------------------------------------------------------------
(* Time and the network.                                                   *)

Overdue ==
  \/ InApp /\ waited >= MaxGap
  \/ InCallback /\ waited >= CallbackTime
  \/ /\ ~InApp
     /\ \/ Top.phase = "poll" /\ (toClient # <<>> \/ inAge > KeepAlive)
        \/ Top.phase = "head"
        \/ Top.phase = "blocked" /\ toClient # <<>>

Tick ==
  /\ ~Overdue
  /\ LinkTick
  /\ inAge' = Older(inAge) /\ outAge' = Older(outAge)
  /\ waited' = IF waited < WaitCap THEN waited + 1 ELSE waited
  /\ UNCHANGED <<stack, pingOutstanding, nextMsgId, connections, handled>>

\* The broker or the network moves; handled records the requests it takes.
Network ==
  /\ LinkNext
  /\ handled' = IF Len(toBroker') < Len(toBroker) /\ tcp' = "open" /\ ~hung'
                  THEN handled \cup {p \in {Head(toBroker)} : p.id # 0} ELSE handled
  /\ UNCHANGED <<stack, inAge, outAge, pingOutstanding, nextMsgId, waited, connections>>

Proceed ==
  \/ CallOffline \/ LoopTimesOut \/ Loop
  \/ WaitFails \/ WaitReads \/ WaitProcesses \/ CallbackReturns

Next ==
  \/ Proceed
  \/ ConnectOpens \/ Disconnect
  \/ PublishOnce \/ PublishReliably \/ Subscribe \/ Unsubscribe
  \/ Network
  \/ Tick

Spec == Init /\ [][Next]_vars

\* As for the 2.4 client: the sketch goes on calling loop(), the program's waits
\* end when they can, the broker processes what it receives unless it hangs,
\* and time passes.
FairSpec == /\ Spec
            /\ WF_vars(Tick)
            /\ WF_vars(Proceed)
            /\ WF_vars(Network /\ BrokerReceive)

----------------------------------------------------------------------------
(* Properties                                                              *)

Count(q, p) == Cardinality({i \in DOMAIN q : q[i] = p})

\* The innermost wait has read its answer and is over, or publish() has gone on
\* from PUBLISH to PUBREL.
WaitSucceeds ==
  /\ stack # <<>> /\ Top.phase = "blocked"
  /\ Len(stack') <= Len(stack)
  /\ stack' = <<>> \/ Head(stack').sent # Top.sent

\* A call that reports success has been served: the broker has processed that
\* very packet on this connection, however many answers to earlier calls, their
\* retries and other packets arrive in between (send_reliably() and wait_for()).
SuccessMeansHandled ==
  [][WaitSucceeds /\ Top.sent.id # 0 /\ tcp' = "open" => Top.sent \in handled]_vars

\* However answers are lost or late, the broker never has more copies of a
\* request to process than one and the retries (send_reliably()).
CopiesBounded ==
  \A i \in DOMAIN toBroker :
    toBroker[i].type \in {"CONNECT", "SUBSCRIBE", "PUBREL"} \/ toBroker[i].id # 0
      => Count(toBroker, toBroker[i]) <= MaxRetries + 1

\* A call that waits comes back while the broker answers.
CallsReturn == ~InApp ~> InApp \/ hung \/ tcp # "open"
=============================================================================
