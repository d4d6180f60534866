---------------------------- MODULE PubSubClient ----------------------------
(***************************************************************************)
(* The MQTT client of libraries/pubsubclient (version 2.4), used by the    *)
(* Sonoff sketch: connect, loop, publish, subscribe, unsubscribe and       *)
(* disconnect over the connection of MqttLink, under an application that   *)
(* calls them one at a time.                                               *)
(*                                                                         *)
(* The firmware is single threaded, so a call is one atomic step except    *)
(* where it lets time pass: connect() waits for CONNACK, readByte() waits  *)
(* for the rest of a packet, and loop() runs the user's callback.  The     *)
(* variable pc says which of these the program is in.                      *)
(*                                                                         *)
(* Time is counted in ticks.  millis() values are kept as ages: inAge is   *)
(* millis() - lastInActivity, outAge is millis() - lastOutActivity; they   *)
(* are compared with the timeouts only, so they saturate above both.       *)
(*                                                                         *)
(* A definition named X_Fault, placed before X, is X with a seeded fault:  *)
(* the checks put it in the place of X to see a property fail.             *)
(***************************************************************************)
EXTENDS MqttLink

CONSTANTS
  KeepAlive,     (* MQTT_KEEPALIVE                                          *)
  SocketTimeout, (* MQTT_SOCKET_TIMEOUT                                     *)
  MaxGap,        (* the application calls loop() at least every MaxGap ticks *)
  CallbackTime,  (* ticks the user's callback takes at most                 *)
  IdSpace        (* nextMsgId is a uint16_t; its range is 0..IdSpace-1      *)

ASSUME ClientAssumption ==
  /\ KeepAlive \in Nat /\ SocketTimeout \in Nat \ {0}
  /\ MaxGap \in Nat /\ CallbackTime \in Nat
  /\ IdSpace \in Nat /\ IdSpace > 2

VARIABLES
  state,           (* _state, what state() reports                          *)
  pc,              (* where the program is                                  *)
  inAge, outAge,   (* ages of lastInActivity and lastOutActivity            *)
  pingOutstanding,
  nextMsgId,
  waited,          (* ticks since pc changed or loop() returned             *)
  current,         (* the publication the callback is running for           *)
  dropped          (* history: ids of QoS 1 publications too long to keep   *)

clientVars == <<state, pc, inAge, outAge, pingOutstanding, nextMsgId, waited,
                current, dropped>>
vars == <<linkVars, clientVars>>

Codes == {"Disconnected", "Connected", "ConnectFailed", "ConnectionLost",
          "ConnectionTimeout", "Refused"}

\* Above both timeouts an age needs no longer be told apart.
AgeCap == IF KeepAlive > SocketTimeout THEN KeepAlive + 1 ELSE SocketTimeout + 1
Older(a) == IF a < AgeCap THEN a + 1 ELSE a

\* A wait is compared with three periods, and above their sum no longer counted.
WaitCap == MaxGap + CallbackTime + SocketTimeout

TypeOK ==
  /\ LinkTypeOK
  /\ state \in Codes
  /\ pc \in {"app", "awaitAck", "tornAck", "tornLoop", "callback"}
  /\ inAge \in 0..AgeCap /\ outAge \in 0..AgeCap
  /\ pingOutstanding \in BOOLEAN
  /\ nextMsgId \in 0..(IdSpace - 1)
  /\ waited \in Nat
  /\ current \in Packet
  /\ dropped \subseteq Nat

NoPacket == Ctl("CONNECT")

Init ==
  /\ LinkInit
  /\ state = "Disconnected"
  /\ pc = "app"
  /\ inAge = 0 /\ outAge = 0
  /\ pingOutstanding = FALSE
  /\ nextMsgId = 0
  /\ waited = 0
  /\ current = NoPacket
  /\ dropped = {}

NewSession == dropped' = {}

----------------------------------------------------------------------------
(* connected(), called first by every operation: a connection found dead   *)
(* is reported as lost and stopped.                                        *)

CanCall == pc \in {"app", "callback"}

NoticeLoss ==
  /\ ~TcpConnected
  /\ IF state = "Connected"
       THEN state' = "ConnectionLost" /\ Stop /\ NewSession
       ELSE UNCHANGED <<state, linkVars, dropped>>
  /\ UNCHANGED <<pc, inAge, outAge, pingOutstanding, nextMsgId, current>>

\* publish(), subscribe(), unsubscribe() or loop() without a connection.
CallOffline ==
  /\ CanCall
  /\ NoticeLoss
  /\ waited' = IF pc = "app" THEN 0 ELSE waited

----------------------------------------------------------------------------
(* connect()                                                               *)

\* Seeded fault: the return code is not looked at.
Accepts_AnyCode(p) == p.type = "CONNACK"

\* connect() looks at the length of the packet and its last byte, the return
\* code; a broker sends nothing but CONNACK before it has accepted.
Accepts(p) == p.type = "CONNACK" /\ p.rc = 0

\* Seeded fault: the flag of the earlier connection is kept.
PingAtConnect_Kept == pingOutstanding

\* What pingOutstanding is after a successful connect().
PingAtConnect == FALSE

\* Seeded fault: CONNACK is waited for without a limit.
AckTimedOut_Never == FALSE

AckTimedOut == inAge >= SocketTimeout

\* connected() has just been evaluated: without a connection it cannot leave
\* state at Connected, and TCP may refuse.
ConnectFails ==
  /\ pc = "app" /\ ~TcpConnected
  /\ state' = "ConnectFailed"
  /\ IF state = "Connected" THEN Stop /\ NewSession
                            ELSE UNCHANGED <<linkVars, dropped>>
  /\ UNCHANGED <<pc, inAge, outAge, pingOutstanding, nextMsgId, waited, current>>

ConnectOpens ==
  /\ pc = "app" /\ ~TcpConnected
  /\ state' = IF state = "Connected" THEN "ConnectionLost" ELSE state
  /\ OpenWith(Ctl("CONNECT")) /\ NewSession
  /\ nextMsgId' = 1
  /\ inAge' = 0 /\ outAge' = 0
  /\ pc' = "awaitAck" /\ waited' = 0
  /\ UNCHANGED <<pingOutstanding, current>>

\* while (!_client->available()) gives up after MQTT_SOCKET_TIMEOUT.
ConnectTimesOut ==
  /\ pc = "awaitAck" /\ toClient = <<>> /\ AckTimedOut
  /\ state' = "ConnectionTimeout"
  /\ Stop /\ NewSession
  /\ pc' = "app" /\ waited' = 0
  /\ UNCHANGED <<inAge, outAge, pingOutstanding, nextMsgId, current>>

ConnectAnswered ==
  /\ pc = "awaitAck" /\ toClient # <<>> /\ ~Head(toClient).cut
  /\ LET p == Head(toClient) IN
     IF Accepts(p)
       THEN /\ state' = "Connected"
            /\ inAge' = 0
            /\ pingOutstanding' = PingAtConnect
            /\ toClient' = Tail(toClient)
            /\ UNCHANGED <<tcp, toBroker, session, unacked, hung, brokerBusy, silence,
                           dropped>>
       ELSE /\ state' = IF p.type = "CONNACK" THEN "Refused" ELSE state
            /\ Stop /\ NewSession
            /\ UNCHANGED <<inAge, pingOutstanding>>
  /\ pc' = "app" /\ waited' = 0
  /\ UNCHANGED <<outAge, nextMsgId, current>>

ConnectReadsTorn ==
  /\ pc = "awaitAck" /\ toClient # <<>> /\ Head(toClient).cut
  /\ toClient' = Tail(toClient)
  /\ pc' = "tornAck" /\ waited' = 0
  /\ UNCHANGED <<tcp, toBroker, session, unacked, hung, brokerBusy, silence, state,
                 inAge, outAge, pingOutstanding, nextMsgId, current, dropped>>

\* readByte() has timed out, readPacket() returned 0: stop, with state as it was.
ConnectGivesUpOnTorn ==
  /\ pc = "tornAck" /\ waited >= SocketTimeout
  /\ Stop /\ NewSession
  /\ pc' = "app" /\ waited' = 0
  /\ UNCHANGED <<state, inAge, outAge, pingOutstanding, nextMsgId, current>>

----------------------------------------------------------------------------
(* loop()                                                                  *)

\* Seeded fault: only what comes in is looked at.
KeepaliveDue_InboundOnly == inAge > KeepAlive

KeepaliveDue == inAge > KeepAlive \/ outAge > KeepAlive

\* Seeded fault: a ping is not waited for.
GivesUp_AtOnce == KeepaliveDue

\* Seeded fault: traffic in one direction hides the silence of the other.
GivesUp_BothStale == inAge > KeepAlive /\ outAge > KeepAlive /\ pingOutstanding

\* The keepalive is due again and the last ping is still unanswered.
GivesUp == KeepaliveDue /\ pingOutstanding

\* Seeded fault: the answer to a ping is ignored.
PingAfter_Ignored(p, ping) == ping

PingAfter(p, ping) == IF p.type = "PINGRESP" THEN FALSE ELSE ping

LoopTimesOut ==
  /\ pc = "app" /\ TcpConnected
  /\ GivesUp
  /\ state' = "ConnectionTimeout"
  /\ Stop /\ NewSession
  /\ waited' = 0
  /\ UNCHANGED <<pc, inAge, outAge, pingOutstanding, nextMsgId, current>>

\* Otherwise loop() sends the PINGREQ that is due, then reads at most one
\* packet p.  ping and out are pingOutstanding and the age of lastOutActivity
\* after that PINGREQ, ins the age of lastInActivity.
LoopEnds(ins, out, ping) ==
  /\ inAge' = ins /\ outAge' = out
  /\ pingOutstanding' = ping
  /\ pc' = "app" /\ waited' = 0
  /\ UNCHANGED <<current, dropped>>

LoopReads(p, ins, out, ping, sent) ==
  \/ /\ p.cut
     /\ toBroker' = Sent(sent)
     /\ inAge' = ins /\ outAge' = out /\ pingOutstanding' = ping
     /\ pc' = "tornLoop" /\ waited' = 0
     /\ UNCHANGED <<current, dropped>>
  \/ /\ ~p.cut /\ p.type = "PUBLISH" /\ p.fits
     /\ toBroker' = Sent(sent)
     /\ inAge' = 0 /\ outAge' = out /\ pingOutstanding' = ping
     /\ pc' = "callback" /\ waited' = 0
     /\ current' = p
     /\ UNCHANGED dropped
  \/ /\ ~p.cut /\ p.type = "PUBLISH" /\ ~p.fits
     /\ toBroker' = Sent(sent)
     /\ inAge' = ins /\ outAge' = out /\ pingOutstanding' = ping
     /\ pc' = "app" /\ waited' = 0
     /\ dropped' = IF p.qos = 1 THEN dropped \cup {p.id} ELSE dropped
     /\ UNCHANGED current
  \/ /\ ~p.cut /\ p.type = "PINGREQ"
     /\ toBroker' = Sent(sent \o <<Ctl("PINGRESP")>>)
     /\ LoopEnds(0, out, ping)
  \/ /\ ~p.cut /\ p.type \notin {"PUBLISH", "PINGREQ"}
     /\ toBroker' = Sent(sent)
     /\ LoopEnds(0, out, PingAfter(p, ping))

Loop ==
  /\ pc = "app" /\ TcpConnected
  /\ ~GivesUp
  /\ LET ins  == IF KeepaliveDue THEN 0 ELSE inAge
         out  == IF KeepaliveDue THEN 0 ELSE outAge
         ping == pingOutstanding \/ KeepaliveDue
         sent == IF KeepaliveDue THEN <<Ctl("PINGREQ")>> ELSE <<>>
     IN \/ /\ toClient = <<>>
           /\ toBroker' = Sent(sent)
           /\ LoopEnds(ins, out, ping)
           /\ UNCHANGED toClient
        \/ /\ toClient # <<>>
           /\ toClient' = Tail(toClient)
           /\ LoopReads(Head(toClient), ins, out, ping, sent)
  /\ UNCHANGED <<tcp, session, unacked, hung, brokerBusy, silence,
                 state, nextMsgId>>

\* readByte() has timed out: the packet is ignored.
LoopGivesUpOnTorn ==
  /\ pc = "tornLoop" /\ waited >= SocketTimeout
  /\ pc' = "app" /\ waited' = 0
  /\ UNCHANGED <<linkVars, state, inAge, outAge, pingOutstanding, nextMsgId, current,
                 dropped>>

\* Seeded fault: the newest id is acknowledged.
AckId_Newest == nextMsgId

\* The callback returns.  For QoS 1 the PUBACK follows, and lastOutActivity is
\* set to t, the time loop() began, which is also what lastInActivity holds.
AckId == current.id

\* Seeded fault: the other bit of the quality is looked at.
AckWanted_Qos2Bit == current.qos = 2

AckWanted == current.qos = 1

CallbackReturns ==
  /\ pc = "callback"
  /\ IF AckWanted
       THEN /\ toBroker' = Sent(<<WithId("PUBACK", AckId)>>)
            /\ outAge' = inAge
       ELSE UNCHANGED <<toBroker, outAge>>
  /\ pc' = "app" /\ waited' = 0
  /\ current' = NoPacket
  /\ UNCHANGED <<tcp, toClient, session, unacked, hung, brokerBusy, silence, state,
                 inAge, pingOutstanding, nextMsgId, dropped>>

----------------------------------------------------------------------------
(* Operations of the application, from its own loop or from the callback.  *)

\* publish() and publish_P() are QoS 0 only.
Publish ==
  /\ CanCall /\ TcpConnected
  /\ Len(toClient) + Len(toBroker) < QueueCap
  /\ toBroker' = Sent(<<Publication(0, 0, TRUE)>>)
  /\ outAge' = 0
  /\ UNCHANGED <<tcp, toClient, session, unacked, hung, brokerBusy, silence, state, pc,
                 inAge, pingOutstanding, nextMsgId, waited, current, dropped>>

NextId == IF (nextMsgId + 1) % IdSpace = 0 THEN 1 ELSE nextMsgId + 1

\* subscribe() and unsubscribe() do not wait for the broker's answer.
Request(type) ==
  /\ CanCall /\ TcpConnected
  /\ Len(toClient) + Len(toBroker) < QueueCap
  /\ nextMsgId' = NextId
  /\ toBroker' = Sent(<<WithId(type, NextId)>>)
  /\ outAge' = 0
  /\ UNCHANGED <<tcp, toClient, session, unacked, hung, brokerBusy, silence, state, pc,
                 inAge, pingOutstanding, waited, current, dropped>>

Subscribe   == Request("SUBSCRIBE")
Unsubscribe == Request("UNSUBSCRIBE")

Disconnect ==
  /\ pc = "app"
  /\ state' = "Disconnected"
  /\ Stop /\ NewSession
  /\ inAge' = 0 /\ outAge' = 0
  /\ UNCHANGED <<pc, pingOutstanding, nextMsgId, waited, current>>

----------------------------------------------------------------------------
(* Time.  A wait that is over ends before the clock moves on, the          *)
(* application returns to loop() within MaxGap, and a callback ends within *)
(* CallbackTime.                                                           *)

Overdue ==
  \/ pc = "app" /\ waited >= MaxGap
  \/ pc = "callback" /\ waited >= CallbackTime
  \/ pc = "awaitAck" /\ (toClient # <<>> \/ AckTimedOut)
  \/ pc \in {"tornAck", "tornLoop"} /\ waited >= SocketTimeout

Tick ==
  /\ ~Overdue
  /\ LinkTick
  /\ inAge' = Older(inAge) /\ outAge' = Older(outAge)
  /\ waited' = IF waited < WaitCap THEN waited + 1 ELSE waited
  /\ UNCHANGED <<state, pc, pingOutstanding, nextMsgId, current, dropped>>

Network == LinkNext /\ UNCHANGED clientVars

\* A call that makes the program's own progress, as opposed to one it may make.
Proceed ==
  \/ CallOffline \/ LoopTimesOut \/ Loop \/ LoopGivesUpOnTorn \/ CallbackReturns
  \/ ConnectTimesOut \/ ConnectAnswered \/ ConnectReadsTorn \/ ConnectGivesUpOnTorn

Next ==
  \/ Proceed
  \/ ConnectFails \/ ConnectOpens
  \/ Publish \/ Subscribe \/ Unsubscribe \/ Disconnect
  \/ Network
  \/ Tick

Spec == Init /\ [][Next]_vars

\* loop() is called forever and the waits of the program end, a broker that is
\* not hung processes what it receives, and time passes.  Nothing is asked of
\* the other calls, which the application need never make.
FairSpec == /\ Spec
            /\ WF_vars(Tick)
            /\ WF_vars(Proceed)
            /\ WF_vars(BrokerReceive /\ UNCHANGED clientVars)

----------------------------------------------------------------------------
(* Properties                                                              *)

Has(q, p)       == \E i \in DOMAIN q : q[i] = p
Count(q, type)  == Cardinality({i \in DOMAIN q : q[i].type = type})

\* state() says connected on a live connection only if the broker has accepted
\* that very connection: no leftover code from an earlier one, no ignored
\* refusal (connect() and connected()).
ConnectedMeansAccepted ==
  state = "Connected" /\ tcp = "open" => session = "accepted"

\* ConnectedMeansAccepted is inductive with two more facts: which phases of the
\* program the connection and the code go with, and that an acceptance on its
\* way comes from this connection's broker session.
Phases ==
  IF pc \in {"awaitAck", "tornAck"}
    THEN state # "Connected" /\ tcp # "closed"
    ELSE state = "Connected" \/ tcp = "closed"
AcceptanceOnWay ==
  tcp = "open" /\ (\E i \in DOMAIN toClient : Accepts(toClient[i])) => session = "accepted"
AcceptanceInv == ConnectedMeansAccepted /\ Phases /\ AcceptanceOnWay

\* One ping is accounted for at any time: while online, pingOutstanding is set
\* exactly when a PINGREQ or its answer is still on the way (loop()).
PingAccounting ==
  state = "Connected" /\ tcp = "open" /\ ~hung =>
    Count(toBroker, "PINGREQ") + Count(toClient, "PINGRESP")
      = IF pingOutstanding THEN 1 ELSE 0

\* Places a QoS 1 publication the broker still wants acknowledged can be in.
Unread     == {toClient[i].id : i \in {j \in DOMAIN toClient :
                 toClient[j].type = "PUBLISH" /\ toClient[j].qos = 1}}
InCallback == IF pc = "callback" /\ current.qos = 1 THEN {current.id} ELSE {}
Acked      == {toBroker[i].id : i \in {j \in DOMAIN toBroker : toBroker[j].type = "PUBACK"}}

\* A QoS 1 publication is acknowledged once, with its own id and only after
\* its callback: while the connection lives, each unacknowledged id is in
\* exactly one place, and nothing else is ever acknowledged (loop()).
AckConservation ==
  tcp = "open" /\ ~hung =>
    /\ unacked = Unread \cup InCallback \cup dropped \cup Acked
    /\ Unread \cap (InCallback \cup dropped \cup Acked) = {}
    /\ InCallback \cap (dropped \cup Acked) = {}
    /\ dropped \cap Acked = {}
    /\ Cardinality(Acked) = Count(toBroker, "PUBACK")

\* The keepalive works: while an accepted connection lives, the broker is never
\* left without a packet for longer than the keepalive period and the time
\* one round of the application takes, so it has no reason to expire the
\* session (MQTT lets it after 1.5 keepalive periods).
SilenceBounded ==
  session = "accepted" /\ ~hung =>
    silence <= KeepAlive + MaxGap + CallbackTime + BrokerDelay

\* Only a hung broker is given up on: loop() ends a live connection for a
\* timeout only if the broker really has stopped answering.
OnlyHungIsDropped ==
  [][state = "Connected" /\ state' = "ConnectionTimeout" /\ tcp = "open" => hung]_vars

\* The abstract session that state(), connected() and the keepalive promise.
Session == INSTANCE MqttSession WITH
  phase      <- IF pc \in {"awaitAck", "tornAck"} THEN "opening"
                ELSE IF state = "Connected" THEN "online" ELSE "offline",
  code       <- state,
  granted    <- session = "accepted" \/ state = "Connected" \/ Has(toClient, ConnAck(0)),
  alive      <- tcp = "open",
  unanswered <- pingOutstanding
ImplementsSession == Session!Spec

\* A hung connection is detected and closed (keepalive_spec.cpp: "disconnects a
\* hung connection").
HungIsNoticed == hung /\ state = "Connected" ~> ~(hung /\ state = "Connected")

\* connect() returns, whatever the network does (connect_spec.cpp: "fails to
\* connect if no response received after 15 seconds").
ConnectReturns == pc \in {"awaitAck", "tornAck"} ~> pc = "app"

\* A QoS 1 publication that fits is acknowledged, unless its connection ends or
\* its broker hangs first, however the callback, other packets and the
\* application's own calls are interleaved (loop()).
EventuallyAcked ==
  \A id \in MsgIds :
    id \in unacked ~> id \notin unacked \/ id \in dropped \/ hung \/ tcp # "open"

=============================================================================
