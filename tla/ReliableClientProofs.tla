------------------------ MODULE ReliableClientProofs ------------------------
(* What TLAPS proves of the old client: its types, that a call that         *)
(* succeeds has been served, and that no request is in the broker's queue   *)
(* more often than its retries allow.                                       *)
EXTENDS ReliableClient, MqttLinkProofs
----------------------------------------------------------------------------
(* Type correctness.                                                       *)

\* What the proofs below need of the constants.
LEMMA Constants ==
  /\ KeepAlive \in Nat \ {0} /\ MaxRetries \in Nat
  /\ MaxGap \in Nat /\ CallbackTime \in Nat /\ WaitCap \in Nat
  /\ RequestCap \in Nat /\ MaxConnections \in Nat
  /\ AgeCap \in Nat /\ AgeCap > KeepAlive
  /\ \A q \in AppQos \ {0} : q \in {1, 2}
BY ReliableAssumption DEF ReliableAssumption, WaitCap, AgeCap

LEMMA OlderTyped == \A a \in 0..AgeCap : Older(a) \in 0..AgeCap
BY Constants DEF Older

\* The packets this client writes.
LEMMA WritesTyped ==
  /\ \A id \in Nat : UnsubscribePacket(id) \in Packet
  /\ \A id \in Nat : PubCompPacket(id) \in Packet
  /\ \A id \in Nat : PubAckPacket(id) \in Packet
  /\ \A id \in Nat : WithId("PUBREL", id) \in Packet /\ WithId("PUBREC", id) \in Packet
                     /\ WithId("SUBSCRIBE", id) \in Packet
  /\ \A id \in Nat, q \in 0..2 : Publication(id, q, TRUE) \in Packet
  /\ Ctl("CONNECT") \in Packet /\ Ctl("PINGREQ") \in Packet /\ Ctl("PINGRESP") \in Packet
<1>1. {"SUBSCRIBE", "PUBREC", "PUBREL", "PUBACK", "CONNECT", "PINGREQ", "PINGRESP"} \subseteq PacketTypes
  BY DEF PacketTypes
<1> QED
  BY <1>1, PacketsTyped, CutTyped DEF UnsubscribePacket, PubCompPacket, PubAckPacket

\* What readPacket() makes of a packet is a packet.
LEMMA ParsedTyped ==
  ASSUME NEW p \in Packet, NEW r \in Parsed(p)
  PROVE  r \in Packet
<1>1. /\ \A id \in {p.id} \cup MsgIds \cup 1..RequestCap : id \in Nat
  BY LinkConstants, Constants DEF Packet
<1>2. \A id \in Nat : [p EXCEPT !.id = id, !.cut = FALSE] \in Packet
  BY DEF Packet
<1> QED
  BY <1>1, <1>2 DEF Parsed

\* The call stack, taken apart and put together.
LEMMA StackParts ==
  ASSUME NEW s \in Seq(Frame), s # <<>>
  PROVE  /\ Head(s) \in Frame /\ Tail(s) \in Seq(Frame)
         /\ Len(s) \in Nat \ {0} /\ Len(Tail(s)) = Len(s) - 1
BY HeadTailProperties, EmptySeq, LenProperties

LEMMA Pushed ==
  ASSUME NEW s \in Seq(Frame), NEW f \in Frame
  PROVE  /\ <<f>> \o s \in Seq(Frame) /\ <<f>> \o s # <<>>
         /\ Len(<<f>> \o s) = Len(s) + 1
         /\ Head(<<f>> \o s) = f /\ Tail(<<f>> \o s) = s
<1>1. <<f>> \in Seq(Frame) /\ Len(<<f>>) = 1 /\ <<f>>[1] = f
  OBVIOUS
<1>2. /\ <<f>> \o s \in Seq(Frame) /\ Len(<<f>> \o s) = Len(s) + 1 /\ Len(s) \in Nat
      /\ \A i \in 1..(Len(s) + 1) : (<<f>> \o s)[i] = IF i = 1 THEN f ELSE s[i - 1]
  BY <1>1, ConcatProperties, LenProperties
<1>3. <<f>> \o s # <<>> /\ Head(<<f>> \o s) = f
  BY <1>2
<1>4. /\ Tail(<<f>> \o s) \in Seq(Frame) /\ Len(Tail(<<f>> \o s)) = Len(s)
      /\ \A i \in 1..Len(s) : Tail(<<f>> \o s)[i] = s[i]
  BY <1>2, <1>3, HeadTailProperties
<1> QED
  BY <1>2, <1>3, <1>4, SeqEqual

LEMMA FrameTyped ==
  /\ \A p \in Packet : Waiting(p) \in Frame
  /\ \A p \in Packet, ph \in {"stuck", "callback"} : [phase |-> ph, sent |-> p, retries |-> 0] \in Frame
  /\ \A f \in Frame : /\ [f EXCEPT !.phase = "head"] \in Frame
                      /\ [f EXCEPT !.phase = "blocked"] \in Frame
                      /\ f.sent \in Packet /\ f.retries \in 0..MaxRetries
  /\ \A f \in Frame : f.retries < MaxRetries =>
       [f EXCEPT !.phase = "poll", !.retries = @ + 1] \in Frame
<1>1. /\ \A p \in Packet : Waiting(p) \in Frame
      /\ \A p \in Packet, ph \in {"stuck", "callback"} :
           [phase |-> ph, sent |-> p, retries |-> 0] \in Frame
  BY Constants DEF Frame, Waiting
<1>2. \A f \in Frame : /\ [f EXCEPT !.phase = "head"] \in Frame
                      /\ [f EXCEPT !.phase = "blocked"] \in Frame
                      /\ f.sent \in Packet /\ f.retries \in 0..MaxRetries
  BY DEF Frame
<1>3. ASSUME NEW f \in Frame, f.retries < MaxRetries
      PROVE  [f EXCEPT !.phase = "poll", !.retries = @ + 1] \in Frame
  <2>1. f.retries + 1 \in 0..MaxRetries
    BY <1>3, Constants DEF Frame
  <2> QED
    BY <2>1 DEF Frame
<1> QED
  BY <1>1, <1>2, <1>3

LEMMA AtHeadTyped ==
  ASSUME NEW s \in Seq(Frame)
  PROVE  AtHead(s) \in Seq(Frame) /\ Len(AtHead(s)) = Len(s)
<1>1. CASE s = <<>>
  BY <1>1 DEF AtHead
<1>2. CASE s # <<>>
  <2> DEFINE f == [Head(s) EXCEPT !.phase = "head"]
  <2>1. Tail(s) \in Seq(Frame) /\ Len(s) \in Nat /\ Len(Tail(s)) = Len(s) - 1 /\ f \in Frame
    BY <1>2, StackParts, FrameTyped
  <2>2. AtHead(s) = <<f>> \o Tail(s)
    BY <1>2 DEF AtHead
  <2> HIDE DEF f
  <2> QED
    BY <2>1, <2>2, Pushed
<1> QED
  BY <1>1, <1>2

\* TypeOK in three parts: the connection, the stack, and numbers.
StackTyped == stack \in Seq(Frame)
NumbersTyped ==
  /\ inAge \in 0..AgeCap /\ outAge \in 0..AgeCap /\ nextMsgId \in Nat
  /\ waited \in 0..WaitCap /\ connections \in 0..MaxConnections
OthersTyped == pingOutstanding \in BOOLEAN /\ handled \subseteq Packet

LEMMA TypeParts == TypeOK <=> LinkTypeOK /\ StackTyped /\ NumbersTyped /\ OthersTyped
BY DEF TypeOK, StackTyped, NumbersTyped, OthersTyped

LEMMA InitTyped == Init => TypeOK
<1> SUFFICES ASSUME Init PROVE TypeOK
  OBVIOUS
<1>1. LinkTypeOK
  <2>1. toClient \in Seq(Packet) /\ toBroker \in Seq(Packet) /\ silence \in 0..SilenceCap
    BY LinkConstants DEF Init, LinkInit
  <2> QED
    BY <2>1 DEF Init, LinkInit, LinkTypeOK
<1>2. StackTyped /\ OthersTyped
  <2>1. stack \in Seq(Frame)
    BY DEF Init
  <2> QED
    BY <2>1 DEF Init, StackTyped, OthersTyped
<1>3. NumbersTyped
  BY Constants DEF Init, NumbersTyped
<1> QED
  BY <1>1, <1>2, <1>3, TypeParts

LEMMA NumbersKept == TypeOK /\ [Next]_vars => NumbersTyped'
<1> SUFFICES ASSUME NumbersTyped, [Next]_vars PROVE NumbersTyped'
  BY TypeParts
<1> USE Constants DEF NumbersTyped
<1>1. CASE CallOffline \/ LoopTimesOut \/ Disconnect \/ PublishOnce \/ WaitReads \/ Network
  BY <1>1 DEF CallOffline, LoopTimesOut, Disconnect, PublishOnce, WaitReads, Network
<1>2. CASE ConnectOpens
  BY <1>2 DEF ConnectOpens
<1>3. CASE WaitFails
  BY <1>3 DEF WaitFails, Resend, GiveUp
<1>4. CASE WaitProcesses
  <2>1. /\ inAge' \in {0, inAge} /\ outAge' \in {0, outAge} /\ waited' = 0
        /\ UNCHANGED <<nextMsgId, connections>>
    BY <1>4, Zenon DEF WaitProcesses, BlocksIn, Handle, Succeed
  <2> QED
    BY <2>1
<1>5. CASE CallbackReturns
  BY <1>5 DEF CallbackReturns
<1>6. CASE Loop
  <2>1. /\ inAge' \in {0, inAge} /\ outAge' \in {0, outAge} /\ waited' = 0
        /\ UNCHANGED <<nextMsgId, connections>>
    BY <1>6 DEF Loop, BlocksIn, Handle
  <2> QED
    BY <2>1
<1>7. CASE PublishReliably \/ Subscribe \/ Unsubscribe
  <2>1. PICK p : SendReliably(p)
    BY <1>7 DEF PublishReliably, Subscribe, Unsubscribe
  <2>2. NextPacketId \in Nat
    BY DEF NextPacketId
  <2> QED
    BY <2>1, <2>2 DEF SendReliably
<1>8. CASE Tick
  BY <1>8, OlderTyped DEF Tick
<1>9. CASE UNCHANGED vars
  BY <1>9 DEF vars, clientVars
<1> QED
  BY <1>1, <1>2, <1>3, <1>4, <1>5, <1>6, <1>7, <1>8, <1>9 DEF Next, Proceed

LEMMA PingKept ==
  ASSUME pingOutstanding \in BOOLEAN, [Next]_vars
  PROVE  pingOutstanding' \in BOOLEAN
<1>1. ASSUME NEW p, NEW wrote, NEW out, NEW ping \in BOOLEAN,
             Handle(p, wrote, out, ping) \/ BlocksIn(p, wrote, out, ping)
      PROVE  pingOutstanding' \in BOOLEAN
  BY <1>1 DEF Handle, BlocksIn, PingAfter
<1>2. CASE Loop
  <2> DEFINE ping == pingOutstanding \/ KeepaliveDue
  <2>1. \/ pingOutstanding' = ping
        \/ \E p, wrote, out : Handle(p, wrote, out, ping) \/ BlocksIn(p, wrote, out, ping)
    BY <1>2, Zenon DEF Loop
  <2>2. ping \in BOOLEAN
    OBVIOUS
  <2> HIDE DEF ping
  <2> QED
    BY <1>1, <2>1, <2>2
<1>3. CASE WaitProcesses
  <2>1. \/ pingOutstanding' = pingOutstanding
        \/ \E p, wrote, out : \/ Handle(p, wrote, out, pingOutstanding)
                             \/ BlocksIn(p, wrote, out, pingOutstanding)
    BY <1>3, Zenon DEF WaitProcesses
  <2> QED
    BY <1>1, <2>1
<1>4. CASE ~Loop /\ ~WaitProcesses
  <2>1. UNCHANGED pingOutstanding
    BY <1>4 DEF Next, Proceed, CallOffline, LoopTimesOut, WaitFails, WaitReads, CallbackReturns,
       ConnectOpens, Disconnect, PublishOnce, PublishReliably, Subscribe, Unsubscribe, SendReliably,
       Network, Tick, vars, clientVars
  <2> QED
    BY <2>1
<1> QED
  BY <1>2, <1>3, <1>4

LEMMA HandledKept ==
  ASSUME TypeOK, [Next]_vars
  PROVE  handled' \subseteq Packet
<1>1. handled \subseteq Packet /\ toBroker \in Seq(Packet)
  BY DEF TypeOK, LinkTypeOK
<1>2. CASE Network
  <2>1. toBroker # <<>> => {p \in {Head(toBroker)} : p.id # 0} \subseteq Packet
    BY <1>1, HeadTailProperties, EmptySeq
  <2>2. Len(toBroker') < Len(toBroker) /\ tcp' = "open" /\ ~hung' => BrokerReceive
    BY <1>1, <1>2, LenProperties
       DEF Network, LinkNext, BrokerPublish, BrokerPing, BrokerHangs, LinkDown, Drop
  <2> QED
    BY <1>1, <1>2, <2>1, <2>2 DEF Network, BrokerReceive
<1>3. CASE ~Network
  <2>1. handled' \in {{}, handled}
    BY <1>3 DEF Next, Proceed, CallOffline, LoopTimesOut, Loop, WaitProcesses, WaitFails, Resend,
       GiveUp, WaitReads, CallbackReturns, ConnectOpens, Disconnect, PublishOnce, PublishReliably,
       Subscribe, Unsubscribe, SendReliably, Tick, vars, clientVars
  <2> QED
    BY <1>1, <2>1
<1> QED
  BY <1>2, <1>3

\* What a step writes are packets.
LEMMA HandleTyped ==
  ASSUME toBroker \in Seq(Packet), StackTyped, NEW p \in Packet, NEW wrote \in Seq(Packet),
         NEW out, NEW ping, Handle(p, wrote, out, ping) \/ BlocksIn(p, wrote, out, ping)
  PROVE  toBroker' \in Seq(Packet) /\ StackTyped'
<1>1. AtHead(stack) \in Seq(Frame) /\ stack \in Seq(Frame)
  BY AtHeadTyped DEF StackTyped
<1>2. /\ [phase |-> "stuck", sent |-> p, retries |-> 0] \in Frame
      /\ [phase |-> "callback", sent |-> p, retries |-> 0] \in Frame
  BY FrameTyped
<1>3. /\ Push([phase |-> "stuck", sent |-> p, retries |-> 0]) \in Seq(Frame)
      /\ <<[phase |-> "callback", sent |-> p, retries |-> 0]>> \o AtHead(stack) \in Seq(Frame)
  BY <1>1, <1>2, Pushed DEF Push
<1>4. StackTyped'
  BY <1>1, <1>3 DEF StackTyped, Handle, BlocksIn
<1>5. wrote \o <<Ctl("PINGRESP")>> \in Seq(Packet)
  BY WritesTyped, ConcatProperties
<1> QED
  BY <1>4, <1>5, SentTyped DEF Handle, BlocksIn

LEMMA SucceedTyped ==
  ASSUME toBroker \in Seq(Packet), StackTyped, ~InApp, Succeed
  PROVE  toBroker' \in Seq(Packet) /\ StackTyped'
<1>1. /\ Top \in Frame /\ Top.sent \in Packet /\ Top.sent.id \in Nat
      /\ Tail(stack) \in Seq(Frame) /\ AtHead(Tail(stack)) \in Seq(Frame)
  BY StackParts, FrameTyped, AtHeadTyped DEF Top, InApp, StackTyped, Packet
<1>2. /\ WithId("PUBREL", Top.sent.id) \in Packet /\ PubCompPacket(Top.sent.id) \in Packet
  BY <1>1, WritesTyped
<1>3. <<Waiting(WithId("PUBREL", Top.sent.id))>> \o Tail(stack) \in Seq(Frame)
  BY <1>1, <1>2, FrameTyped, Pushed
<1>4. /\ <<WithId("PUBREL", Top.sent.id)>> \in Seq(Packet)
      /\ <<PubCompPacket(Top.sent.id)>> \in Seq(Packet)
  BY <1>2
<1>5. StackTyped'
  BY <1>1, <1>3 DEF StackTyped, Succeed
<1> QED
  BY <1>4, <1>5, SentTyped DEF Succeed

LEMMA QueuesKept ==
  ASSUME LinkTypeOK, UNCHANGED othersOfLink, (toClient \in Seq(Packet) /\ toBroker \in Seq(Packet))'
  PROVE  LinkTypeOK'
BY DEF LinkTypeOK, othersOfLink

\* The first packet of the queue is read, and parsed.
LEMMA ReadTyped ==
  ASSUME LinkTypeOK, toClient # <<>>
  PROVE  /\ Head(toClient) \in Packet /\ Tail(toClient) \in Seq(Packet)
         /\ \A p \in Parsed(Head(toClient)) : p \in Packet
<1>1. Head(toClient) \in Packet /\ Tail(toClient) \in Seq(Packet)
  BY HeadTailProperties, EmptySeq DEF LinkTypeOK
<1> QED
  BY <1>1, ParsedTyped

LEMMA CallsTyped ==
  ASSUME LinkTypeOK, StackTyped, NumbersTyped,
         CallOffline \/ ConnectOpens \/ Disconnect \/ LoopTimesOut \/ PublishOnce
         \/ PublishReliably \/ Subscribe \/ Unsubscribe
  PROVE  LinkTypeOK' /\ StackTyped'
<1>1. CASE CallOffline \/ Disconnect \/ LoopTimesOut
  BY <1>1, StopTyped DEF CallOffline, Disconnect, LoopTimesOut, StackTyped
<1>2. CASE ConnectOpens
  <2>1. <<Waiting(Ctl("CONNECT"))>> \in Seq(Frame)
    <3>1. Waiting(Ctl("CONNECT")) \in Frame
      BY WritesTyped, FrameTyped
    <3> QED
      BY <3>1
  <2> QED
    BY <1>2, <2>1, OpenTyped DEF ConnectOpens, StackTyped
<1>3. CASE PublishOnce
  <2>1. <<Publication(0, 0, TRUE)>> \in Seq(Packet)
    <3>1. Publication(0, 0, TRUE) \in Packet
      BY DEF Publication, Packet, PacketTypes
    <3> DEFINE p == Publication(0, 0, TRUE)
    <3> HIDE DEF p
    <3>2. p \in Packet => <<p>> \in Seq(Packet)
      OBVIOUS
    <3> QED
      BY <3>1, <3>2, Zenon DEF p
  <2>2. Sent(<<Publication(0, 0, TRUE)>>) \in Seq(Packet)
    BY <2>1, SentTyped DEF LinkTypeOK
  <2>3. (toClient \in Seq(Packet) /\ toBroker \in Seq(Packet))'
    BY <1>3, <2>2 DEF PublishOnce, LinkTypeOK
  <2> QED
    BY <1>3, <2>3, QueuesKept DEF PublishOnce, StackTyped
<1>4. CASE PublishReliably \/ Subscribe \/ Unsubscribe
  <2>1. NextPacketId \in Nat
    BY DEF NextPacketId, NumbersTyped
  <2>2. PICK p \in Packet : SendReliably(p)
    <3>1. \A q \in AppQos \ {0} : Publication(NextPacketId, q, TRUE) \in Packet
      <4>1. \A q \in AppQos \ {0} : q \in 0..2
        BY Constants
      <4> QED
        BY <2>1, <4>1, WritesTyped
    <3> QED
      BY <1>4, <2>1, <3>1, WritesTyped DEF PublishReliably, Subscribe, Unsubscribe
  <2>3. <<Waiting(p)>> \in Seq(Frame) /\ <<p>> \in Seq(Packet)
    <3>1. Waiting(p) \in Frame
      BY <2>2, FrameTyped
    <3> QED
      BY <2>2, <3>1
  <2>4. Sent(<<p>>) \in Seq(Packet)
    BY <2>3, SentTyped DEF LinkTypeOK
  <2>5. (toClient \in Seq(Packet) /\ toBroker \in Seq(Packet))'
    BY <2>2, <2>4 DEF SendReliably, LinkTypeOK
  <2> QED
    BY <2>2, <2>3, <2>5, QueuesKept DEF SendReliably, StackTyped
<1> QED
  BY <1>1, <1>2, <1>3, <1>4

LEMMA WaitsTyped ==
  ASSUME LinkTypeOK, StackTyped, WaitFails \/ WaitReads \/ WaitProcesses
  PROVE  LinkTypeOK' /\ StackTyped'
<1>1. stack # <<>> /\ Top \in Frame /\ Tail(stack) \in Seq(Frame) /\ Top.sent \in Packet
      /\ AtHead(stack) \in Seq(Frame)
  BY StackParts, FrameTyped, AtHeadTyped DEF WaitFails, WaitReads, WaitProcesses, InApp, Top, StackTyped
<1>2. CASE WaitReads
  <2>1. <<[Top EXCEPT !.phase = "blocked"]>> \o Tail(stack) \in Seq(Frame)
    BY <1>1, FrameTyped, Pushed
  <2>2. StackTyped' /\ UNCHANGED linkVars
    BY <1>1, <1>2, <2>1 DEF WaitReads, StackTyped
  <2> QED
    BY <2>2 DEF linkVars, LinkTypeOK
<1>3. CASE WaitFails /\ Retry
  <2>1. [Top EXCEPT !.phase = "poll", !.retries = @ + 1] \in Frame
    BY <1>1, <1>3, FrameTyped DEF Retry
  <2>2. StackTyped' /\ toBroker' = Sent(<<Top.sent>>) /\ toClient' = toClient /\ UNCHANGED othersOfLink
    BY <1>1, <1>3, <2>1, Pushed DEF WaitFails, Resend, StackTyped
  <2>3. Sent(<<Top.sent>>) \in Seq(Packet)
    <3>1. <<Top.sent>> \in Seq(Packet)
      BY <1>1
    <3> QED
      BY <3>1, SentTyped DEF LinkTypeOK
  <2> QED
    BY <2>2, <2>3, QueuesKept DEF LinkTypeOK
<1>4. CASE WaitFails /\ ~Retry
  <2>1. StackTyped' /\ (Stop \/ UNCHANGED linkVars)
    BY <1>1, <1>4 DEF WaitFails, GiveUp, StackTyped
  <2> QED
    BY <2>1, StopTyped DEF linkVars, LinkTypeOK
<1>5. CASE WaitProcesses
  <2>1. toClient' = Tail(toClient) /\ UNCHANGED othersOfLink /\ toClient # <<>> /\ ~InApp
    BY <1>5 DEF WaitProcesses
  <2>2. \/ BlocksIn(Head(toClient), <<>>, outAge, pingOutstanding)
        \/ \E p \in Parsed(Head(toClient)) : Succeed \/ Handle(p, <<>>, outAge, pingOutstanding)
    BY <1>5, Zenon DEF WaitProcesses
  <2>3. <<>> \in Seq(Packet)
    OBVIOUS
  <2>4. toBroker' \in Seq(Packet) /\ StackTyped'
    BY <2>1, <2>2, <2>3, ReadTyped, HandleTyped, SucceedTyped DEF LinkTypeOK
  <2> QED
    BY <2>1, <2>4, ReadTyped, QueuesKept
<1> QED
  BY <1>2, <1>3, <1>4, <1>5

LEMMA CallbackTyped ==
  ASSUME LinkTypeOK, StackTyped, CallbackReturns
  PROVE  LinkTypeOK' /\ StackTyped'
<1>1. /\ Top \in Frame /\ Tail(stack) \in Seq(Frame) /\ Top.sent \in Packet /\ Top.sent.id \in Nat
  BY StackParts, FrameTyped DEF CallbackReturns, InCallback, Top, StackTyped, Packet
<1>2. PubAckPacket(Top.sent.id) \in Packet /\ WithId("PUBREC", Top.sent.id) \in Packet
  BY <1>1, WritesTyped
<1>3. <<Waiting(WithId("PUBREC", Top.sent.id))>> \o Tail(stack) \in Seq(Frame)
  BY <1>1, <1>2, FrameTyped, Pushed
<1>4. StackTyped'
  BY <1>1, <1>3 DEF StackTyped, CallbackReturns
<1>5. <<PubAckPacket(Top.sent.id)>> \in Seq(Packet) /\ <<WithId("PUBREC", Top.sent.id)>> \in Seq(Packet)
  BY <1>2
<1>6. (toClient \in Seq(Packet) /\ toBroker \in Seq(Packet))'
  BY <1>5, SentTyped DEF CallbackReturns, LinkTypeOK
<1> QED
  BY <1>4, <1>6, QueuesKept DEF CallbackReturns

LEMMA LoopTyped ==
  ASSUME LinkTypeOK, StackTyped, Loop
  PROVE  LinkTypeOK' /\ StackTyped'
<1> DEFINE wrote == IF KeepaliveDue THEN <<Ctl("PINGREQ")>> ELSE <<>>
<1>1. wrote \in Seq(Packet)
  <2>1. <<Ctl("PINGREQ")>> \in Seq(Packet) /\ <<>> \in Seq(Packet)
    BY WritesTyped
  <2> QED
    BY <2>1
<1>2. UNCHANGED othersOfLink
  BY DEF Loop
<1>3. \/ toBroker' = Sent(wrote) /\ UNCHANGED <<toClient, stack>>
      \/ /\ toClient # <<>> /\ toClient' = Tail(toClient)
         /\ \E out, ping : \/ BlocksIn(Head(toClient), wrote, out, ping)
                          \/ \E p \in Parsed(Head(toClient)) : Handle(p, wrote, out, ping)
  BY Zenon DEF Loop
<1> HIDE DEF wrote
<1>4. CASE toBroker' = Sent(wrote) /\ UNCHANGED <<toClient, stack>>
  BY <1>1, <1>2, <1>4, SentTyped, QueuesKept DEF LinkTypeOK, StackTyped
<1>5. CASE /\ toClient # <<>> /\ toClient' = Tail(toClient)
           /\ \E out, ping : \/ BlocksIn(Head(toClient), wrote, out, ping)
                            \/ \E p \in Parsed(Head(toClient)) : Handle(p, wrote, out, ping)
  <2>1. toBroker' \in Seq(Packet) /\ StackTyped'
    BY <1>1, <1>5, ReadTyped, HandleTyped DEF LinkTypeOK
  <2> QED
    BY <1>2, <1>5, <2>1, ReadTyped, QueuesKept
<1> QED
  BY <1>3, <1>4, <1>5

LEMMA TypeKept ==
  ASSUME TypeOK, [Next]_vars
  PROVE  TypeOK'
<1>1. LinkTypeOK /\ StackTyped /\ NumbersTyped /\ OthersTyped
  BY TypeParts
<1>2. NumbersTyped' /\ OthersTyped'
  BY <1>1, NumbersKept, PingKept, HandledKept DEF OthersTyped
<1>3. CASE Network \/ Tick
  <2>1. LinkTypeOK'
    BY <1>1, <1>3, LinkNextTyped, LinkTickTyped DEF Network, Tick
  <2>2. StackTyped'
    BY <1>1, <1>3 DEF Network, Tick, StackTyped
  <2> QED
    BY <1>2, <2>1, <2>2 DEF TypeOK, StackTyped, NumbersTyped, OthersTyped
<1>4. CASE UNCHANGED vars
  <2>1. LinkTypeOK' /\ StackTyped'
    BY <1>1, <1>4 DEF vars, clientVars, linkVars, LinkTypeOK, StackTyped
  <2> QED
    BY <1>2, <2>1 DEF TypeOK, StackTyped, NumbersTyped, OthersTyped
<1>5. CASE Next /\ ~(Network \/ Tick)
  <2>1. LinkTypeOK' /\ StackTyped'
    BY <1>1, <1>5, CallsTyped, WaitsTyped, CallbackTyped, LoopTyped DEF Next, Proceed
  <2> QED
    BY <1>2, <2>1 DEF TypeOK, StackTyped, NumbersTyped, OthersTyped
<1> QED
  BY <1>3, <1>4, <1>5

\* Every variable keeps its type, the call stack and its frames too.
THEOREM TypeCorrect == Spec => []TypeOK
BY InitTyped, TypeKept, PTL DEF Spec

----------------------------------------------------------------------------
(* The call stack: only the innermost call can be a callback, or hang in a *)
(* packet that was cut; all others are waits for the answer to a request.  *)

Waits(f) == f.phase \notin {"callback", "stuck"}

\* The packets this client writes, and those among them it waits after.
Plain(p) ==
  /\ p.type \in {"CONNECT", "PUBLISH", "PUBACK", "PUBREC", "PUBREL", "SUBSCRIBE", "PINGREQ", "PINGRESP"}
  /\ p.fits = TRUE /\ p.rc = 0 /\ (p.type # "PUBLISH" => p.qos = 0)
  /\ p.cut => p.type \in {"SUBSCRIBE", "PUBACK"}
  /\ p.type \in {"CONNECT", "PUBACK", "PINGREQ", "PINGRESP"} => p.id = 0
  /\ p.type = "PUBACK" => p.cut = TRUE
AsksFor(p) ==
  /\ Plain(p)
  /\ p.type \in {"CONNECT", "PUBLISH", "PUBREC", "PUBREL", "SUBSCRIBE"}
  /\ p.type = "PUBLISH" => p.qos # 0

AllWait(s) == \A i \in DOMAIN s : Waits(s[i]) /\ AsksFor(s[i].sent)
Nested(s)  == s # <<>> => AllWait(Tail(s)) /\ (Waits(Head(s)) => AsksFor(Head(s).sent))
StackInv   == Nested(stack)

\* The frames of a stack, by their places.
LEMMA PlacesOfPushed ==
  ASSUME NEW s \in Seq(Frame), NEW f \in Frame
  PROVE  /\ DOMAIN (<<f>> \o s) = 1..(Len(s) + 1) /\ (<<f>> \o s)[1] = f
         /\ \A i \in 1..Len(s) : (<<f>> \o s)[i + 1] = s[i]
         /\ \A i \in 2..(Len(s) + 1) : (<<f>> \o s)[i] = s[i - 1]
<1>1. <<f>> \in Seq(Frame) /\ Len(<<f>>) = 1 /\ <<f>>[1] = f
  OBVIOUS
<1> QED
  BY <1>1, ConcatProperties, LenProperties

LEMMA PlacesOfTail ==
  ASSUME NEW s \in Seq(Frame), s # <<>>
  PROVE  /\ Len(s) \in Nat \ {0} /\ DOMAIN s = 1..Len(s) /\ DOMAIN Tail(s) = 1..(Len(s) - 1)
         /\ Head(s) = s[1] /\ \A i \in 1..(Len(s) - 1) : Tail(s)[i] = s[i + 1]
BY HeadTailProperties, EmptySeq, LenProperties

LEMMA AllWaitTail ==
  ASSUME NEW s \in Seq(Frame), s # <<>>
  PROVE  AllWait(s) <=> AllWait(Tail(s)) /\ Waits(Head(s)) /\ AsksFor(Head(s).sent)
<1>1. ASSUME AllWait(s) PROVE AllWait(Tail(s)) /\ Waits(Head(s)) /\ AsksFor(Head(s).sent)
  BY <1>1, PlacesOfTail DEF AllWait
<1>2. ASSUME AllWait(Tail(s)), Waits(Head(s)), AsksFor(Head(s).sent), NEW i \in DOMAIN s
      PROVE  Waits(s[i]) /\ AsksFor(s[i].sent)
  <2>1. CASE i = 1
    BY <1>2, <2>1, PlacesOfTail
  <2>2. CASE i # 1
    <3>1. i - 1 \in DOMAIN Tail(s) /\ Tail(s)[i - 1] = s[i]
      BY <1>2, <2>2, PlacesOfTail
    <3> QED
      BY <1>2, <3>1 DEF AllWait
  <2> QED
    BY <2>1, <2>2
<1> QED
  BY <1>1, <1>2 DEF AllWait

LEMMA NestedPush ==
  ASSUME NEW s \in Seq(Frame), NEW f \in Frame, AllWait(s), Waits(f) => AsksFor(f.sent)
  PROVE  Nested(<<f>> \o s) /\ (Waits(f) => AllWait(<<f>> \o s))
<1>1. <<f>> \o s \in Seq(Frame) /\ <<f>> \o s # <<>> /\ Head(<<f>> \o s) = f /\ Tail(<<f>> \o s) = s
  BY Pushed
<1> QED
  BY <1>1, AllWaitTail DEF Nested

LEMMA NestedTail ==
  ASSUME NEW s \in Seq(Frame), s # <<>>, Nested(s)
  PROVE  /\ AllWait(Tail(s)) /\ Nested(Tail(s))
         /\ Waits(Head(s)) => AllWait(s) /\ AsksFor(Head(s).sent)
<1>1. AllWait(Tail(s)) /\ (Waits(Head(s)) => AllWait(s) /\ AsksFor(Head(s).sent))
  BY AllWaitTail DEF Nested
<1>2. Nested(Tail(s))
  BY <1>1, AllWaitTail, StackParts DEF Nested
<1> QED
  BY <1>1, <1>2

LEMMA AllWaitAtHead ==
  ASSUME NEW s \in Seq(Frame), AllWait(s)
  PROVE  AllWait(AtHead(s)) /\ Nested(AtHead(s))
<1>1. CASE s = <<>>
  BY <1>1 DEF AtHead, Nested
<1>2. CASE s # <<>>
  <2> DEFINE f == [Head(s) EXCEPT !.phase = "head"]
  <2>1. Head(s) \in Frame /\ Tail(s) \in Seq(Frame) /\ AllWait(Tail(s)) /\ AsksFor(Head(s).sent)
    BY <1>2, StackParts, AllWaitTail
  <2>2. f \in Frame /\ f.sent = Head(s).sent /\ Waits(f)
    BY <2>1, FrameTyped DEF Frame, Waits
  <2>3. AtHead(s) = <<f>> \o Tail(s)
    BY <1>2 DEF AtHead
  <2> HIDE DEF f
  <2> QED
    BY <2>1, <2>2, <2>3, NestedPush
<1> QED
  BY <1>1, <1>2

\* The requests.
LEMMA RequestsAsk ==
  /\ AsksFor(Ctl("CONNECT")) /\ Plain(Ctl("PINGREQ")) /\ Plain(Ctl("PINGRESP"))
  /\ \A id \in Nat : /\ AsksFor(WithId("PUBREC", id)) /\ AsksFor(WithId("PUBREL", id))
                     /\ AsksFor(WithId("SUBSCRIBE", id)) /\ AsksFor(UnsubscribePacket(id))
                     /\ Plain(PubAckPacket(id)) /\ Plain(PubCompPacket(id))
  /\ \A id \in Nat, q \in 1..2 : AsksFor(Publication(id, q, TRUE))
  /\ Plain(Publication(0, 0, TRUE))
BY DEF AsksFor, Plain, Ctl, WithId, UnsubscribePacket, PubAckPacket, PubCompPacket, Publication, Cut

LEMMA WaitingWaits ==
  \A p \in Packet : Waiting(p) \in Frame /\ Waits(Waiting(p)) /\ Waiting(p).sent = p /\ Waiting(p).retries = 0
BY FrameTyped DEF Waiting, Waits

\* What a write adds to the broker's queue.
LEMMA MembersOfSent ==
  ASSUME toBroker \in Seq(Packet), NEW ps \in Seq(Packet)
  PROVE  Members(Sent(ps)) \subseteq Members(toBroker) \cup Members(ps)
BY MembersOfConcat DEF Sent

Written == \A p \in Members(toBroker') : p \in Members(toBroker) \/ Plain(p)

LEMMA WrittenOne ==
  ASSUME toBroker \in Seq(Packet), NEW p \in Packet, Plain(p), toBroker' = Sent(<<p>>)
  PROVE  Written
<1>1. <<p>> \in Seq(Packet) /\ Members(<<p>>) = {p}
  BY MembersOfOne
<1> QED
  BY <1>1, MembersOfSent DEF Written

LEMMA HandleNests ==
  ASSUME toBroker \in Seq(Packet), StackTyped, AllWait(stack), NEW p \in Packet,
         NEW wrote \in Seq(Packet), \A w \in Members(wrote) : Plain(w),
         NEW out, NEW ping, Handle(p, wrote, out, ping) \/ BlocksIn(p, wrote, out, ping)
  PROVE  StackInv' /\ Written
<1>1. /\ stack \in Seq(Frame) /\ AtHead(stack) \in Seq(Frame)
      /\ AllWait(AtHead(stack)) /\ Nested(AtHead(stack))
  BY AtHeadTyped, AllWaitAtHead DEF StackTyped
<1> DEFINE f == [phase |-> "stuck", sent |-> p, retries |-> 0]
           g == [phase |-> "callback", sent |-> p, retries |-> 0]
<1>2. f \in Frame /\ g \in Frame /\ ~Waits(f) /\ ~Waits(g)
  BY FrameTyped DEF Waits
<1>3. stack' \in {<<f>> \o stack, <<g>> \o AtHead(stack), AtHead(stack)}
  BY DEF Handle, BlocksIn, Push
<1> HIDE DEF f, g
<1>4. StackInv'
  BY <1>1, <1>2, <1>3, NestedPush DEF StackInv
<1>5. /\ wrote \o <<Ctl("PINGRESP")>> \in Seq(Packet)
      /\ Members(wrote \o <<Ctl("PINGRESP")>>) = Members(wrote) \cup {Ctl("PINGRESP")}
  <2>1. <<Ctl("PINGRESP")>> \in Seq(Packet)
    BY WritesTyped
  <2> QED
    BY <2>1, ConcatProperties, MembersOfConcat, MembersOfOne
<1>6. toBroker' \in {Sent(wrote), Sent(wrote \o <<Ctl("PINGRESP")>>)}
  BY DEF Handle, BlocksIn
<1>7. Written
  BY <1>5, <1>6, MembersOfSent, RequestsAsk DEF Written
<1> QED
  BY <1>4, <1>7

LEMMA SucceedNests ==
  ASSUME toBroker \in Seq(Packet), StackTyped, StackInv, ~InApp, Succeed
  PROVE  StackInv' /\ Written
<1>1. /\ Top \in Frame /\ Top.sent \in Packet /\ Top.sent.id \in Nat
      /\ Tail(stack) \in Seq(Frame) /\ AllWait(Tail(stack)) /\ Nested(Tail(stack))
      /\ Nested(AtHead(Tail(stack)))
  BY StackParts, FrameTyped, NestedTail, AllWaitAtHead DEF Top, InApp, StackTyped, StackInv, Packet
<1> DEFINE rel == WithId("PUBREL", Top.sent.id)
<1>2. rel \in Packet /\ AsksFor(rel) /\ PubCompPacket(Top.sent.id) \in Packet /\ Plain(PubCompPacket(Top.sent.id))
  BY <1>1, WritesTyped, RequestsAsk
<1>3. /\ stack' \in {<<Waiting(rel)>> \o Tail(stack), AtHead(Tail(stack)), Tail(stack)}
      /\ toBroker' \in {Sent(<<rel>>), Sent(<<PubCompPacket(Top.sent.id)>>), toBroker}
  BY DEF Succeed
<1> HIDE DEF rel
<1>4. Nested(<<Waiting(rel)>> \o Tail(stack))
  BY <1>1, <1>2, WaitingWaits, NestedPush
<1>5. StackInv'
  BY <1>1, <1>3, <1>4 DEF StackInv
<1>6. Written
  BY <1>2, <1>3, WrittenOne DEF Written, AsksFor
<1> QED
  BY <1>5, <1>6

LEMMA WaitsNest ==
  ASSUME TypeOK, StackInv, WaitFails \/ WaitReads \/ WaitProcesses \/ CallbackReturns
  PROVE  StackInv' /\ Written
<1>1. /\ stack \in Seq(Frame) /\ stack # <<>> /\ Top \in Frame /\ Top.sent \in Packet
      /\ Top.sent.id \in Nat /\ toBroker \in Seq(Packet)
      /\ Tail(stack) \in Seq(Frame) /\ AllWait(Tail(stack)) /\ Nested(Tail(stack))
      /\ Waits(Top) => AllWait(stack) /\ AsksFor(Top.sent)
  BY StackParts, FrameTyped, NestedTail
     DEF TypeOK, LinkTypeOK, WaitFails, WaitReads, WaitProcesses, CallbackReturns, InCallback, InApp,
         Top, Packet, StackInv
<1>2. CASE WaitReads
  <2> DEFINE f == [Top EXCEPT !.phase = "blocked"]
  <2>1. f \in Frame /\ f.sent = Top.sent /\ Waits(Top)
    BY <1>1, <1>2, FrameTyped DEF WaitReads, Waits, Frame
  <2>2. stack' \in {AtHead(stack), <<f>> \o Tail(stack)} /\ toBroker' = toBroker
    BY <1>2 DEF WaitReads, linkVars
  <2> HIDE DEF f
  <2> QED
    BY <1>1, <2>1, <2>2, NestedPush, AllWaitAtHead DEF StackInv, Written
<1>3. CASE WaitFails
  <2> DEFINE f == [Top EXCEPT !.phase = "poll", !.retries = @ + 1]
  <2>1. Waits(Top) /\ (Retry => f \in Frame /\ f.sent = Top.sent)
    BY <1>1, <1>3, FrameTyped DEF WaitFails, Waits, Frame, Retry
  <2>2. \/ Retry /\ stack' = <<f>> \o Tail(stack) /\ toBroker' = Sent(<<Top.sent>>)
        \/ stack' = Tail(stack) /\ toBroker' \in {<<>>, toBroker}
    BY <1>3 DEF WaitFails, Resend, GiveUp, Stop, linkVars
  <2> HIDE DEF f
  <2>3. StackInv'
    BY <1>1, <2>1, <2>2, NestedPush DEF StackInv
  <2>4. Written
    BY <1>1, <2>1, <2>2, WrittenOne, MembersOfEmpty DEF Written, AsksFor
  <2> QED
    BY <2>3, <2>4
<1>4. CASE WaitProcesses
  <2>1. toClient # <<>> /\ ~InApp /\ Waits(Top)
    BY <1>4 DEF WaitProcesses, Waits
  <2>2. \/ BlocksIn(Head(toClient), <<>>, outAge, pingOutstanding)
        \/ \E p \in Parsed(Head(toClient)) : Succeed \/ Handle(p, <<>>, outAge, pingOutstanding)
    BY <1>4, Zenon DEF WaitProcesses
  <2>3. <<>> \in Seq(Packet) /\ \A w \in Members(<<>>) : Plain(w)
    BY MembersOfEmpty
  <2>4. LinkTypeOK /\ StackTyped
    BY DEF TypeOK, StackTyped
  <2> QED
    BY <1>1, <2>1, <2>2, <2>3, <2>4, ReadTyped, HandleNests, SucceedNests
<1>5. CASE CallbackReturns
  <2> DEFINE rec == WithId("PUBREC", Top.sent.id)
             ack == PubAckPacket(Top.sent.id)
  <2>1. rec \in Packet /\ AsksFor(rec) /\ ack \in Packet /\ Plain(ack)
    BY <1>1, WritesTyped, RequestsAsk
  <2>2. /\ stack' \in {Tail(stack), <<Waiting(rec)>> \o Tail(stack)}
        /\ toBroker' \in {toBroker, Sent(<<ack>>), Sent(<<rec>>)}
    BY <1>5 DEF CallbackReturns
  <2> HIDE DEF rec, ack
  <2>3. Nested(<<Waiting(rec)>> \o Tail(stack))
    BY <1>1, <2>1, WaitingWaits, NestedPush
  <2>4. Written
    BY <1>1, <2>1, <2>2, WrittenOne DEF Written, AsksFor
  <2> QED
    BY <1>1, <2>2, <2>3, <2>4 DEF StackInv
<1> QED
  BY <1>2, <1>3, <1>4, <1>5

LEMMA CallsNest ==
  ASSUME TypeOK, StackInv,
         CallOffline \/ ConnectOpens \/ Disconnect \/ LoopTimesOut \/ Loop \/ PublishOnce
         \/ PublishReliably \/ Subscribe \/ Unsubscribe
  PROVE  StackInv' /\ Written
<1>1. LinkTypeOK /\ StackTyped /\ toBroker \in Seq(Packet) /\ stack \in Seq(Frame)
  BY DEF TypeOK, LinkTypeOK, StackTyped
<1>2. /\ <<>> \in Seq(Frame) /\ AllWait(<<>>)
      /\ \A p \in Packet : AsksFor(p) => Nested(<<Waiting(p)>>)
  <2>1. <<>> \in Seq(Frame) /\ AllWait(<<>>)
    BY DEF AllWait
  <2>2. ASSUME NEW p \in Packet, AsksFor(p) PROVE Nested(<<Waiting(p)>>)
    <3>1. Waiting(p) \in Frame /\ Waiting(p).sent = p
      BY WaitingWaits
    <3>2. Nested(<<Waiting(p)>> \o <<>>)
      BY <2>1, <2>2, <3>1, NestedPush
    <3>3. <<Waiting(p)>> \o <<>> = <<Waiting(p)>>
      BY <3>1, ConcatEmptySeq
    <3> QED
      BY <3>2, <3>3
  <2> QED
    BY <2>1, <2>2
<1>3. CASE CallOffline \/ Disconnect \/ LoopTimesOut
  BY <1>3, MembersOfEmpty DEF CallOffline, Disconnect, LoopTimesOut, Stop, Written, StackInv
<1>4. CASE ConnectOpens
  <2>1. Nested(<<Waiting(Ctl("CONNECT"))>>)
    BY <1>2, WritesTyped, RequestsAsk
  <2> QED
    BY <1>4, <2>1, RequestsAsk, MembersOfOne DEF ConnectOpens, OpenWith, StackInv, Written, AsksFor
<1>5. CASE PublishOnce
  <2> DEFINE p == Publication(0, 0, TRUE)
  <2>1. p \in Packet /\ Plain(p)
    BY RequestsAsk DEF Publication, Packet, PacketTypes
  <2>2. toBroker' = Sent(<<p>>) /\ stack' = stack
    BY <1>5 DEF PublishOnce
  <2> HIDE DEF p
  <2> QED
    BY <1>1, <2>1, <2>2, WrittenOne DEF StackInv
<1>6. CASE PublishReliably \/ Subscribe \/ Unsubscribe
  <2>1. NextPacketId \in Nat
    BY DEF NextPacketId, TypeOK
  <2>2. PICK p \in Packet : SendReliably(p) /\ AsksFor(p)
    <3>1. \A q \in AppQos \ {0} : Publication(NextPacketId, q, TRUE) \in Packet
                                 /\ AsksFor(Publication(NextPacketId, q, TRUE))
      <4>1. \A q \in AppQos \ {0} : q \in 0..2 /\ q \in 1..2
        BY Constants
      <4> QED
        BY <2>1, <4>1, WritesTyped, RequestsAsk
    <3> QED
      BY <1>6, <2>1, <3>1, WritesTyped, RequestsAsk DEF PublishReliably, Subscribe, Unsubscribe
  <2> QED
    BY <1>1, <1>2, <2>2, WrittenOne DEF SendReliably, StackInv, AsksFor
<1>7. CASE Loop
  <2> DEFINE wrote == IF KeepaliveDue THEN <<Ctl("PINGREQ")>> ELSE <<>>
  <2>1. wrote \in Seq(Packet) /\ \A w \in Members(wrote) : Plain(w)
    <3>1. <<Ctl("PINGREQ")>> \in Seq(Packet) /\ <<>> \in Seq(Packet)
      BY WritesTyped
    <3>2. Members(<<Ctl("PINGREQ")>>) = {Ctl("PINGREQ")} /\ Members(<<>>) = {} /\ Plain(Ctl("PINGREQ"))
      BY MembersOfOne, MembersOfEmpty, RequestsAsk
    <3> QED
      BY <3>1, <3>2
  <2>2. \/ toBroker' = Sent(wrote) /\ UNCHANGED stack
        \/ /\ toClient # <<>>
           /\ \E out, ping : \/ BlocksIn(Head(toClient), wrote, out, ping)
                            \/ \E p \in Parsed(Head(toClient)) : Handle(p, wrote, out, ping)
    BY <1>7, Zenon DEF Loop
  <2>3. AllWait(stack)
    BY <1>2, <1>7 DEF Loop, InApp
  <2> HIDE DEF wrote
  <2>4. CASE toBroker' = Sent(wrote) /\ UNCHANGED stack
    BY <1>1, <2>1, <2>4, MembersOfSent DEF StackInv, Written
  <2> QED
    BY <1>1, <2>1, <2>2, <2>3, <2>4, ReadTyped, HandleNests
<1> QED
  BY <1>3, <1>4, <1>5, <1>6, <1>7

----------------------------------------------------------------------------
(* A call that succeeds has been served (SuccessMeansHandled).             *)

\* The broker is only told what this client writes; while the connection stands,
\* an answer that carries an id answers a request the broker has processed.
Answered(p) == p.type # "PUBLISH" /\ p.id # 0 => \E r \in handled : Reply(r) = <<p>>
AnswersInv ==
  /\ \A p \in Members(toBroker) : Plain(p)
  /\ \A p \in handled : Plain(p) /\ ~p.cut
  /\ tcp = "open" => \A p \in Members(toClient) : ~p.cut /\ Answered(p)
ServedInv == StackInv /\ AnswersInv

LEMMA ClientServes ==
  ASSUME TypeOK, ServedInv, Proceed \/ ConnectOpens \/ Disconnect \/ PublishOnce \/ PublishReliably
                            \/ Subscribe \/ Unsubscribe
  PROVE  ServedInv'
<1>1. StackInv' /\ Written
  BY WaitsNest, CallsNest DEF Proceed, ServedInv
<1>2. \A p \in Members(toBroker') : Plain(p)
  BY <1>1 DEF Written, ServedInv, AnswersInv
<1>3. toClient \in Seq(Packet)
  BY DEF TypeOK, LinkTypeOK
<1>4. \/ toClient' = <<>> /\ handled' = {}
      \/ UNCHANGED <<handled, tcp>> /\ (toClient' = toClient \/ (toClient # <<>> /\ toClient' = Tail(toClient)))
  <2>1. CASE CallOffline \/ LoopTimesOut \/ Disconnect
    BY <2>1 DEF CallOffline, LoopTimesOut, Disconnect, Stop
  <2>2. CASE ConnectOpens
    BY <2>2 DEF ConnectOpens, OpenWith
  <2>3. CASE Loop \/ WaitProcesses
    BY <2>3, Zenon DEF Loop, WaitProcesses, othersOfLink
  <2>4. CASE WaitFails \/ WaitReads \/ CallbackReturns
    BY <2>4 DEF WaitFails, Resend, GiveUp, Stop, WaitReads, CallbackReturns, linkVars, othersOfLink
  <2>5. CASE PublishOnce \/ PublishReliably \/ Subscribe \/ Unsubscribe
    BY <2>5 DEF PublishOnce, PublishReliably, Subscribe, Unsubscribe, SendReliably, othersOfLink
  <2> QED
    BY <2>1, <2>2, <2>3, <2>4, <2>5 DEF Proceed
<1>5. \/ Members(toClient') \subseteq Members(toClient) /\ UNCHANGED <<handled, tcp>>
      \/ Members(toClient') = {} /\ handled' = {}
  <2>1. toClient # <<>> => Members(Tail(toClient)) \subseteq Members(toClient)
    BY <1>3, MembersOfTail
  <2> QED
    BY <1>4, <2>1, MembersOfEmpty
<1>6. AnswersInv'
  BY <1>2, <1>5 DEF ServedInv, AnswersInv, Answered
<1> QED
  BY <1>1, <1>6 DEF ServedInv

\* Of the broker's steps only BrokerReceive takes a request and keeps the connection.
LEMMA Taken ==
  ASSUME LinkTypeOK, LinkNext, Len(toBroker') < Len(toBroker), tcp' = "open", ~hung'
  PROVE  BrokerReceive
BY LenProperties DEF LinkTypeOK, LinkNext, BrokerPublish, BrokerPing, BrokerHangs, LinkDown, Drop

\* A request is in the history once it is taken, and its answer is the broker's.
LEMMA ReceiveServes ==
  ASSUME TypeOK, ServedInv, Network, BrokerReceive
  PROVE  ServedInv'
<1> DEFINE p == Head(toBroker)
<1>1. /\ toBroker \in Seq(Packet) /\ toClient \in Seq(Packet) /\ toBroker # <<>> /\ p \in Packet
      /\ Tail(toBroker) \in Seq(Packet) /\ Len(Tail(toBroker)) < Len(toBroker)
      /\ Members(toBroker) = {p} \cup Members(Tail(toBroker)) /\ Reply(p) \in Seq(Packet)
  BY HeadTailProperties, EmptySeq, LenProperties, MembersOfTail, ReplyTyped
     DEF TypeOK, LinkTypeOK, BrokerReceive
<1>2. Plain(p) /\ \A q \in Members(Tail(toBroker)) : Plain(q)
  BY <1>1 DEF ServedInv, AnswersInv
<1>3. StackInv'
  BY DEF Network, ServedInv, StackInv
<1>4. CASE tcp' # "open"
  <2>1. toBroker' = <<>> /\ handled' = handled
    BY <1>4 DEF BrokerReceive, Drop, Network
  <2> QED
    BY <1>3, <1>4, <2>1, MembersOfEmpty DEF ServedInv, AnswersInv
<1>5. CASE tcp' = "open"
  <2>1. /\ tcp = "open" /\ ~hung /\ toBroker' = Tail(toBroker) /\ hung' = hung
        /\ \/ p.type = "CONNECT" /\ \E rc \in {0} \cup RefusalCodes : toClient' = Append(toClient, ConnAck(rc))
           \/ p.type # "CONNECT" /\ ~p.cut /\ toClient' = toClient \o Reply(p)
    BY <1>5 DEF BrokerReceive, Drop
  <2>2. handled' = handled \cup {q \in {p} : q.id # 0}
    BY <1>1, <1>5, <2>1 DEF Network
  <2>3. CASE p.type = "CONNECT" /\ \E rc \in {0} \cup RefusalCodes : toClient' = Append(toClient, ConnAck(rc))
    <3>1. PICK rc \in {0} \cup RefusalCodes : toClient' = Append(toClient, ConnAck(rc))
      BY <2>3
    <3>2. ConnAck(rc) \in Packet /\ ConnAck(rc).id = 0 /\ ~ConnAck(rc).cut
      BY LinkConstants, PacketsTyped DEF ConnAck
    <3>3. Members(toClient') = Members(toClient) \cup {ConnAck(rc)}
      BY <1>1, <3>1, <3>2, MembersOfAppend
    <3>4. \A q \in {q \in {p} : q.id # 0} : Plain(q) /\ ~q.cut
      BY <1>2, <2>3 DEF Plain
    <3>5. AnswersInv'
      BY <1>2, <2>1, <2>2, <3>2, <3>3, <3>4 DEF ServedInv, AnswersInv, Answered
    <3> QED
      BY <1>3, <3>5 DEF ServedInv
  <2>4. CASE p.type # "CONNECT" /\ ~p.cut /\ toClient' = toClient \o Reply(p)
    <3>1. Members(toClient') = Members(toClient) \cup Members(Reply(p))
      BY <1>1, <2>4, MembersOfConcat
    <3>2. Reply(p) = <<>> \/ \E a : Reply(p) = <<a>> /\ ~a.cut /\ (a.id # 0 => p.id # 0)
      <4>1. \A t \in {"SUBACK", "UNSUBACK", "PUBACK", "PUBREC", "PUBCOMP", "PUBREL"} :
              ~WithId(t, p.id).cut /\ WithId(t, p.id).id = p.id
        BY DEF WithId
      <4>2. ~Ctl("PINGRESP").cut /\ Ctl("PINGRESP").id = 0
        BY DEF Ctl
      <4> QED
        BY <4>1, <4>2 DEF Reply
    <3>3. ASSUME NEW a \in Members(Reply(p)) PROVE ~a.cut /\ (a.id # 0 => p.id # 0 /\ Reply(p) = <<a>>)
      BY <3>2, <3>3, MembersOfOne, MembersOfEmpty
    <3>4. AnswersInv'
      BY <1>2, <2>1, <2>2, <2>4, <3>1, <3>3 DEF ServedInv, AnswersInv, Answered
    <3> QED
      BY <1>3, <3>4 DEF ServedInv
  <2> QED
    BY <2>1, <2>3, <2>4
<1> QED
  BY <1>4, <1>5

LEMMA NetworkServes ==
  ASSUME TypeOK, ServedInv, Network \/ Tick \/ UNCHANGED vars
  PROVE  ServedInv'
<1>1. LinkTypeOK /\ toClient \in Seq(Packet) /\ toBroker \in Seq(Packet)
  BY DEF TypeOK, LinkTypeOK
<1>2. StackInv'
  BY DEF Network, Tick, vars, clientVars, ServedInv, StackInv
<1>3. CASE Tick \/ UNCHANGED vars
  BY <1>2, <1>3 DEF Tick, LinkTick, vars, linkVars, clientVars, ServedInv, AnswersInv, Answered
<1>4. CASE Network /\ ~BrokerReceive
  <2>1. handled' = handled
    BY <1>1, <1>4, Taken DEF Network
  <2>2. Members(toBroker') \subseteq Members(toBroker)
    BY <1>4, MembersOfEmpty DEF Network, LinkNext, BrokerPublish, BrokerPing, BrokerHangs, LinkDown, Drop
  <2>3. CASE LinkDown
    BY <1>2, <2>1, <2>2, <2>3 DEF LinkDown, Drop, ServedInv, AnswersInv
  <2>4. CASE BrokerHangs
    BY <1>2, <2>1, <2>2, <2>4 DEF BrokerHangs, ServedInv, AnswersInv, Answered
  <2>5. CASE BrokerPublish \/ BrokerPing
    <3>1. PICK p \in Packet : toClient' = Append(toClient, p) /\ ~p.cut /\ Answered(p)
      <4>1. ASSUME NEW id \in MsgIds \cup {0}, NEW q \in BrokerQos \cup {0}, NEW f \in BrokerFits
            PROVE  Publication(id, q, f) \in Packet /\ ~Publication(id, q, f).cut /\ Answered(Publication(id, q, f))
        BY LinkConstants, PacketsTyped DEF Publication, Answered
      <4>2. Ctl("PINGREQ") \in Packet /\ ~Ctl("PINGREQ").cut /\ Answered(Ctl("PINGREQ"))
        BY WritesTyped DEF Ctl, Answered
      <4> QED
        BY <2>5, <4>1, <4>2 DEF BrokerPublish, BrokerPing
    <3>2. Members(toClient') = Members(toClient) \cup {p}
      BY <1>1, <3>1, MembersOfAppend
    <3>3. tcp' = tcp
      BY <2>5 DEF BrokerPublish, BrokerPing
    <3> QED
      BY <1>2, <2>1, <2>2, <3>1, <3>2, <3>3 DEF ServedInv, AnswersInv, Answered
  <2> QED
    BY <1>4, <2>3, <2>4, <2>5 DEF Network, LinkNext
<1> QED
  BY <1>3, <1>4, ReceiveServes

LEMMA ServedInvariant == Spec => []ServedInv
<1>1. Init => ServedInv
  BY MembersOfEmpty DEF Init, LinkInit, ServedInv, StackInv, Nested, AnswersInv
<1>2. ASSUME TypeOK, ServedInv, [Next]_vars PROVE ServedInv'
  BY <1>2, ClientServes, NetworkServes DEF Next
<1> QED
  BY <1>1, <1>2, TypeCorrect, PTL DEF Spec

LEMMA SameRequest ==
  ASSUME NEW p \in Packet, NEW r \in Packet, NEW a,
         AsksFor(p), Plain(r), ~r.cut, Reply(r) = <<a>>, a.type = ResponseType(p),
         p.id \in {0, a.id}, p.id # 0
  PROVE  p = r
<1>1. r.type \in {"PINGREQ", "SUBSCRIBE", "PUBLISH", "PUBREL", "PUBREC"} /\ r.type # "UNSUBSCRIBE"
  BY DEF Reply, Plain
<1>2. /\ r.type = "PINGREQ" => a.id = 0
      /\ r.type = "SUBSCRIBE" => a.type = "SUBACK" /\ a.id = r.id
      /\ r.type = "PUBREL" => a.type = "PUBCOMP" /\ a.id = r.id
      /\ r.type = "PUBREC" => a.type = "PUBREL" /\ a.id = r.id
  BY DEF Ctl, WithId, Reply
<1>3. /\ r.type = "PUBLISH" => r.qos \in {1, 2} /\ a.id = r.id
      /\ r.type = "PUBLISH" => a.type = IF r.qos = 1 THEN "PUBACK" ELSE "PUBREC"
  <2>1. r.qos \in 0..2
    BY DEF Packet
  <2>2. r.type = "PUBLISH" /\ r.qos = 1 => Reply(r) = <<WithId("PUBACK", r.id)>>
    BY DEF Reply
  <2>3. r.type = "PUBLISH" /\ r.qos = 2 => Reply(r) = <<WithId("PUBREC", r.id)>>
    BY DEF Reply
  <2>4. r.type = "PUBLISH" /\ r.qos = 0 => Reply(r) = <<>>
    BY DEF Reply
  <2>5. <<a>> # <<>>
    OBVIOUS
  <2>6. /\ r.type = "PUBLISH" /\ r.qos = 1 => a = WithId("PUBACK", r.id)
        /\ r.type = "PUBLISH" /\ r.qos = 2 => a = WithId("PUBREC", r.id)
    BY <2>2, <2>3
  <2>7. r.type = "PUBLISH" => r.qos # 0
    BY <2>4, <2>5
  <2> QED
    BY <2>1, <2>6, <2>7 DEF WithId
<1>4. r.id = p.id /\ r.type # "PINGREQ"
  BY <1>1, <1>2, <1>3
<1>5. p.type \in {"CONNECT", "PUBLISH", "PUBREC", "PUBREL", "SUBSCRIBE"} /\ p.qos \in 0..2 /\ r.qos \in 0..2
      /\ (p.cut => p.type = "SUBSCRIBE")
  BY DEF AsksFor, Plain, Packet
<1>6. p.type = r.type /\ ~p.cut /\ p.qos = r.qos
  <2>1. CASE p.type = "PUBLISH"
    BY <1>1, <1>2, <1>3, <1>4, <1>5, <2>1 DEF ResponseType, AsksFor
  <2>2. CASE p.type # "PUBLISH"
    <3>1. p.type = r.type /\ ~p.cut
      BY <1>1, <1>2, <1>3, <1>4, <1>5, <2>2 DEF ResponseType
    <3> QED
      BY <2>2, <3>1 DEF AsksFor, Plain
  <2> QED
    BY <2>1, <2>2
<1> QED
  BY <1>4, <1>6 DEF AsksFor, Plain, Packet

\* A wait that is over after reading a packet has read the answer to its own request.
LEMMA SuccessServed ==
  ASSUME TypeOK, ServedInv, [Next]_vars, WaitSucceeds, Top.sent.id # 0, tcp' = "open"
  PROVE  Top.sent \in handled
<1>1. /\ stack \in Seq(Frame) /\ stack # <<>> /\ Top \in Frame /\ Top.sent \in Packet
      /\ Len(stack) \in Nat \ {0} /\ AllWait(stack) /\ AsksFor(Top.sent)
      /\ toClient \in Seq(Packet) /\ Top.phase = "blocked"
  <2>1. stack \in Seq(Frame) /\ stack # <<>> /\ Waits(Top) /\ Nested(stack) /\ toClient \in Seq(Packet)
    BY DEF TypeOK, LinkTypeOK, WaitSucceeds, Waits, ServedInv, StackInv
  <2> QED
    BY <2>1, StackParts, FrameTyped, NestedTail DEF Top, WaitSucceeds
<1>2. WaitProcesses
  <2>1. stack' # stack
    BY <1>1 DEF WaitSucceeds, Top
  <2>2. ~InApp /\ ~InCallback
    BY <1>1 DEF InApp, InCallback
  <2> QED
    BY <1>1, <2>1, <2>2
       DEF Next, Proceed, CallOffline, LoopTimesOut, Loop, WaitFails, WaitReads, CallbackReturns,
           ConnectOpens, Disconnect, PublishOnce, PublishReliably, Subscribe, Unsubscribe, SendReliably,
           Network, Tick, vars, clientVars
<1>3. tcp = "open" /\ toClient # <<>> /\ ~InApp
  BY <1>2 DEF WaitProcesses, othersOfLink
<1>4. ~BlocksIn(Head(toClient), <<>>, outAge, pingOutstanding)
  <2> DEFINE f == [phase |-> "stuck", sent |-> Head(toClient), retries |-> 0]
  <2>1. f \in Frame
    BY <1>3, ReadTyped, FrameTyped DEF TypeOK
  <2> HIDE DEF f
  <2>2. Len(<<f>> \o stack) = Len(stack) + 1
    BY <1>1, <2>1, Pushed
  <2> QED
    BY <1>1, <2>2 DEF BlocksIn, Push, WaitSucceeds, f
<1>5. /\ Head(toClient) \in Packet /\ ~Head(toClient).cut /\ Answered(Head(toClient))
      /\ Parsed(Head(toClient)) = {Head(toClient)}
  <2>1. Head(toClient) \in Packet /\ Head(toClient) \in Members(toClient)
    BY <1>1, <1>3, MembersOfTail, ReadTyped DEF TypeOK
  <2>2. ~Head(toClient).cut /\ Answered(Head(toClient))
    BY <1>3, <2>1 DEF ServedInv, AnswersInv
  <2> QED
    BY <2>1, <2>2 DEF Parsed
<1> DEFINE p == Head(toClient)
<1>6. Answers(p) \/ Handle(p, <<>>, outAge, pingOutstanding)
  BY <1>2, <1>4, <1>5, Zenon DEF WaitProcesses
<1>7. ~Handle(p, <<>>, outAge, pingOutstanding)
  <2> DEFINE g == [phase |-> "callback", sent |-> p, retries |-> 0]
             h == [Head(stack) EXCEPT !.phase = "head"]
  <2>1. /\ AtHead(stack) \in Seq(Frame) /\ Len(AtHead(stack)) = Len(stack) /\ g \in Frame
        /\ h \in Frame /\ h.sent = Top.sent /\ Tail(stack) \in Seq(Frame)
    BY <1>1, <1>5, AtHeadTyped, FrameTyped, StackParts DEF Top, Frame
  <2>2. AtHead(stack) = <<h>> \o Tail(stack)
    BY <1>1 DEF AtHead
  <2>3. Handle(p, <<>>, outAge, pingOutstanding) => stack' \in {<<g>> \o AtHead(stack), AtHead(stack)}
    BY DEF Handle
  <2> HIDE DEF g, h
  <2>4. Len(<<g>> \o AtHead(stack)) = Len(stack) + 1
    BY <2>1, Pushed
  <2>5. Head(AtHead(stack)).sent = Top.sent /\ AtHead(stack) # <<>>
    BY <2>1, <2>2, Pushed
  <2> QED
    BY <1>1, <2>3, <2>4, <2>5 DEF WaitSucceeds
<1>8. p.type = ResponseType(Top.sent) /\ Top.sent.id \in {0, p.id} /\ p.id # 0
  BY <1>6, <1>7 DEF Answers
<1>9. p.type # "PUBLISH"
  BY <1>1, <1>8 DEF ResponseType, AsksFor, Packet
<1>10. PICK r \in handled : Reply(r) = <<p>>
  BY <1>5, <1>8, <1>9 DEF Answered
<1>11. r \in Packet /\ Plain(r) /\ ~r.cut
  BY <1>10 DEF TypeOK, ServedInv, AnswersInv
<1> HIDE DEF p
<1> QED
  BY <1>1, <1>8, <1>10, <1>11, SameRequest

\* A call that reports success has been served: the broker has processed that very
\* packet on this connection (send_reliably(), wait_for()), although answers to
\* earlier calls, retries and nested waits come in between.
THEOREM SuccessIsServed == Spec => SuccessMeansHandled
<1>1. ASSUME TypeOK, ServedInv, [Next]_vars
      PROVE  [WaitSucceeds /\ Top.sent.id # 0 /\ tcp' = "open" => Top.sent \in handled]_vars
  BY <1>1, SuccessServed
<1> QED
  BY <1>1, TypeCorrect, ServedInvariant, PTL DEF Spec, SuccessMeansHandled

----------------------------------------------------------------------------
(* No request is in the broker's queue more often than its retries allow   *)
(* (CopiesBounded).  b and c are the two queues, u the ids of publications *)
(* the broker wants answered, n the last id the client has taken.          *)

\* So few requests on a connection that the 16 bit counter of ids does not start
\* over: after 65535 of them a new request can have the id of one on its way.
NoWrap == RequestCap < 65536

Rel(id)      == WithId("PUBREL", id)
RecsOf(id)   == {p \in Packet : p.type = "PUBREC" /\ p.id = id}
RelsOf(id)   == {p \in Packet : p.type = "PUBREL" /\ p.id = id}
Given(id)    == {p \in Packet : p.type = "PUBLISH" /\ p.qos # 0 /\ p.id = id}

\* An exchange with an id of the broker: the PUBREC on their way and the PUBREL
\* that answer them, and publications that have not been read.
Pairs(id, b, c) == Number(b, RecsOf(id)) + Number(c, RelsOf(id))
Fresh(id, c)    == Number(c, Given(id))

\* A request with an id of the client; a wait for its answer; what is going on
\* about an id of the broker.
Own(p)   == \/ p.type \in {"CONNECT", "SUBSCRIBE", "PUBREL"}
            \/ p.type = "PUBLISH" /\ (p.id # 0 \/ p.qos # 0)
Asks(f)  == Waits(f) /\ f.sent.type # "PUBREC"
About(f) == \/ f.phase = "callback" /\ f.sent.qos # 0
            \/ Waits(f) /\ f.sent.type = "PUBREC"
Quota(f) == IF f.phase = "callback" THEN 0 ELSE f.retries + 1

\* What there may be of everything.
OwnBounded(b, n) ==
  \A p \in Packet : Own(p) => /\ Number(b, {p}) <= MaxRetries + 1
                              /\ p.id > n => Number(b, {p}) <= 0
PairsBounded(b, c, u) ==
  \A id \in Nat : /\ Pairs(id, b, c) <= MaxRetries + 1
                  /\ id \notin u => Pairs(id, b, c) <= 0 /\ Fresh(id, c) <= 0
                  /\ Fresh(id, c) <= 1
                  /\ Fresh(id, c) > 0 => Pairs(id, b, c) <= 0

\* What there may be of the packet a frame is about.
AskBounded(f, b, n) ==
  Asks(f) => /\ Number(b, {f.sent}) <= f.retries + 1
             /\ f.sent.type # "CONNECT" => f.sent.id = n
             /\ f.sent.type = "PUBLISH" => Number(b, {Rel(n)}) <= 0
AboutBounded(f, b, c, u) ==
  About(f) => /\ f.sent.id \in u
              /\ Pairs(f.sent.id, b, c) <= Quota(f)
              /\ Fresh(f.sent.id, c) <= 0
FramesBounded(s, b, c, u, n) ==
  \A i \in DOMAIN s : AskBounded(s[i], b, n) /\ AboutBounded(s[i], b, c, u)

\* Only the outermost call waits for an answer to a request of its own, and no two
\* are about the same id.
Distinct(s) ==
  /\ \A i \in DOMAIN s : Asks(s[i]) => i = Len(s)
  /\ \A i, j \in DOMAIN s : About(s[i]) /\ About(s[j]) /\ s[i].sent.id = s[j].sent.id => i = j

Bounded(s, b, c, u, n) ==
  /\ OwnBounded(b, n)
  /\ PairsBounded(b, c, u)
  /\ Distinct(s)
  /\ FramesBounded(s, b, c, u, n)

CopyInv ==
  /\ tcp # "open" => toBroker = <<>>
  /\ tcp = "open" => Bounded(stack, toBroker, toClient, unacked, nextMsgId)

LEMMA NumbersAre ==
  ASSUME NEW q \in Seq(Packet)
  PROVE  \A K : Number(q, K) \in Nat
BY NumberTyped

LEMMA PairsTyped ==
  ASSUME NEW b \in Seq(Packet), NEW c \in Seq(Packet)
  PROVE  \A id : Pairs(id, b, c) \in Nat /\ Fresh(id, c) \in Nat
BY NumbersAre DEF Pairs, Fresh

\* The parts of a stack.
LEMMA DistinctTail ==
  ASSUME NEW s \in Seq(Frame), s # <<>>, Distinct(s)
  PROVE  /\ Distinct(Tail(s))
         /\ Asks(Head(s)) => Tail(s) = <<>>
         /\ \A i \in DOMAIN Tail(s) :
              About(Head(s)) /\ About(Tail(s)[i]) => Tail(s)[i].sent.id # Head(s).sent.id
<1>1. /\ Len(s) \in Nat \ {0} /\ DOMAIN s = 1..Len(s) /\ DOMAIN Tail(s) = 1..(Len(s) - 1)
      /\ Head(s) = s[1] /\ \A i \in 1..(Len(s) - 1) : Tail(s)[i] = s[i + 1]
      /\ Len(Tail(s)) = Len(s) - 1 /\ Tail(s) \in Seq(Frame)
  BY PlacesOfTail, StackParts
<1>2. ASSUME NEW i \in DOMAIN Tail(s)
      PROVE  Tail(s)[i] = s[i + 1] /\ i + 1 \in DOMAIN s /\ i + 1 # 1 /\ (i + 1 = Len(s) <=> i = Len(Tail(s)))
  BY <1>1
<1>3. Distinct(Tail(s))
  <2>1. \A i \in DOMAIN Tail(s) : Asks(Tail(s)[i]) => i = Len(Tail(s))
    BY <1>2 DEF Distinct
  <2>2. ASSUME NEW i \in DOMAIN Tail(s), NEW j \in DOMAIN Tail(s), About(Tail(s)[i]), About(Tail(s)[j]),
               Tail(s)[i].sent.id = Tail(s)[j].sent.id
        PROVE  i = j
    <3>1. i + 1 = j + 1
      BY <1>2, <2>2 DEF Distinct
    <3> QED
      BY <1>1, <3>1
  <2> QED
    BY <2>1, <2>2 DEF Distinct
<1>4. Asks(Head(s)) => Tail(s) = <<>>
  <2>1. Asks(Head(s)) => Len(Tail(s)) = 0
    BY <1>1 DEF Distinct
  <2> QED
    BY <1>1, <2>1, EmptySeq
<1>5. ASSUME NEW i \in DOMAIN Tail(s), About(Head(s)), About(Tail(s)[i])
      PROVE  Tail(s)[i].sent.id # Head(s).sent.id
  BY <1>1, <1>2, <1>5 DEF Distinct
<1> QED
  BY <1>3, <1>4, <1>5

LEMMA DistinctPush ==
  ASSUME NEW s \in Seq(Frame), NEW f \in Frame, Distinct(s), Asks(f) => s = <<>>,
         \A i \in DOMAIN s : About(f) /\ About(s[i]) => s[i].sent.id # f.sent.id
  PROVE  Distinct(<<f>> \o s)
<1> DEFINE t == <<f>> \o s
<1>1. /\ Len(s) \in Nat /\ DOMAIN s = 1..Len(s) /\ DOMAIN t = 1..(Len(s) + 1) /\ Len(t) = Len(s) + 1
      /\ t[1] = f /\ \A i \in 2..(Len(s) + 1) : t[i] = s[i - 1]
  BY PlacesOfPushed, Pushed, LenProperties
<1> HIDE DEF t
<1>2. ASSUME NEW i \in DOMAIN t, i # 1
      PROVE  t[i] = s[i - 1] /\ i - 1 \in DOMAIN s /\ (i - 1 = Len(s) <=> i = Len(t))
  BY <1>1, <1>2
<1>3. ASSUME NEW i \in DOMAIN t, Asks(t[i]) PROVE i = Len(t)
  <2>1. CASE i = 1
    <3>1. s = <<>>
      BY <1>1, <1>3, <2>1
    <3> QED
      BY <1>1, <2>1, <3>1, EmptySeq
  <2>2. CASE i # 1
    BY <1>2, <1>3, <2>2 DEF Distinct
  <2> QED
    BY <2>1, <2>2
<1>4. ASSUME NEW i \in DOMAIN t, NEW j \in DOMAIN t, About(t[i]), About(t[j]), t[i].sent.id = t[j].sent.id
      PROVE  i = j
  <2>1. CASE i # 1 /\ j # 1
    <3>1. i - 1 = j - 1
      BY <1>2, <1>4, <2>1 DEF Distinct
    <3> QED
      BY <1>1, <3>1
  <2>2. CASE i = 1 \/ j = 1
    BY <1>1, <1>2, <1>4, <2>2
  <2> QED
    BY <2>1, <2>2
<1>5. Distinct(t)
  BY <1>3, <1>4 DEF Distinct
<1> QED
  BY <1>5 DEF t

\* Something true of every frame of a stack.
LEMMA FramesTail ==
  ASSUME NEW s \in Seq(Frame), s # <<>>, NEW b, NEW c, NEW u, NEW n, FramesBounded(s, b, c, u, n)
  PROVE  /\ FramesBounded(Tail(s), b, c, u, n)
         /\ AskBounded(Head(s), b, n) /\ AboutBounded(Head(s), b, c, u)
<1>1. /\ \A i \in DOMAIN Tail(s) : i + 1 \in DOMAIN s /\ Tail(s)[i] = s[i + 1]
      /\ 1 \in DOMAIN s /\ Head(s) = s[1]
  BY PlacesOfTail
<1> QED
  BY <1>1 DEF FramesBounded

LEMMA FramesPush ==
  ASSUME NEW s \in Seq(Frame), NEW f \in Frame, NEW b, NEW c, NEW u, NEW n,
         FramesBounded(s, b, c, u, n), AskBounded(f, b, n), AboutBounded(f, b, c, u)
  PROVE  FramesBounded(<<f>> \o s, b, c, u, n)
<1> DEFINE t == <<f>> \o s
<1>1. ASSUME NEW i \in DOMAIN t PROVE (i = 1 /\ t[i] = f) \/ \E j \in DOMAIN s : t[i] = s[j]
  <2>1. /\ Len(s) \in Nat /\ DOMAIN s = 1..Len(s) /\ DOMAIN t = 1..(Len(s) + 1)
        /\ t[1] = f /\ \A k \in 2..(Len(s) + 1) : t[k] = s[k - 1]
    BY PlacesOfPushed, LenProperties
  <2>2. i # 1 => i - 1 \in DOMAIN s /\ t[i] = s[i - 1]
    BY <2>1
  <2> QED
    BY <2>1, <2>2
<1> HIDE DEF t
<1>2. FramesBounded(t, b, c, u, n)
  BY <1>1 DEF FramesBounded
<1> QED
  BY <1>2 DEF t

\* Only the phase of a wait changes.
LEMMA SameFrame ==
  ASSUME NEW f \in Frame, Waits(f), NEW ph \in {"poll", "head", "blocked"}
  PROVE  LET g == [f EXCEPT !.phase = ph]
         IN  /\ g \in Frame /\ (Asks(g) <=> Asks(f)) /\ (About(g) <=> About(f)) /\ Quota(g) = Quota(f)
             /\ g.sent = f.sent /\ g.retries = f.retries
BY DEF Frame, Waits, Asks, About, Quota

\* A write adds at most one packet to a queue; a read takes the first one away.
LEMMA NumberOfWrite ==
  ASSUME NEW b \in Seq(Packet), NEW p \in Packet, NEW b2 \in {b, b \o <<p>>}
  PROVE  /\ b2 \in Seq(Packet)
         /\ \A K : Number(b2, K) <= Number(b, K) + 1 /\ (p \notin K => Number(b2, K) <= Number(b, K))
<1>1. <<p>> \in Seq(Packet) /\ b \o <<p>> \in Seq(Packet)
  BY ConcatProperties
<1>2. \A K : Number(b, K) \in Nat /\ Number(b \o <<p>>, K) = Number(b, K) + (IF p \in K THEN 1 ELSE 0)
  BY NumbersAre, NumberOfOne
<1>3. CASE b2 = b
  BY <1>2, <1>3
<1>4. CASE b2 = b \o <<p>>
  BY <1>1, <1>2, <1>4
<1> QED
  BY <1>3, <1>4

LEMMA NumberOfRead ==
  ASSUME NEW c \in Seq(Packet), c # <<>>
  PROVE  /\ Tail(c) \in Seq(Packet)
         /\ \A K : /\ Number(Tail(c), K) <= Number(c, K)
                   /\ Head(c) \in K => Number(Tail(c), K) + 1 = Number(c, K)
<1>1. Tail(c) \in Seq(Packet)
  BY HeadTailProperties
<1>2. \A K : /\ Number(Tail(c), K) \in Nat
             /\ Number(c, K) = Number(Tail(c), K) + (IF Head(c) \in K THEN 1 ELSE 0)
  BY <1>1, NumbersAre, NumberOfTail
<1> QED
  BY <1>1, <1>2

\* A step after which there is no more of anything.
NoMore(b2, c2, b, c) ==
  /\ \A p \in Packet : Own(p) => Number(b2, {p}) <= Number(b, {p})
  /\ \A id \in Nat : Pairs(id, b2, c2) <= Pairs(id, b, c) /\ Fresh(id, c2) <= Fresh(id, c)

LEMMA AskedIsOwn ==
  \A f \in Frame : Asks(f) /\ AsksFor(f.sent) => Own(f.sent)
BY DEF Asks, AsksFor, Own, Frame, Packet

LEMMA RelIsOwn == \A id \in Nat : Rel(id) \in Packet /\ Own(Rel(id)) /\ Rel(id).type = "PUBREL" /\ Rel(id).id = id
<1>1. \A id \in Nat : Rel(id) \in Packet
  BY WritesTyped DEF Rel
<1> QED
  BY <1>1 DEF Rel, WithId, Own

\* What is known of a frame stays true while there is no more of its packet.
LEMMA FrameKept ==
  ASSUME NEW f \in Frame, NEW b \in Seq(Packet), NEW c \in Seq(Packet), NEW b2 \in Seq(Packet),
         NEW c2 \in Seq(Packet), NEW u, NEW u2, u \subseteq u2, NEW n,
         AskBounded(f, b, n), AboutBounded(f, b, c, u),
         Asks(f) => /\ Number(b2, {f.sent}) <= Number(b, {f.sent})
                    /\ Number(b2, {Rel(n)}) <= Number(b, {Rel(n)}),
         About(f) => /\ Pairs(f.sent.id, b2, c2) <= Pairs(f.sent.id, b, c)
                     /\ Fresh(f.sent.id, c2) <= Fresh(f.sent.id, c)
  PROVE  AskBounded(f, b2, n) /\ AboutBounded(f, b2, c2, u2)
<1>1. f.retries \in Nat /\ Quota(f) \in Nat
  BY Constants DEF Frame, Quota
<1>2. AskBounded(f, b2, n)
  <2>1. /\ Number(b2, {f.sent}) \in Nat /\ Number(b, {f.sent}) \in Nat
        /\ Number(b2, {Rel(n)}) \in Nat /\ Number(b, {Rel(n)}) \in Nat
    BY NumbersAre
  <2> QED
    BY <1>1, <2>1 DEF AskBounded
<1>3. AboutBounded(f, b2, c2, u2)
  <2>1. /\ Pairs(f.sent.id, b2, c2) \in Nat /\ Pairs(f.sent.id, b, c) \in Nat
        /\ Fresh(f.sent.id, c2) \in Nat /\ Fresh(f.sent.id, c) \in Nat
    BY PairsTyped
  <2> QED
    BY <1>1, <2>1 DEF AboutBounded
<1> QED
  BY <1>2, <1>3

\* The numbers of a client or broker state.
Counted(s, b, c, u, n) ==
  /\ s \in Seq(Frame) /\ b \in Seq(Packet) /\ c \in Seq(Packet) /\ u \subseteq Nat \ {0} /\ n \in Nat
  /\ \A i \in DOMAIN s : s[i] \in Frame /\ (Waits(s[i]) => AsksFor(s[i].sent))

LEMMA OwnKept ==
  ASSUME NEW b \in Seq(Packet), NEW b2 \in Seq(Packet), NEW n \in Nat, OwnBounded(b, n),
         \A p \in Packet : Own(p) => Number(b2, {p}) <= Number(b, {p})
  PROVE  OwnBounded(b2, n)
<1> SUFFICES ASSUME NEW p \in Packet, Own(p)
             PROVE  /\ Number(b2, {p}) <= MaxRetries + 1
                    /\ p.id > n => Number(b2, {p}) <= 0
  BY DEF OwnBounded
<1>1. Number(b2, {p}) \in Nat /\ Number(b, {p}) \in Nat /\ Number(b2, {p}) <= Number(b, {p})
  BY NumbersAre
<1>2. Number(b, {p}) <= MaxRetries + 1 /\ (p.id > n => Number(b, {p}) <= 0)
  BY DEF OwnBounded
<1> QED
  BY <1>1, <1>2, Constants

LEMMA PairsKept ==
  ASSUME NEW b \in Seq(Packet), NEW b2 \in Seq(Packet), NEW c \in Seq(Packet), NEW c2 \in Seq(Packet),
         NEW u, PairsBounded(b, c, u),
         \A id \in Nat : Pairs(id, b2, c2) <= Pairs(id, b, c) /\ Fresh(id, c2) <= Fresh(id, c)
  PROVE  PairsBounded(b2, c2, u)
<1> SUFFICES ASSUME NEW id \in Nat
             PROVE  /\ Pairs(id, b2, c2) <= MaxRetries + 1
                    /\ id \notin u => Pairs(id, b2, c2) <= 0 /\ Fresh(id, c2) <= 0
                    /\ Fresh(id, c2) <= 1
                    /\ Fresh(id, c2) > 0 => Pairs(id, b2, c2) <= 0
  BY DEF PairsBounded
<1>1. /\ Pairs(id, b2, c2) \in Nat /\ Pairs(id, b, c) \in Nat
      /\ Fresh(id, c2) \in Nat /\ Fresh(id, c) \in Nat
      /\ Pairs(id, b2, c2) <= Pairs(id, b, c) /\ Fresh(id, c2) <= Fresh(id, c)
  BY PairsTyped
<1>2. /\ Pairs(id, b, c) <= MaxRetries + 1
      /\ id \notin u => Pairs(id, b, c) <= 0 /\ Fresh(id, c) <= 0
      /\ Fresh(id, c) <= 1
      /\ Fresh(id, c) > 0 => Pairs(id, b, c) <= 0
  BY DEF PairsBounded
<1> QED
  BY <1>1, <1>2, Constants

LEMMA BoundedKept ==
  ASSUME NEW s, NEW b, NEW c, NEW u, NEW n, Counted(s, b, c, u, n), Bounded(s, b, c, u, n),
         NEW b2 \in Seq(Packet), NEW c2 \in Seq(Packet), NoMore(b2, c2, b, c)
  PROVE  Bounded(s, b2, c2, u, n)
<1> USE DEF Counted
<1>1. OwnBounded(b2, n) /\ PairsBounded(b2, c2, u)
  BY OwnKept, PairsKept DEF NoMore, Bounded
<1>2. FramesBounded(s, b2, c2, u, n)
  <2> SUFFICES ASSUME NEW i \in DOMAIN s
               PROVE  AskBounded(s[i], b2, n) /\ AboutBounded(s[i], b2, c2, u)
    BY DEF FramesBounded
  <2>1. s[i] \in Frame /\ AskBounded(s[i], b, n) /\ AboutBounded(s[i], b, c, u)
    BY DEF Bounded, FramesBounded
  <2>2. Asks(s[i]) => Own(s[i].sent) /\ s[i].sent \in Packet
    BY <2>1, AskedIsOwn, FrameTyped DEF Asks
  <2>3. Asks(s[i]) => /\ Number(b2, {s[i].sent}) <= Number(b, {s[i].sent})
                      /\ Number(b2, {Rel(n)}) <= Number(b, {Rel(n)})
    BY <2>2, RelIsOwn DEF NoMore
  <2>4. About(s[i]) => s[i].sent.id \in Nat
    BY <2>1 DEF Frame, Packet
  <2>5. About(s[i]) => /\ Pairs(s[i].sent.id, b2, c2) <= Pairs(s[i].sent.id, b, c)
                       /\ Fresh(s[i].sent.id, c2) <= Fresh(s[i].sent.id, c)
    BY <2>4 DEF NoMore
  <2> DEFINE f == s[i]
  <2> HIDE DEF f
  <2>6. AskBounded(f, b2, n) /\ AboutBounded(f, b2, c2, u)
    BY <2>1, <2>3, <2>5, FrameKept DEF f
  <2> QED
    BY <2>6 DEF f
<1> QED
  BY <1>1, <1>2 DEF Bounded

\* Stacks with a call less, a call more, or a call that is at another place.
Nobody(s, id) == \A i \in DOMAIN s : About(s[i]) => s[i].sent.id # id

LEMMA CountedParts ==
  ASSUME NEW s \in Seq(Frame), NEW b \in Seq(Packet), NEW c \in Seq(Packet), NEW u, u \subseteq MsgIds,
         NEW n \in Nat, Nested(s)
  PROVE  Counted(s, b, c, u, n)
<1>1. u \subseteq Nat \ {0}
  BY LinkAssumption DEF LinkAssumption
<1>2. ASSUME NEW i \in DOMAIN s PROVE s[i] \in Frame /\ (Waits(s[i]) => AsksFor(s[i].sent))
  <2>1. s # <<>> /\ s[i] \in Frame
    BY <1>2
  <2>2. CASE i = 1
    BY <2>1, <2>2, PlacesOfTail DEF Nested
  <2>3. CASE i # 1
    <3>1. i - 1 \in DOMAIN Tail(s) /\ Tail(s)[i - 1] = s[i]
      BY <1>2, <2>1, <2>3, PlacesOfTail
    <3> QED
      BY <2>1, <3>1 DEF Nested, AllWait
  <2> QED
    BY <2>1, <2>2, <2>3
<1> QED
  BY <1>1, <1>2 DEF Counted

LEMMA BoundedTail ==
  ASSUME NEW s \in Seq(Frame), s # <<>>, NEW b, NEW c, NEW u, NEW n, Bounded(s, b, c, u, n)
  PROVE  /\ Bounded(Tail(s), b, c, u, n)
         /\ AskBounded(Head(s), b, n) /\ AboutBounded(Head(s), b, c, u)
         /\ Asks(Head(s)) => Tail(s) = <<>>
         /\ About(Head(s)) => Nobody(Tail(s), Head(s).sent.id)
BY DistinctTail, FramesTail DEF Bounded, Nobody

LEMMA BoundedPush ==
  ASSUME NEW s \in Seq(Frame), NEW f \in Frame, NEW b, NEW c, NEW u, NEW n, Bounded(s, b, c, u, n),
         AskBounded(f, b, n), AboutBounded(f, b, c, u), Asks(f) => s = <<>>,
         About(f) => Nobody(s, f.sent.id)
  PROVE  Bounded(<<f>> \o s, b, c, u, n)
<1>1. Distinct(<<f>> \o s)
  BY DistinctPush DEF Bounded, Nobody
<1>2. FramesBounded(<<f>> \o s, b, c, u, n)
  BY FramesPush DEF Bounded
<1> QED
  BY <1>1, <1>2 DEF Bounded

LEMMA BoundedFirst ==
  ASSUME NEW f \in Frame, NEW b, NEW c, NEW u, NEW n, Bounded(<<>>, b, c, u, n),
         AskBounded(f, b, n), AboutBounded(f, b, c, u), ~About(f)
  PROVE  Bounded(<<f>>, b, c, u, n)
<1>1. <<>> \in Seq(Frame) /\ <<f>> \in Seq(Frame)
  OBVIOUS
<1>2. Bounded(<<f>> \o <<>>, b, c, u, n)
  BY <1>1, BoundedPush
<1>3. <<f>> \o <<>> = <<f>>
  BY <1>1, ConcatEmptySeq
<1> QED
  BY <1>2, <1>3

LEMMA BoundedEmpty ==
  ASSUME NEW b, NEW c, NEW u, NEW n, OwnBounded(b, n), PairsBounded(b, c, u)
  PROVE  Bounded(<<>>, b, c, u, n)
BY DEF Bounded, Distinct, FramesBounded

LEMMA BoundedPlace ==
  ASSUME NEW s \in Seq(Frame), s # <<>>, NEW b, NEW c, NEW u, NEW n, Bounded(s, b, c, u, n),
         Waits(Head(s)), NEW ph \in {"poll", "head", "blocked"}
  PROVE  Bounded(<<[Head(s) EXCEPT !.phase = ph]>> \o Tail(s), b, c, u, n)
<1> DEFINE f == Head(s)
           g == [f EXCEPT !.phase = ph]
<1>1. f \in Frame /\ Tail(s) \in Seq(Frame)
  BY StackParts
<1>2. /\ g \in Frame /\ (Asks(g) <=> Asks(f)) /\ (About(g) <=> About(f)) /\ Quota(g) = Quota(f)
      /\ g.sent = f.sent /\ g.retries = f.retries
  BY <1>1, SameFrame
<1>3. /\ Bounded(Tail(s), b, c, u, n) /\ AskBounded(f, b, n) /\ AboutBounded(f, b, c, u)
      /\ (Asks(f) => Tail(s) = <<>>) /\ (About(f) => Nobody(Tail(s), f.sent.id))
  BY BoundedTail
<1> HIDE DEF f, g
<1>4. AskBounded(g, b, n) /\ AboutBounded(g, b, c, u)
  BY <1>2, <1>3 DEF AskBounded, AboutBounded
<1>5. Bounded(<<g>> \o Tail(s), b, c, u, n)
  BY <1>1, <1>2, <1>3, <1>4, BoundedPush
<1> QED
  BY <1>5 DEF f, g

LEMMA NobodyAtHead ==
  ASSUME NEW s \in Seq(Frame), AllWait(s), NEW id, Nobody(s, id)
  PROVE  Nobody(AtHead(s), id)
<1>1. CASE s = <<>>
  BY <1>1 DEF AtHead
<1>2. CASE s # <<>>
  <2> DEFINE f == Head(s)
             g == [f EXCEPT !.phase = "head"]
             t == <<g>> \o Tail(s)
  <2>1. f \in Frame /\ Tail(s) \in Seq(Frame) /\ Waits(f)
    BY <1>2, StackParts, AllWaitTail
  <2>2. g \in Frame /\ (About(g) <=> About(f)) /\ g.sent = f.sent
    BY <2>1, SameFrame
  <2>3. 1 \in DOMAIN s /\ f = s[1] /\ \A i \in DOMAIN Tail(s) : i + 1 \in DOMAIN s /\ Tail(s)[i] = s[i + 1]
    BY <1>2, PlacesOfTail
  <2>4. AtHead(s) = t
    BY <1>2 DEF AtHead
  <2> HIDE DEF f, g
  <2>5. /\ DOMAIN t = 1..(Len(Tail(s)) + 1) /\ t[1] = g /\ DOMAIN Tail(s) = 1..Len(Tail(s))
        /\ Len(Tail(s)) \in Nat /\ \A i \in 2..(Len(Tail(s)) + 1) : t[i] = Tail(s)[i - 1]
    BY <2>1, <2>2, PlacesOfPushed, LenProperties
  <2> HIDE DEF t
  <2>6. ASSUME NEW i \in DOMAIN t, About(t[i]) PROVE t[i].sent.id # id
    <3>1. CASE i = 1
      BY <2>2, <2>3, <2>5, <2>6, <3>1 DEF Nobody
    <3>2. CASE i # 1
      <4>1. i - 1 \in DOMAIN Tail(s) /\ t[i] = Tail(s)[i - 1]
        BY <2>5, <3>2
      <4> QED
        BY <2>3, <2>6, <4>1 DEF Nobody
    <3> QED
      BY <3>1, <3>2
  <2>7. Nobody(t, id)
    BY <2>6 DEF Nobody
  <2> QED
    BY <2>4, <2>7
<1> QED
  BY <1>1, <1>2

LEMMA BoundedAtHead ==
  ASSUME NEW s \in Seq(Frame), AllWait(s), NEW b, NEW c, NEW u, NEW n, Bounded(s, b, c, u, n)
  PROVE  Bounded(AtHead(s), b, c, u, n)
<1>1. CASE s = <<>>
  BY <1>1 DEF AtHead
<1>2. CASE s # <<>>
  <2>1. Waits(Head(s))
    BY <1>2, AllWaitTail
  <2> QED
    BY <1>2, <2>1, BoundedPlace DEF AtHead
<1> QED
  BY <1>1, <1>2

\* Writing p, if there is room for one more of it.
RoomFor(p, s, b, c, u, n) ==
  /\ p.type = "PUBREC" => /\ p.id \in u /\ Fresh(p.id, c) <= 0 /\ Pairs(p.id, b, c) <= MaxRetries
                          /\ Nobody(s, p.id)
  /\ Own(p) => Number(b, {p}) <= MaxRetries /\ p.id <= n /\ s = <<>>

LEMMA BoundedSend ==
  ASSUME NEW s, NEW b, NEW c, NEW u, NEW n, Counted(s, b, c, u, n), Bounded(s, b, c, u, n),
         NEW p \in Packet, NEW b2 \in {b, b \o <<p>>}, RoomFor(p, s, b, c, u, n)
  PROVE  b2 \in Seq(Packet) /\ Bounded(s, b2, c, u, n)
<1> USE DEF Counted, RoomFor
<1>1. /\ b2 \in Seq(Packet)
      /\ \A K : Number(b2, K) <= Number(b, K) + 1 /\ (p \notin K => Number(b2, K) <= Number(b, K))
      /\ \A K : Number(b2, K) \in Nat /\ Number(b, K) \in Nat /\ Number(c, K) \in Nat
  BY NumberOfWrite, NumbersAre
<1>2. OwnBounded(b2, n)
  <2> SUFFICES ASSUME NEW q \in Packet, Own(q)
               PROVE  Number(b2, {q}) <= MaxRetries + 1 /\ (q.id > n => Number(b2, {q}) <= 0)
    BY DEF OwnBounded
  <2>1. Number(b, {q}) <= MaxRetries + 1 /\ (q.id > n => Number(b, {q}) <= 0)
    BY DEF Bounded, OwnBounded
  <2>2. CASE q = p
    <3>1. Number(b2, {q}) <= Number(b, {q}) + 1 /\ Number(b, {q}) <= MaxRetries /\ q.id <= n /\ q.id \in Nat
      BY <1>1, <2>2 DEF Packet
    <3> QED
      BY <1>1, <3>1, Constants
  <2>3. CASE q # p
    <3>1. Number(b2, {q}) <= Number(b, {q})
      BY <1>1, <2>3
    <3> QED
      BY <1>1, <2>1, <3>1, Constants
  <2> QED
    BY <2>2, <2>3
<1>3. \A id \in Nat : /\ Pairs(id, b2, c) <= Pairs(id, b, c) + 1
                      /\ p \notin RecsOf(id) => Pairs(id, b2, c) <= Pairs(id, b, c)
  <2> SUFFICES ASSUME NEW id \in Nat
               PROVE  /\ Pairs(id, b2, c) <= Pairs(id, b, c) + 1
                      /\ p \notin RecsOf(id) => Pairs(id, b2, c) <= Pairs(id, b, c)
    OBVIOUS
  <2> DEFINE x2 == Number(b2, RecsOf(id))
             x  == Number(b, RecsOf(id))
             y  == Number(c, RelsOf(id))
  <2>1. /\ x2 \in Nat /\ x \in Nat /\ y \in Nat /\ x2 <= x + 1
        /\ p \notin RecsOf(id) => x2 <= x
    BY <1>1
  <2>2. Pairs(id, b2, c) = x2 + y /\ Pairs(id, b, c) = x + y
    BY DEF Pairs
  <2> HIDE DEF x2, x, y
  <2> QED
    BY <2>1, <2>2
<1>4. \A id \in Nat : Pairs(id, b2, c) \in Nat /\ Pairs(id, b, c) \in Nat /\ Fresh(id, c) \in Nat
  BY <1>1, PairsTyped
<1>5. \A id \in Nat : p \in RecsOf(id) => p.type = "PUBREC" /\ id = p.id
  BY DEF RecsOf
<1>6. PairsBounded(b2, c, u)
  <2> SUFFICES ASSUME NEW id \in Nat
               PROVE  /\ Pairs(id, b2, c) <= MaxRetries + 1
                      /\ id \notin u => Pairs(id, b2, c) <= 0 /\ Fresh(id, c) <= 0
                      /\ Fresh(id, c) <= 1
                      /\ Fresh(id, c) > 0 => Pairs(id, b2, c) <= 0
    BY DEF PairsBounded
  <2>1. /\ Pairs(id, b, c) <= MaxRetries + 1
        /\ id \notin u => Pairs(id, b, c) <= 0 /\ Fresh(id, c) <= 0
        /\ Fresh(id, c) <= 1
        /\ Fresh(id, c) > 0 => Pairs(id, b, c) <= 0
    BY DEF Bounded, PairsBounded
  <2>2. CASE p \in RecsOf(id)
    <3>1. id \in u /\ Fresh(id, c) <= 0 /\ Pairs(id, b, c) <= MaxRetries
      BY <1>5, <2>2
    <3>2. /\ Pairs(id, b2, c) <= Pairs(id, b, c) + 1 /\ Pairs(id, b, c) \in Nat
          /\ Pairs(id, b2, c) \in Nat /\ Fresh(id, c) \in Nat
      BY <1>3, <1>4
    <3> QED
      BY <3>1, <3>2, Constants
  <2>3. CASE p \notin RecsOf(id)
    <3>1. /\ Pairs(id, b2, c) <= Pairs(id, b, c) /\ Pairs(id, b, c) \in Nat
          /\ Pairs(id, b2, c) \in Nat /\ Fresh(id, c) \in Nat
      BY <1>3, <1>4, <2>3
    <3> QED
      BY <2>1, <3>1, Constants
  <2> QED
    BY <2>2, <2>3
<1>7. FramesBounded(s, b2, c, u, n)
  <2> SUFFICES ASSUME NEW i \in DOMAIN s
               PROVE  AskBounded(s[i], b2, n) /\ AboutBounded(s[i], b2, c, u)
    BY DEF FramesBounded
  <2>1. s[i] \in Frame /\ AskBounded(s[i], b, n) /\ AboutBounded(s[i], b, c, u) /\ s # <<>>
    BY DEF Bounded, FramesBounded
  <2>2. Asks(s[i]) => Own(s[i].sent) /\ s[i].sent \in Packet
    BY <2>1, AskedIsOwn, FrameTyped DEF Asks
  <2>3. Asks(s[i]) => /\ Number(b2, {s[i].sent}) <= Number(b, {s[i].sent})
                      /\ Number(b2, {Rel(n)}) <= Number(b, {Rel(n)})
    <3>1. ~Own(p)
      BY <2>1
    <3>2. Asks(s[i]) => p \notin {s[i].sent} /\ p \notin {Rel(n)}
      BY <2>2, <3>1, RelIsOwn
    <3> QED
      BY <1>1, <3>2
  <2>4. About(s[i]) => s[i].sent.id \in Nat
    BY <2>1 DEF Frame, Packet
  <2>5. About(s[i]) => /\ Pairs(s[i].sent.id, b2, c) <= Pairs(s[i].sent.id, b, c)
                       /\ Fresh(s[i].sent.id, c) <= Fresh(s[i].sent.id, c)
    <3> SUFFICES ASSUME About(s[i])
                 PROVE  /\ Pairs(s[i].sent.id, b2, c) <= Pairs(s[i].sent.id, b, c)
                        /\ Fresh(s[i].sent.id, c) <= Fresh(s[i].sent.id, c)
      OBVIOUS
    <3>1. p \notin RecsOf(s[i].sent.id)
      BY <1>5, <2>4 DEF Nobody
    <3>2. s[i].sent.id \in Nat
      BY <2>4
    <3>3. Pairs(s[i].sent.id, b2, c) <= Pairs(s[i].sent.id, b, c)
      BY <1>3, <3>1, <3>2
    <3>4. Fresh(s[i].sent.id, c) \in Nat
      BY <1>4, <3>2
    <3> QED
      BY <3>3, <3>4
  <2> DEFINE f == s[i]
  <2> HIDE DEF f
  <2>6. AskBounded(f, b2, n) /\ AboutBounded(f, b2, c, u)
    BY <1>1, <2>1, <2>3, <2>5, FrameKept DEF f
  <2> QED
    BY <2>6 DEF f
<1> QED
  BY <1>1, <1>2, <1>6, <1>7 DEF Bounded

\* Steps after which there is no more of anything: what matters is what they write
\* of own packets and PUBREC, and what arrives of PUBREL and publications.
Matters(p) == Own(p) \/ p.type = "PUBREC"
Arrives(p) == p.type \in {"PUBREL", "PUBLISH"}

LEMMA NoMoreOf ==
  ASSUME NEW b \in Seq(Packet), NEW b2 \in Seq(Packet), NEW c \in Seq(Packet), NEW c2 \in Seq(Packet),
         \A K : (\A p \in K : Matters(p)) => Number(b2, K) <= Number(b, K),
         \A K : (\A p \in K : Arrives(p)) => Number(c2, K) <= Number(c, K)
  PROVE  NoMore(b2, c2, b, c)
<1>1. ASSUME NEW p \in Packet, Own(p) PROVE Number(b2, {p}) <= Number(b, {p})
  BY <1>1 DEF Matters
<1>2. ASSUME NEW id \in Nat PROVE Pairs(id, b2, c2) <= Pairs(id, b, c) /\ Fresh(id, c2) <= Fresh(id, c)
  <2>1. /\ \A p \in RecsOf(id) : Matters(p)
        /\ \A p \in RelsOf(id) : Arrives(p)
        /\ \A p \in Given(id) : Arrives(p)
    BY DEF RecsOf, RelsOf, Given, Matters, Arrives
  <2>2. /\ Number(b2, RecsOf(id)) <= Number(b, RecsOf(id))
        /\ Number(c2, RelsOf(id)) <= Number(c, RelsOf(id))
        /\ Number(c2, Given(id)) <= Number(c, Given(id))
    BY <2>1
  <2>3. /\ Number(b2, RecsOf(id)) \in Nat /\ Number(b, RecsOf(id)) \in Nat
        /\ Number(c2, RelsOf(id)) \in Nat /\ Number(c, RelsOf(id)) \in Nat
    BY NumbersAre
  <2> QED
    BY <2>2, <2>3 DEF Pairs, Fresh
<1> QED
  BY <1>1, <1>2 DEF NoMore

LEMMA NothingMore ==
  ASSUME NEW q \in Seq(Packet)
  PROVE  \A K : Number(q, K) <= Number(q, K)
BY NumbersAre

\* Reading a packet.
LEMMA ReadNoMore ==
  ASSUME NEW b \in Seq(Packet), NEW b2 \in Seq(Packet), NEW c \in Seq(Packet), c # <<>>,
         \A K : (\A p \in K : Matters(p)) => Number(b2, K) <= Number(b, K)
  PROVE  NoMore(b2, Tail(c), b, c)
BY NumberOfRead, NoMoreOf

\* Adding a packet that does not matter.
LEMMA WriteOther ==
  ASSUME NEW b \in Seq(Packet), NEW p \in Packet, ~Matters(p), NEW b2 \in {b, b \o <<p>>}
  PROVE  b2 \in Seq(Packet) /\ \A K : (\A q \in K : Matters(q)) => Number(b2, K) <= Number(b, K)
BY NumberOfWrite

LEMMA ArriveOther ==
  ASSUME NEW c \in Seq(Packet), NEW p \in Packet, ~Arrives(p), NEW c2 \in {c, c \o <<p>>}
  PROVE  c2 \in Seq(Packet) /\ \A K : (\A q \in K : Arrives(q)) => Number(c2, K) <= Number(c, K)
BY NumberOfWrite

LEMMA DoNotMatter ==
  /\ Ctl("PINGREQ") \in Packet /\ ~Matters(Ctl("PINGREQ"))
  /\ Ctl("PINGRESP") \in Packet /\ ~Matters(Ctl("PINGRESP"))
  /\ Publication(0, 0, TRUE) \in Packet /\ ~Matters(Publication(0, 0, TRUE))
  /\ \A id \in Nat : PubAckPacket(id) \in Packet /\ ~Matters(PubAckPacket(id))
<1>1. 0 \in Nat /\ 0 \in 0..2
  OBVIOUS
<1>2. Publication(0, 0, TRUE) \in Packet
  BY <1>1, WritesTyped
<1> QED
  BY <1>2, WritesTyped DEF Matters, Own, Ctl, Publication, PubAckPacket, Cut

LEMMA SentOne ==
  /\ toBroker \in Seq(Packet) => Sent(<<>>) = toBroker
  /\ \A p : Sent(<<p>>) \in {toBroker, toBroker \o <<p>>}
BY ConcatEmptySeq DEF Sent

LEMMA QuietWrites ==
  ASSUME toBroker \in Seq(Packet), NEW wrote \in {<<>>, <<Ctl("PINGREQ")>>},
         NEW b2 \in {Sent(wrote), Sent(wrote \o <<Ctl("PINGRESP")>>)}
  PROVE  b2 \in Seq(Packet) /\ \A K : (\A p \in K : Matters(p)) => Number(b2, K) <= Number(toBroker, K)
<1> DEFINE req == Ctl("PINGREQ")
           res == Ctl("PINGRESP")
           b1  == toBroker \o <<req>>
<1>1. req \in Packet /\ ~Matters(req) /\ res \in Packet /\ ~Matters(res)
  BY DoNotMatter
<1>2. wrote \in {<<>>, <<req>>} /\ b2 \in {Sent(wrote), Sent(wrote \o <<res>>)}
  OBVIOUS
<1> HIDE DEF req, res
<1>3. <<req>> \in Seq(Packet) /\ <<res>> \in Seq(Packet)
  BY <1>1
<1>4. /\ <<>> \o <<res>> = <<res>>
      /\ toBroker \o (<<req>> \o <<res>>) = b1 \o <<res>>
  BY <1>3, ConcatEmptySeq, ConcatAssociative
<1>5. b2 \in {toBroker, b1, toBroker \o <<res>>, b1 \o <<res>>}
  <2>1. b2 \in {toBroker, toBroker \o <<>>, toBroker \o <<req>>, toBroker \o (<<>> \o <<res>>),
               toBroker \o (<<req>> \o <<res>>)}
    BY <1>2 DEF Sent
  <2>2. toBroker \o <<>> = toBroker
    BY ConcatEmptySeq
  <2> QED
    BY <1>4, <2>1, <2>2
<1>6. b1 \in Seq(Packet) /\ \A K : (\A p \in K : Matters(p)) => Number(b1, K) <= Number(toBroker, K)
  BY <1>1, WriteOther
<1> HIDE DEF b1
<1>7. CASE b2 \in {toBroker, toBroker \o <<res>>}
  BY <1>1, <1>7, WriteOther
<1>8. CASE b2 \in {b1, b1 \o <<res>>}
  <2>1. b2 \in Seq(Packet) /\ \A K : (\A p \in K : Matters(p)) => Number(b2, K) <= Number(b1, K)
    BY <1>1, <1>6, <1>8, WriteOther
  <2>2. \A K : Number(b2, K) \in Nat /\ Number(b1, K) \in Nat /\ Number(toBroker, K) \in Nat
    BY <1>6, <2>1, NumbersAre
  <2> QED
    BY <1>6, <2>1, <2>2
<1> QED
  BY <1>5, <1>7, <1>8

LEMMA CopyContext ==
  ASSUME TypeOK, ServedInv, CopyInv
  PROVE  /\ stack \in Seq(Frame) /\ toBroker \in Seq(Packet) /\ toClient \in Seq(Packet)
         /\ unacked \subseteq MsgIds /\ nextMsgId \in Nat /\ Nested(stack)
         /\ Counted(stack, toBroker, toClient, unacked, nextMsgId)
         /\ tcp = "open" => Bounded(stack, toBroker, toClient, unacked, nextMsgId)
<1>1. /\ stack \in Seq(Frame) /\ toBroker \in Seq(Packet) /\ toClient \in Seq(Packet)
      /\ unacked \subseteq MsgIds /\ nextMsgId \in Nat /\ Nested(stack)
  BY DEF TypeOK, LinkTypeOK, ServedInv, StackInv
<1> QED
  BY <1>1, CountedParts DEF CopyInv

\* The packet that is read is complete, and is what the broker sent.
LEMMA ReadWhole ==
  ASSUME TypeOK, ServedInv, tcp = "open", toClient # <<>>
  PROVE  Head(toClient) \in Packet /\ ~Head(toClient).cut /\ Parsed(Head(toClient)) = {Head(toClient)}
<1>1. Head(toClient) \in Packet /\ Head(toClient) \in Members(toClient)
  BY MembersOfTail, ReadTyped DEF TypeOK, LinkTypeOK
<1> QED
  BY <1>1 DEF ServedInv, AnswersInv, Parsed

\* Processing a packet nobody waits for.  The id of a publication was new, so no
\* other call is about it.
LEMMA HandleKeepsCopies ==
  ASSUME TypeOK, ServedInv, CopyInv, tcp = "open", toClient # <<>>, AllWait(stack),
         NEW wrote \in {<<>>, <<Ctl("PINGREQ")>>}, NEW out, NEW ping,
         \/ BlocksIn(Head(toClient), wrote, out, ping)
         \/ \E p \in Parsed(Head(toClient)) : Handle(p, wrote, out, ping)
  PROVE  Bounded(stack', toBroker', Tail(toClient), unacked, nextMsgId)
<1> DEFINE p == Head(toClient)
           c == Tail(toClient)
           u == unacked
           n == nextMsgId
<1>1. /\ stack \in Seq(Frame) /\ toBroker \in Seq(Packet) /\ toClient \in Seq(Packet)
      /\ u \subseteq MsgIds /\ n \in Nat /\ Nested(stack)
      /\ Counted(stack, toBroker, toClient, u, n)
      /\ Bounded(stack, toBroker, toClient, u, n)
  BY CopyContext
<1>2. p \in Packet /\ ~p.cut /\ Parsed(p) = {p}
  BY ReadWhole
<1>3. Handle(p, wrote, out, ping)
  BY <1>2 DEF BlocksIn
<1>4. /\ toBroker' \in {Sent(wrote), Sent(wrote \o <<Ctl("PINGRESP")>>)}
      /\ \/ stack' = AtHead(stack)
         \/ /\ p.type = "PUBLISH"
            /\ stack' = <<[phase |-> "callback", sent |-> p, retries |-> 0]>> \o AtHead(stack)
  BY <1>3 DEF Handle
<1>5. /\ toBroker' \in Seq(Packet)
      /\ \A K : (\A q \in K : Matters(q)) => Number(toBroker', K) <= Number(toBroker, K)
  BY <1>1, <1>4, QuietWrites
<1>6. NoMore(toBroker', c, toBroker, toClient) /\ c \in Seq(Packet)
  BY <1>1, <1>5, ReadNoMore, NumberOfRead
<1>7. Bounded(stack, toBroker', c, u, n)
  BY <1>1, <1>5, <1>6, BoundedKept
<1>8. AtHead(stack) \in Seq(Frame) /\ Bounded(AtHead(stack), toBroker', c, u, n)
  BY <1>1, <1>7, AtHeadTyped, BoundedAtHead
<1>9. CASE /\ p.type = "PUBLISH"
           /\ stack' = <<[phase |-> "callback", sent |-> p, retries |-> 0]>> \o AtHead(stack)
  <2> DEFINE g == [phase |-> "callback", sent |-> p, retries |-> 0]
  <2>1. g \in Frame /\ ~Asks(g) /\ g.sent = p /\ Quota(g) = 0 /\ (About(g) <=> p.qos # 0)
    BY <1>2, FrameTyped DEF Asks, About, Quota, Waits
  <2>2. ASSUME p.qos # 0
        PROVE  /\ p.id \in u /\ Pairs(p.id, toBroker', c) <= 0 /\ Fresh(p.id, c) <= 0
               /\ Nobody(AtHead(stack), p.id)
    <3>1. p.id \in Nat /\ p \in Given(p.id)
      BY <1>2, <1>9, <2>2 DEF Given, Packet
    <3> DEFINE x == Fresh(p.id, toClient)
               y == Fresh(p.id, c)
               v == Pairs(p.id, toBroker, toClient)
               w == Pairs(p.id, toBroker', c)
    <3>2. x \in Nat /\ y \in Nat /\ v \in Nat /\ w \in Nat
      BY <1>1, <1>5, <1>6, PairsTyped
    <3>3. y + 1 = x
      BY <1>1, <3>1, NumberOfRead DEF Fresh
    <3>4. x <= 1 /\ (x > 0 => v <= 0) /\ (p.id \notin u => x <= 0) /\ w <= v
      BY <1>1, <1>6, <3>1 DEF Bounded, PairsBounded, NoMore
    <3>5. ASSUME NEW i \in DOMAIN stack, About(stack[i]) PROVE stack[i].sent.id # p.id
      <4>1. Fresh(stack[i].sent.id, toClient) <= 0
        BY <1>1, <3>5 DEF Bounded, FramesBounded, AboutBounded
      <4>2. x > 0
        BY <3>2, <3>3
      <4> QED
        BY <3>2, <4>1, <4>2
    <3>6. Nobody(AtHead(stack), p.id)
      BY <1>1, <3>5, NobodyAtHead DEF Nobody
    <3> HIDE DEF x, y, v, w
    <3>7. y <= 0 /\ w <= 0 /\ p.id \in u
      BY <3>2, <3>3, <3>4
    <3> QED
      BY <3>6, <3>7 DEF y, w
  <2> HIDE DEF g
  <2>3. AskBounded(g, toBroker', n) /\ AboutBounded(g, toBroker', c, u)
    BY <2>1, <2>2 DEF AskBounded, AboutBounded
  <2>4. Bounded(<<g>> \o AtHead(stack), toBroker', c, u, n)
    BY <1>8, <2>1, <2>2, <2>3, BoundedPush
  <2> QED
    BY <1>9, <2>4 DEF g
<1> QED
  BY <1>4, <1>8, <1>9

\* PUBREL, after its PUBREC.
LEMMA RelKeepsCopies ==
  ASSUME TypeOK, ServedInv, CopyInv, tcp = "open", toClient # <<>>, ~InApp, Waits(Top),
         Top.sent.type = "PUBLISH", NEW b \in {toBroker, toBroker \o <<Rel(Top.sent.id)>>}
  PROVE  Bounded(<<Waiting(Rel(Top.sent.id))>> \o Tail(stack), b, Tail(toClient), unacked, nextMsgId)
<1> DEFINE c == Tail(toClient)
           u == unacked
           n == nextMsgId
<1>1. /\ stack \in Seq(Frame) /\ toBroker \in Seq(Packet) /\ toClient \in Seq(Packet)
      /\ u \subseteq MsgIds /\ n \in Nat /\ Nested(stack) /\ stack # <<>>
      /\ Counted(stack, toBroker, toClient, u, n)
      /\ Bounded(stack, toBroker, toClient, u, n)
  BY CopyContext DEF InApp
<1>2. c \in Seq(Packet) /\ NoMore(toBroker, c, toBroker, toClient)
  BY <1>1, NumberOfRead, ReadNoMore, NothingMore
<1>3. Bounded(stack, toBroker, c, u, n)
  BY <1>1, <1>2, BoundedKept
<1>4. /\ Asks(Top) /\ Tail(stack) = <<>> /\ Top.sent.id = n /\ Number(toBroker, {Rel(n)}) <= 0
      /\ Bounded(<<>>, toBroker, c, u, n)
  BY <1>1, <1>3, BoundedTail DEF Asks, Top, AskBounded
<1> DEFINE r == Rel(n)
           g == Waiting(r)
<1>5. r \in Packet /\ r.type = "PUBREL" /\ r.id = n /\ Number(toBroker, {r}) \in Nat
  BY <1>1, RelIsOwn, NumbersAre
<1>6. Counted(<<>>, toBroker, c, u, n)
  BY <1>1, <1>2 DEF Counted
<1>7. Number(toBroker, {r}) <= 0 /\ b \in {toBroker, toBroker \o <<r>>}
  BY <1>4
<1>8. /\ g \in Frame /\ Waits(g) /\ g.sent = r /\ g.retries = 0
  BY <1>5, WaitingWaits
<1> HIDE DEF r, g
<1>9. b \in Seq(Packet) /\ Bounded(<<>>, b, c, u, n)
  <2>1. Number(toBroker, {r}) <= MaxRetries /\ r.id <= n
    BY <1>1, <1>5, <1>7, Constants
  <2>2. RoomFor(r, <<>>, toBroker, c, u, n)
    BY <1>5, <2>1 DEF RoomFor
  <2> QED
    BY <1>4, <1>5, <1>6, <1>7, <2>2, BoundedSend
<1>10. Number(b, {r}) <= 1
  <2>1. Number(b, {r}) <= Number(toBroker, {r}) + 1 /\ Number(b, {r}) \in Nat
    BY <1>1, <1>5, <1>7, <1>9, NumberOfWrite, NumbersAre
  <2> QED
    BY <1>5, <1>7, <2>1
<1>11. AskBounded(g, b, n) /\ AboutBounded(g, b, c, u) /\ ~About(g)
  BY <1>5, <1>8, <1>10 DEF AskBounded, AboutBounded, About, Waits
<1>12. Bounded(<<g>>, b, c, u, n)
  BY <1>8, <1>9, <1>11, BoundedFirst
<1>13. <<g>> \o <<>> = <<g>>
  BY <1>8, ConcatEmptySeq
<1> QED
  BY <1>4, <1>12, <1>13 DEF r, g

\* PUBCOMP, which is a PUBREC, in place of the PUBREL that was read.
LEMMA CompKeepsCopies ==
  ASSUME TypeOK, ServedInv, CopyInv, tcp = "open", toClient # <<>>, ~InApp, Waits(Top),
         Top.sent.type = "PUBREC", Answers(Head(toClient)),
         NEW b \in {toBroker, toBroker \o <<PubCompPacket(Top.sent.id)>>}
  PROVE  Bounded(AtHead(Tail(stack)), b, Tail(toClient), unacked, nextMsgId)
<1> DEFINE c    == Tail(toClient)
           u    == unacked
           n    == nextMsgId
           k    == Top.sent.id
           comp == PubCompPacket(Top.sent.id)
<1>1. /\ stack \in Seq(Frame) /\ toBroker \in Seq(Packet) /\ toClient \in Seq(Packet)
      /\ u \subseteq MsgIds /\ n \in Nat /\ Nested(stack) /\ stack # <<>>
      /\ Counted(stack, toBroker, toClient, u, n)
      /\ Bounded(stack, toBroker, toClient, u, n)
  BY CopyContext DEF InApp
<1>2. /\ Bounded(Tail(stack), toBroker, toClient, u, n)
      /\ Tail(stack) \in Seq(Frame) /\ AllWait(Tail(stack)) /\ Nested(Tail(stack))
      /\ k \in u
  BY <1>1, BoundedTail, NestedTail, StackParts DEF Top, About, AboutBounded
<1>3. k \in Nat \ {0} /\ Head(toClient) \in Packet
  BY <1>1, <1>2, ReadWhole, LinkAssumption DEF LinkAssumption
<1>4. Head(toClient) \in RelsOf(k)
  BY <1>3 DEF Answers, ResponseType, RelsOf
<1>5. comp \in Packet /\ comp.type = "PUBREC" /\ comp.id = k
  BY <1>3, WritesTyped DEF PubCompPacket, WithId
<1>6. b \in {toBroker, toBroker \o <<comp>>}
  OBVIOUS
<1> HIDE DEF comp, k
<1>7. /\ b \in Seq(Packet)
      /\ \A K : Number(b, K) <= Number(toBroker, K) + 1 /\ (comp \notin K => Number(b, K) <= Number(toBroker, K))
  BY <1>1, <1>5, <1>6, NumberOfWrite
<1>8. /\ c \in Seq(Packet)
      /\ \A K : Number(c, K) <= Number(toClient, K) /\ (Head(toClient) \in K => Number(c, K) + 1 = Number(toClient, K))
  BY <1>1, NumberOfRead
<1>9. \A K : Number(b, K) \in Nat /\ Number(toBroker, K) \in Nat /\ Number(c, K) \in Nat /\ Number(toClient, K) \in Nat
  BY <1>1, <1>7, <1>8, NumbersAre
<1>10. NoMore(b, c, toBroker, toClient)
  <2>1. ASSUME NEW q \in Packet, Own(q) PROVE Number(b, {q}) <= Number(toBroker, {q})
    <3>1. comp \notin {q}
      BY <1>5, <2>1 DEF Own
    <3> QED
      BY <1>7, <3>1
  <2>2. ASSUME NEW id \in Nat
        PROVE  Pairs(id, b, c) <= Pairs(id, toBroker, toClient) /\ Fresh(id, c) <= Fresh(id, toClient)
    <3> DEFINE x  == Number(toBroker, RecsOf(id))
               x2 == Number(b, RecsOf(id))
               y  == Number(toClient, RelsOf(id))
               y2 == Number(c, RelsOf(id))
    <3>1. /\ x \in Nat /\ x2 \in Nat /\ y \in Nat /\ y2 \in Nat
          /\ x2 <= x + 1 /\ (comp \notin RecsOf(id) => x2 <= x)
          /\ y2 <= y /\ (Head(toClient) \in RelsOf(id) => y2 + 1 = y)
      BY <1>7, <1>8, <1>9
    <3>2. comp \in RecsOf(id) => Head(toClient) \in RelsOf(id)
      BY <1>4, <1>5 DEF RecsOf
    <3>3. Pairs(id, b, c) = x2 + y2 /\ Pairs(id, toBroker, toClient) = x + y
      BY DEF Pairs
    <3> HIDE DEF x, x2, y, y2
    <3>4. Pairs(id, b, c) <= Pairs(id, toBroker, toClient)
      BY <3>1, <3>2, <3>3
    <3> QED
      BY <1>8, <3>4 DEF Fresh
  <2> QED
    BY <2>1, <2>2 DEF NoMore
<1>11. Bounded(Tail(stack), b, c, u, n)
  <2>1. Counted(Tail(stack), toBroker, toClient, u, n)
    BY <1>1, <1>2, CountedParts
  <2> QED
    BY <1>2, <1>7, <1>8, <1>10, <2>1, BoundedKept
<1> QED
  BY <1>2, <1>11, BoundedAtHead

LEMMA SucceedKeepsCopies ==
  ASSUME TypeOK, ServedInv, CopyInv, tcp = "open", toClient # <<>>, ~InApp, Waits(Top),
         Answers(Head(toClient)), Succeed
  PROVE  Bounded(stack', toBroker', Tail(toClient), unacked, nextMsgId)
<1>1. /\ stack \in Seq(Frame) /\ toBroker \in Seq(Packet) /\ toClient \in Seq(Packet)
      /\ Nested(stack) /\ stack # <<>>
      /\ Counted(stack, toBroker, toClient, unacked, nextMsgId)
      /\ Bounded(stack, toBroker, toClient, unacked, nextMsgId)
  BY CopyContext DEF InApp
<1>2. CASE /\ Top.sent.type = "PUBLISH"
           /\ stack' = <<Waiting(Rel(Top.sent.id))>> \o Tail(stack)
           /\ toBroker' = Sent(<<Rel(Top.sent.id)>>)
  BY <1>2, SentOne, RelKeepsCopies
<1>3. CASE /\ Top.sent.type = "PUBREC"
           /\ stack' = AtHead(Tail(stack))
           /\ toBroker' = Sent(<<PubCompPacket(Top.sent.id)>>)
  BY <1>3, SentOne, CompKeepsCopies
<1>4. CASE stack' = Tail(stack) /\ toBroker' = toBroker
  <2>1. Tail(toClient) \in Seq(Packet) /\ NoMore(toBroker, Tail(toClient), toBroker, toClient)
    BY <1>1, NumberOfRead, ReadNoMore, NothingMore
  <2>2. Bounded(stack, toBroker, Tail(toClient), unacked, nextMsgId)
    BY <1>1, <2>1, BoundedKept
  <2> QED
    BY <1>1, <1>4, <2>2, BoundedTail
<1> QED
  BY <1>2, <1>3, <1>4 DEF Succeed, Rel

\* A retry is one more copy, and counted.
LEMMA ResendKeepsCopies ==
  ASSUME TypeOK, ServedInv, CopyInv, tcp = "open", ~InApp, Waits(Top), Retry, Resend
  PROVE  Bounded(stack', toBroker', toClient, unacked, nextMsgId)
<1> DEFINE f == Top
           p == f.sent
           t == Tail(stack)
           g == [f EXCEPT !.phase = "poll", !.retries = @ + 1]
           c == toClient
           u == unacked
           n == nextMsgId
<1>1. /\ stack \in Seq(Frame) /\ toBroker \in Seq(Packet) /\ c \in Seq(Packet)
      /\ u \subseteq MsgIds /\ n \in Nat /\ Nested(stack) /\ stack # <<>>
      /\ Bounded(stack, toBroker, c, u, n)
  BY CopyContext DEF InApp
<1>2. /\ t \in Seq(Frame) /\ Nested(t) /\ AsksFor(p) /\ f \in Frame
      /\ Bounded(t, toBroker, c, u, n) /\ AskBounded(f, toBroker, n) /\ AboutBounded(f, toBroker, c, u)
      /\ (Asks(f) => t = <<>>) /\ (About(f) => Nobody(t, p.id))
  BY <1>1, StackParts, NestedTail, BoundedTail DEF Top
<1>3. /\ p \in Packet /\ f.retries \in Nat /\ f.retries < MaxRetries
      /\ f.phase \notin {"callback", "stuck"}
  <2>1. p \in Packet /\ f.retries \in 0..MaxRetries
    BY <1>2, FrameTyped
  <2>2. f.retries < MaxRetries /\ f.phase \notin {"callback", "stuck"}
    BY DEF Retry, Waits
  <2> QED
    BY <2>1, <2>2, Constants
<1>4. /\ g \in Frame /\ g.phase = "poll" /\ g.sent = p /\ g.retries = f.retries + 1
  BY <1>2, <1>3, FrameTyped DEF Frame
<1>5. stack' = <<g>> \o t /\ toBroker' \in {toBroker, toBroker \o <<p>>}
  BY SentOne DEF Resend
<1>6. Counted(t, toBroker, c, u, n)
  BY <1>1, <1>2, CountedParts
<1>7. /\ (Asks(f) <=> p.type # "PUBREC") /\ (About(f) <=> p.type = "PUBREC") /\ Quota(f) = f.retries + 1
      /\ (Asks(g) <=> p.type # "PUBREC") /\ (About(g) <=> p.type = "PUBREC") /\ Quota(g) = f.retries + 2
  BY <1>3, <1>4 DEF Asks, About, Quota, Waits
<1> HIDE DEF f, g, p, t
<1>8. /\ p.type # "PUBREC" => /\ Number(toBroker, {p}) <= f.retries + 1
                              /\ p.type # "CONNECT" => p.id = n
                              /\ p.type = "PUBLISH" => Number(toBroker, {Rel(n)}) <= 0
      /\ p.type = "PUBREC" => p.id \in u /\ Pairs(p.id, toBroker, c) <= f.retries + 1 /\ Fresh(p.id, c) <= 0
  BY <1>2, <1>7 DEF AskBounded, AboutBounded, p
<1>9. Number(toBroker, {p}) \in Nat /\ Pairs(p.id, toBroker, c) \in Nat /\ MaxRetries \in Nat
  BY <1>1, NumbersAre, PairsTyped, Constants
<1>10. toBroker' \in Seq(Packet) /\ Bounded(t, toBroker', c, u, n)
  <2>1. p.type = "PUBREC" => /\ p.id \in u /\ Fresh(p.id, c) <= 0 /\ Pairs(p.id, toBroker, c) <= MaxRetries
                             /\ Nobody(t, p.id)
    <3>1. p.type = "PUBREC" => Pairs(p.id, toBroker, c) <= MaxRetries
      BY <1>3, <1>8, <1>9
    <3> QED
      BY <1>2, <1>7, <1>8, <3>1
  <2>2. Own(p) => Number(toBroker, {p}) <= MaxRetries /\ p.id <= n /\ t = <<>>
    <3>1. Own(p) => p.type # "PUBREC"
      BY DEF Own
    <3>2. p.type # "PUBREC" => Number(toBroker, {p}) <= MaxRetries
      BY <1>3, <1>8, <1>9
    <3>3. p.type # "PUBREC" => p.id <= n
      <4>1. p.type = "CONNECT" => p.id = 0
        BY <1>2 DEF AsksFor, Plain
      <4> QED
        BY <1>1, <1>8, <4>1
    <3> QED
      BY <1>2, <1>7, <3>1, <3>2, <3>3
  <2>3. p \in Packet /\ Bounded(t, toBroker, c, u, n) /\ RoomFor(p, t, toBroker, c, u, n)
    BY <1>2, <1>3, <2>1, <2>2 DEF RoomFor
  <2>4. ASSUME NEW b2 \in {toBroker, toBroker \o <<p>>}
        PROVE  b2 \in Seq(Packet) /\ Bounded(t, b2, c, u, n)
    BY <1>6, <2>3, BoundedSend
  <2> QED
    BY <1>5, <2>4
<1>11. /\ \A K : Number(toBroker', K) <= Number(toBroker, K) + 1 /\ (p \notin K => Number(toBroker', K) <= Number(toBroker, K))
       /\ \A K : Number(toBroker', K) \in Nat /\ Number(toBroker, K) \in Nat /\ Number(c, K) \in Nat
  BY <1>1, <1>3, <1>5, <1>10, NumberOfWrite, NumbersAre
<1>12. AskBounded(g, toBroker', n)
  <2> SUFFICES ASSUME p.type # "PUBREC"
               PROVE  /\ Number(toBroker', {p}) <= g.retries + 1
                      /\ p.type # "CONNECT" => p.id = n
                      /\ p.type = "PUBLISH" => Number(toBroker', {Rel(n)}) <= 0
    BY <1>4, <1>7 DEF AskBounded
  <2>1. Number(toBroker', {p}) <= g.retries + 1
    <3>1. Number(toBroker', {p}) <= Number(toBroker, {p}) + 1 /\ Number(toBroker', {p}) \in Nat
      BY <1>11
    <3> QED
      BY <1>3, <1>4, <1>8, <1>9, <3>1
  <2>2. p.type = "PUBLISH" => Number(toBroker', {Rel(n)}) <= 0
    <3>1. p.type = "PUBLISH" => p \notin {Rel(n)}
      BY <1>1, RelIsOwn
    <3>2. p.type = "PUBLISH" => Number(toBroker', {Rel(n)}) <= Number(toBroker, {Rel(n)})
      BY <1>11, <3>1
    <3>3. Number(toBroker', {Rel(n)}) \in Nat /\ Number(toBroker, {Rel(n)}) \in Nat
      BY <1>11
    <3> QED
      BY <1>8, <3>2, <3>3
  <2> QED
    BY <1>8, <2>1, <2>2
<1>13. AboutBounded(g, toBroker', c, u)
  <2> SUFFICES ASSUME p.type = "PUBREC"
               PROVE  p.id \in u /\ Pairs(p.id, toBroker', c) <= Quota(g) /\ Fresh(p.id, c) <= 0
    BY <1>4, <1>7 DEF AboutBounded
  <2> DEFINE x  == Number(toBroker, RecsOf(p.id))
             x2 == Number(toBroker', RecsOf(p.id))
             y  == Number(c, RelsOf(p.id))
  <2>1. x \in Nat /\ x2 \in Nat /\ y \in Nat /\ x2 <= x + 1
    BY <1>11
  <2>2. Pairs(p.id, toBroker', c) = x2 + y /\ Pairs(p.id, toBroker, c) = x + y
    BY DEF Pairs
  <2> HIDE DEF x, x2, y
  <2>3. Pairs(p.id, toBroker', c) <= Quota(g)
    BY <1>3, <1>7, <1>8, <2>1, <2>2
  <2> QED
    BY <1>8, <2>3
<1>14. Bounded(<<g>> \o t, toBroker', c, u, n)
  BY <1>2, <1>4, <1>7, <1>10, <1>12, <1>13, BoundedPush
<1> QED
  BY <1>5, <1>14

\* An id is not taken twice on a connection.
LEMMA NewId ==
  ASSUME NoWrap, nextMsgId \in Nat, nextMsgId < RequestCap
  PROVE  NextPacketId = nextMsgId + 1
<1> DEFINE m == nextMsgId + 1
<1>1. m \in Nat /\ 0 < m /\ m < 65536
  BY Constants DEF NoWrap
<1>2. \A i \in Nat : 0 < i /\ i < 65536 => i % 65536 # 0
  OBVIOUS
<1> QED
  BY <1>1, <1>2 DEF NextPacketId

\* A request with a new id.
LEMMA RequestKeepsCopies ==
  ASSUME NoWrap, TypeOK, ServedInv, CopyInv, tcp = "open", NEW p \in Packet, AsksFor(p),
         p.type # "CONNECT", p.type # "PUBREC", p.type # "PUBREL", p.id = NextPacketId, SendReliably(p)
  PROVE  Bounded(stack', toBroker', toClient, unacked, nextMsgId')
<1> DEFINE c == toClient
           u == unacked
           n == nextMsgId
           m == nextMsgId + 1
           g == Waiting(p)
<1>1. /\ stack = <<>> /\ toBroker \in Seq(Packet) /\ c \in Seq(Packet)
      /\ u \subseteq MsgIds /\ n \in Nat /\ Nested(stack)
      /\ OwnBounded(toBroker, n) /\ PairsBounded(toBroker, c, u)
  BY CopyContext DEF Bounded, SendReliably, InApp
<1>2. NextPacketId = m /\ m \in Nat /\ n < m
  <2>1. n < RequestCap
    BY DEF SendReliably
  <2> QED
    BY <1>1, <2>1, NewId
<1>3. nextMsgId' = m /\ stack' = <<g>> /\ toBroker' \in {toBroker, toBroker \o <<p>>} /\ p.id = m
  BY <1>2, SentOne DEF SendReliably
<1>4. g \in Frame /\ Waits(g) /\ g.sent = p /\ g.retries = 0 /\ Asks(g) /\ ~About(g)
  <2>1. g \in Frame /\ Waits(g) /\ g.sent = p /\ g.retries = 0
    BY WaitingWaits
  <2> HIDE DEF g
  <2> QED
    BY <2>1 DEF Asks, About, Waits
<1> HIDE DEF g, m
<1>5. ASSUME NEW q \in Packet, Own(q), q.id > n PROVE Number(toBroker, {q}) = 0
  <2>1. Number(toBroker, {q}) <= 0 /\ Number(toBroker, {q}) \in Nat
    BY <1>1, <1>5, NumbersAre DEF OwnBounded
  <2> QED
    BY <2>1
<1>6. Own(p) /\ Number(toBroker, {p}) = 0
  <2>1. Own(p)
    BY <1>4, AskedIsOwn
  <2> QED
    BY <1>1, <1>2, <1>3, <1>5, <2>1
<1>7. Number(toBroker, {Rel(m)}) = 0
  <2>1. Rel(m) \in Packet /\ Own(Rel(m)) /\ Rel(m).id > n
    BY <1>1, <1>2, RelIsOwn
  <2> QED
    BY <1>5, <2>1
<1>8. Bounded(<<>>, toBroker, c, u, m)
  <2>1. OwnBounded(toBroker, m)
    <3> SUFFICES ASSUME NEW q \in Packet, Own(q)
                 PROVE  Number(toBroker, {q}) <= MaxRetries + 1 /\ (q.id > m => Number(toBroker, {q}) <= 0)
      BY DEF OwnBounded
    <3>1. q.id \in Nat
      BY DEF Packet
    <3>2. q.id > m => q.id > n
      BY <1>1, <1>2, <3>1
    <3> QED
      BY <1>1, <3>2 DEF OwnBounded
  <2> QED
    BY <1>1, <2>1, BoundedEmpty
<1>9. Counted(<<>>, toBroker, c, u, m)
  <2>1. <<>> \in Seq(Frame) /\ Nested(<<>>)
    BY DEF Nested
  <2> QED
    BY <1>1, <1>2, <2>1, CountedParts
<1>10. toBroker' \in Seq(Packet) /\ Bounded(<<>>, toBroker', c, u, m)
  <2>1. Number(toBroker, {p}) <= MaxRetries /\ p.id <= m
    BY <1>2, <1>3, <1>6, Constants
  <2>2. RoomFor(p, <<>>, toBroker, c, u, m)
    BY <2>1 DEF RoomFor
  <2> QED
    BY <1>3, <1>8, <1>9, <2>2, BoundedSend
<1>11. Number(toBroker', {p}) <= 1 /\ Number(toBroker', {Rel(m)}) <= 0
  <2>1. \A K : /\ Number(toBroker', K) <= Number(toBroker, K) + 1
               /\ p \notin K => Number(toBroker', K) <= Number(toBroker, K)
    <3>1. ASSUME NEW b2 \in {toBroker, toBroker \o <<p>>}
          PROVE  \A K : /\ Number(b2, K) <= Number(toBroker, K) + 1
                        /\ p \notin K => Number(b2, K) <= Number(toBroker, K)
      BY <1>1, NumberOfWrite
    <3> QED
      BY <1>3, <3>1
  <2>2. p \notin {Rel(m)}
    BY <1>2, RelIsOwn
  <2>3. Number(toBroker', {p}) <= Number(toBroker, {p}) + 1
    BY <2>1
  <2>4. Number(toBroker', {Rel(m)}) <= Number(toBroker, {Rel(m)})
    BY <2>1, <2>2
  <2> QED
    BY <1>6, <1>7, <2>3, <2>4
<1>12. AskBounded(g, toBroker', m) /\ AboutBounded(g, toBroker', c, u)
  BY <1>3, <1>4, <1>11 DEF AskBounded, AboutBounded
<1>13. Bounded(<<g>>, toBroker', c, u, m)
  BY <1>4, <1>10, <1>12, BoundedFirst
<1> QED
  BY <1>3, <1>13

\* The end of a callback, which a PUBREC and the wait for its answer may follow.
LEMMA CallbackKeepsCopies ==
  ASSUME TypeOK, ServedInv, CopyInv, tcp = "open", CallbackReturns
  PROVE  Bounded(stack', toBroker', toClient, unacked, nextMsgId)
<1> DEFINE f   == Top
           k   == Top.sent.id
           t   == Tail(stack)
           rec == WithId("PUBREC", k)
           ack == PubAckPacket(k)
           c   == toClient
           u   == unacked
           n   == nextMsgId
<1>1. /\ stack \in Seq(Frame) /\ toBroker \in Seq(Packet) /\ c \in Seq(Packet)
      /\ u \subseteq MsgIds /\ n \in Nat /\ Nested(stack) /\ stack # <<>>
      /\ Bounded(stack, toBroker, c, u, n) /\ f.phase = "callback"
  BY CopyContext DEF CallbackReturns, InCallback
<1>2. /\ t \in Seq(Frame) /\ Nested(t) /\ f \in Frame /\ k \in Nat
      /\ Bounded(t, toBroker, c, u, n) /\ AboutBounded(f, toBroker, c, u)
      /\ (About(f) => Nobody(t, k))
  BY <1>1, StackParts, NestedTail, BoundedTail DEF Top, Frame, Packet
<1>3. Counted(t, toBroker, c, u, n)
  BY <1>1, <1>2, CountedParts
<1>4. CASE stack' = t /\ toBroker' = toBroker
  BY <1>2, <1>4
<1>5. CASE stack' = t /\ toBroker' = Sent(<<ack>>)
  <2>1. toBroker' \in {toBroker, toBroker \o <<ack>>} /\ ack \in Packet /\ ~Matters(ack)
    BY <1>2, <1>5, SentOne, DoNotMatter
  <2> HIDE DEF ack
  <2>2. RoomFor(ack, t, toBroker, c, u, n)
    BY <2>1 DEF RoomFor, Matters
  <2> QED
    BY <1>2, <1>3, <1>5, <2>1, <2>2, BoundedSend
<1>6. CASE f.sent.qos = 2 /\ stack' = <<Waiting(rec)>> \o t /\ toBroker' = Sent(<<rec>>)
  <2> DEFINE g == Waiting(rec)
  <2>1. /\ toBroker' \in {toBroker, toBroker \o <<rec>>}
        /\ rec \in Packet /\ rec.type = "PUBREC" /\ rec.id = k
    BY <1>2, <1>6, SentOne, WritesTyped DEF WithId
  <2>2. /\ k \in u /\ Pairs(k, toBroker, c) <= 0 /\ Fresh(k, c) <= 0 /\ Nobody(t, k)
    BY <1>1, <1>2, <1>6 DEF About, Quota, AboutBounded
  <2>3. g \in Frame /\ Waits(g) /\ g.sent = rec /\ g.retries = 0
    BY <2>1, WaitingWaits
  <2> HIDE DEF g, rec, k, t, f
  <2>4. ~Asks(g) /\ About(g) /\ Quota(g) = 1
    BY <2>1, <2>3 DEF Asks, About, Quota, Waits
  <2>5. RoomFor(rec, t, toBroker, c, u, n)
    <3>1. Pairs(k, toBroker, c) <= MaxRetries
      BY <1>1, <2>2, PairsTyped, Constants
    <3>2. ~Own(rec)
      BY <2>1 DEF Own
    <3> QED
      BY <2>1, <2>2, <3>1, <3>2 DEF RoomFor
  <2>6. toBroker' \in Seq(Packet) /\ Bounded(t, toBroker', c, u, n)
    BY <1>2, <1>3, <2>1, <2>5, BoundedSend
  <2>7. Pairs(k, toBroker', c) <= 1
    <3> DEFINE x  == Number(toBroker, RecsOf(k))
               x2 == Number(toBroker', RecsOf(k))
               y  == Number(c, RelsOf(k))
    <3>1. x \in Nat /\ x2 \in Nat /\ y \in Nat /\ x2 <= x + 1
      BY <1>1, <2>1, <2>6, NumberOfWrite, NumbersAre
    <3>2. Pairs(k, toBroker', c) = x2 + y /\ Pairs(k, toBroker, c) = x + y
      BY DEF Pairs
    <3> HIDE DEF x, x2, y
    <3> QED
      BY <2>2, <3>1, <3>2
  <2>8. AskBounded(g, toBroker', n) /\ AboutBounded(g, toBroker', c, u)
    BY <2>1, <2>2, <2>3, <2>4, <2>7 DEF AskBounded, AboutBounded
  <2>9. Bounded(<<g>> \o t, toBroker', c, u, n)
    BY <1>2, <2>1, <2>2, <2>3, <2>4, <2>6, <2>8, BoundedPush
  <2> QED
    BY <1>6, <2>9 DEF g
<1> QED
  BY <1>4, <1>5, <1>6 DEF CallbackReturns

LEMMA WaitsKeepCopies ==
  ASSUME TypeOK, ServedInv, CopyInv, tcp = "open", tcp' = "open", WaitFails \/ WaitReads \/ WaitProcesses
  PROVE  CopyInv'
<1>1. /\ stack \in Seq(Frame) /\ Nested(stack) /\ ~InApp /\ stack # <<>> /\ Waits(Top)
      /\ Bounded(stack, toBroker, toClient, unacked, nextMsgId) /\ AllWait(stack)
  <2>1. stack \in Seq(Frame) /\ Nested(stack) /\ Bounded(stack, toBroker, toClient, unacked, nextMsgId)
    BY CopyContext
  <2>2. ~InApp /\ stack # <<>> /\ Waits(Top)
    BY DEF WaitFails, WaitReads, WaitProcesses, InApp, Waits
  <2> QED
    BY <2>1, <2>2, NestedTail DEF Top
<1>2. CASE WaitReads
  <2>1. Bounded(AtHead(stack), toBroker, toClient, unacked, nextMsgId)
    BY <1>1, BoundedAtHead
  <2>2. Bounded(<<[Top EXCEPT !.phase = "blocked"]>> \o Tail(stack), toBroker, toClient, unacked, nextMsgId)
    BY <1>1, BoundedPlace DEF Top
  <2> QED
    BY <1>2, <2>1, <2>2 DEF WaitReads, linkVars, CopyInv
<1>3. CASE WaitFails /\ Retry
  <2>1. Resend /\ nextMsgId' = nextMsgId /\ toClient' = toClient /\ unacked' = unacked
    BY <1>3 DEF WaitFails, Resend, othersOfLink
  <2> QED
    BY <1>1, <1>3, <2>1, ResendKeepsCopies DEF CopyInv
<1>4. CASE WaitFails /\ ~Retry
  <2>1. Bounded(Tail(stack), toBroker, toClient, unacked, nextMsgId)
    BY <1>1, BoundedTail
  <2>2. stack' = Tail(stack) /\ UNCHANGED <<linkVars, nextMsgId>>
    BY <1>4 DEF WaitFails, GiveUp, Stop
  <2> QED
    BY <2>1, <2>2 DEF linkVars, CopyInv
<1>5. CASE WaitProcesses
  <2>1. /\ toClient # <<>> /\ toClient' = Tail(toClient) /\ nextMsgId' = nextMsgId /\ unacked' = unacked
    BY <1>5 DEF WaitProcesses, othersOfLink
  <2>2. \/ BlocksIn(Head(toClient), <<>>, outAge, pingOutstanding)
        \/ \E p \in Parsed(Head(toClient)) : Handle(p, <<>>, outAge, pingOutstanding)
        \/ Answers(Head(toClient)) /\ Succeed
    <3>1. Parsed(Head(toClient)) = {Head(toClient)}
      BY <2>1, ReadWhole
    <3> QED
      BY <1>5, <3>1, Zenon DEF WaitProcesses
  <2>3. Bounded(stack', toBroker', Tail(toClient), unacked, nextMsgId)
    BY <1>1, <2>1, <2>2, HandleKeepsCopies, SucceedKeepsCopies
  <2> QED
    BY <2>1, <2>3 DEF CopyInv
<1> QED
  BY <1>2, <1>3, <1>4, <1>5

\* The sketch's own calls.
LEMMA CallsKeepCopies ==
  ASSUME NoWrap, TypeOK, ServedInv, CopyInv, tcp = "open", tcp' = "open",
         Loop \/ PublishOnce \/ PublishReliably \/ Subscribe \/ Unsubscribe
  PROVE  CopyInv'
<1>1. /\ stack \in Seq(Frame) /\ toBroker \in Seq(Packet) /\ toClient \in Seq(Packet)
      /\ nextMsgId \in Nat /\ Counted(stack, toBroker, toClient, unacked, nextMsgId)
      /\ Bounded(stack, toBroker, toClient, unacked, nextMsgId)
  BY CopyContext
<1>2. CASE PublishOnce
  <2> DEFINE p == Publication(0, 0, TRUE)
  <2>1. /\ toBroker' \in {toBroker, toBroker \o <<p>>} /\ p \in Packet /\ ~Matters(p)
        /\ UNCHANGED <<stack, toClient, unacked, nextMsgId>>
    BY <1>2, SentOne, DoNotMatter DEF PublishOnce, othersOfLink
  <2> HIDE DEF p
  <2>2. RoomFor(p, stack, toBroker, toClient, unacked, nextMsgId)
    BY <2>1 DEF RoomFor, Matters
  <2>3. Bounded(stack, toBroker', toClient, unacked, nextMsgId)
    BY <1>1, <2>1, <2>2, BoundedSend
  <2> QED
    BY <2>1, <2>3 DEF CopyInv
<1>3. CASE PublishReliably \/ Subscribe \/ Unsubscribe
  <2>1. NextPacketId \in Nat
    BY <1>1 DEF NextPacketId
  <2>2. PICK p \in Packet : /\ SendReliably(p) /\ AsksFor(p) /\ p.type \in {"PUBLISH", "SUBSCRIBE"}
                            /\ p.id = NextPacketId
    <3> DEFINE m == NextPacketId
    <3>1. ASSUME NEW q \in AppQos \ {0}
          PROVE  /\ Publication(m, q, TRUE) \in Packet /\ AsksFor(Publication(m, q, TRUE))
                 /\ Publication(m, q, TRUE).type = "PUBLISH" /\ Publication(m, q, TRUE).id = m
      <4>1. q \in 0..2 /\ q \in 1..2
        BY Constants
      <4>2. Publication(m, q, TRUE).type = "PUBLISH" /\ Publication(m, q, TRUE).id = m
        BY DEF Publication
      <4> QED
        BY <2>1, <4>1, <4>2, WritesTyped, RequestsAsk
    <3>2. /\ WithId("SUBSCRIBE", m) \in Packet /\ AsksFor(WithId("SUBSCRIBE", m))
          /\ UnsubscribePacket(m) \in Packet /\ AsksFor(UnsubscribePacket(m))
      BY <2>1, WritesTyped, RequestsAsk
    <3>3. /\ WithId("SUBSCRIBE", m).type = "SUBSCRIBE" /\ WithId("SUBSCRIBE", m).id = m
          /\ UnsubscribePacket(m).type = "SUBSCRIBE" /\ UnsubscribePacket(m).id = m
      BY DEF WithId, UnsubscribePacket, Cut
    <3> QED
      BY <1>3, <3>1, <3>2, <3>3 DEF PublishReliably, Subscribe, Unsubscribe
  <2>3. Bounded(stack', toBroker', toClient, unacked, nextMsgId')
    BY <2>2, RequestKeepsCopies
  <2> QED
    BY <2>2, <2>3 DEF SendReliably, othersOfLink, CopyInv
<1>4. CASE Loop
  <2> DEFINE wrote == IF KeepaliveDue THEN <<Ctl("PINGREQ")>> ELSE <<>>
  <2>1. wrote \in {<<>>, <<Ctl("PINGREQ")>>}
    OBVIOUS
  <2>2. AllWait(stack) /\ nextMsgId' = nextMsgId /\ unacked' = unacked
    BY <1>4 DEF Loop, InApp, AllWait, othersOfLink
  <2>3. \/ toBroker' = Sent(wrote) /\ UNCHANGED <<toClient, stack>>
        \/ /\ toClient # <<>> /\ toClient' = Tail(toClient)
           /\ \E out, ping : \/ BlocksIn(Head(toClient), wrote, out, ping)
                            \/ \E p \in Parsed(Head(toClient)) : Handle(p, wrote, out, ping)
    BY <1>4, Zenon DEF Loop
  <2> HIDE DEF wrote
  <2>4. CASE toBroker' = Sent(wrote) /\ UNCHANGED <<toClient, stack>>
    <3>1. /\ toBroker' \in Seq(Packet)
          /\ \A K : (\A p \in K : Matters(p)) => Number(toBroker', K) <= Number(toBroker, K)
      BY <1>1, <2>1, <2>4, QuietWrites
    <3>2. NoMore(toBroker', toClient, toBroker, toClient)
      BY <1>1, <3>1, NothingMore, NoMoreOf
    <3>3. Bounded(stack, toBroker', toClient, unacked, nextMsgId)
      BY <1>1, <3>1, <3>2, BoundedKept
    <3> QED
      BY <2>2, <2>4, <3>3 DEF CopyInv
  <2>5. CASE /\ toClient # <<>> /\ toClient' = Tail(toClient)
             /\ \E out, ping : \/ BlocksIn(Head(toClient), wrote, out, ping)
                              \/ \E p \in Parsed(Head(toClient)) : Handle(p, wrote, out, ping)
    <3>1. Bounded(stack', toBroker', Tail(toClient), unacked, nextMsgId)
      BY <2>1, <2>2, <2>5, HandleKeepsCopies
    <3> QED
      BY <2>2, <2>5, <3>1 DEF CopyInv
  <2> QED
    BY <2>3, <2>4, <2>5
<1> QED
  BY <1>2, <1>3, <1>4

\* A new connection starts with one CONNECT.
LEMMA OpenBounds ==
  ASSUME ConnectOpens
  PROVE  CopyInv'
<1> DEFINE p == Ctl("CONNECT")
           b == <<p>>
           g == Waiting(p)
<1>1. /\ tcp' = "open" /\ toBroker' = b /\ toClient' = <<>> /\ unacked' = {} /\ nextMsgId' = 1
      /\ stack' = <<g>>
  BY DEF ConnectOpens, OpenWith
<1>2. p \in Packet /\ p.type = "CONNECT" /\ p.id = 0
  BY WritesTyped DEF Ctl
<1>3. g \in Frame /\ Waits(g) /\ g.sent = p /\ g.retries = 0
  BY <1>2, WaitingWaits
<1> HIDE DEF p, g
<1>4. <<>> \in Seq(Packet) /\ b \in {<<>>, <<>> \o <<p>>}
  BY <1>2, ConcatEmptySeq
<1> HIDE DEF b
<1>5. b \in Seq(Packet) /\ \A K : /\ Number(b, K) <= 1 /\ Number(b, K) \in Nat
                                  /\ p \notin K => Number(b, K) = 0
  <2>1. b \in Seq(Packet) /\ \A K : /\ Number(b, K) <= Number(<<>>, K) + 1
                                    /\ p \notin K => Number(b, K) <= Number(<<>>, K)
    BY <1>2, <1>4, NumberOfWrite
  <2>2. \A K : Number(b, K) \in Nat
    BY <2>1, NumbersAre
  <2> QED
    BY <2>1, <2>2, NumberOfEmpty
<1>6. OwnBounded(b, 1)
  <2> SUFFICES ASSUME NEW q \in Packet, Own(q)
               PROVE  Number(b, {q}) <= MaxRetries + 1 /\ (q.id > 1 => Number(b, {q}) <= 0)
    BY DEF OwnBounded
  <2>1. Number(b, {q}) <= 1 /\ Number(b, {q}) \in Nat
    BY <1>5
  <2>2. q.id > 1 => p \notin {q}
    BY <1>2
  <2>3. q.id > 1 => Number(b, {q}) = 0
    BY <1>5, <2>2
  <2> QED
    BY <2>1, <2>3, Constants
<1>7. PairsBounded(b, <<>>, {})
  <2> SUFFICES ASSUME NEW id \in Nat PROVE Pairs(id, b, <<>>) = 0 /\ Fresh(id, <<>>) = 0
    BY Constants DEF PairsBounded
  <2>1. p \notin RecsOf(id)
    BY <1>2 DEF RecsOf
  <2>2. Number(b, RecsOf(id)) = 0 /\ Number(<<>>, RelsOf(id)) = 0 /\ Number(<<>>, Given(id)) = 0
    BY <1>5, <2>1, NumberOfEmpty
  <2> QED
    BY <2>2 DEF Pairs, Fresh
<1>8. ~About(g) /\ AboutBounded(g, b, <<>>, {})
  BY <1>2, <1>3 DEF About, AboutBounded, Waits
<1>9. AskBounded(g, b, 1)
  BY <1>2, <1>3, <1>5 DEF AskBounded
<1>10. Bounded(<<g>>, b, <<>>, {}, 1)
  BY <1>3, <1>6, <1>7, <1>8, <1>9, BoundedEmpty, BoundedFirst
<1> QED
  BY <1>1, <1>10 DEF CopyInv

\* The broker answers a PUBREC with a PUBREL, and nothing else that matters.
LEMMA AnswerKeepsCopies ==
  ASSUME NEW b \in Seq(Packet), b # <<>>, NEW c \in Seq(Packet), NEW c2 \in Seq(Packet), Head(b) \in Packet,
         Plain(Head(b)),
         \/ \E rc \in {0} \cup RefusalCodes : c2 = Append(c, ConnAck(rc))
         \/ c2 = c \o Reply(Head(b))
  PROVE  NoMore(Tail(b), c2, b, c)
<1> DEFINE p == Head(b)
           k == p.id
           rel == WithId("PUBREL", k)
<1>1. p \in Packet /\ k \in Nat /\ Plain(p)
  BY DEF Packet
<1>2. /\ Tail(b) \in Seq(Packet)
      /\ \A K : Number(Tail(b), K) <= Number(b, K) /\ (p \in K => Number(Tail(b), K) + 1 = Number(b, K))
  BY NumberOfRead
<1>3. rel \in Packet /\ rel.type = "PUBREL" /\ rel.id = k
  BY <1>1, WritesTyped DEF WithId
<1>4. \/ c2 = c
      \/ p.type = "PUBREC" /\ c2 = c \o <<rel>>
      \/ \E a \in Packet : ~Arrives(a) /\ c2 = c \o <<a>>
  <2>1. ASSUME NEW rc \in {0} \cup RefusalCodes, c2 = Append(c, ConnAck(rc))
        PROVE  \E a \in Packet : ~Arrives(a) /\ c2 = c \o <<a>>
    <3>1. ConnAck(rc) \in Packet /\ ~Arrives(ConnAck(rc))
      BY LinkConstants, PacketsTyped DEF ConnAck, Arrives
    <3>2. Append(c, ConnAck(rc)) = c \o <<ConnAck(rc)>>
      BY <3>1, AppendIsConcat
    <3> QED
      BY <2>1, <3>1, <3>2
  <2>2. CASE c2 = c \o Reply(p)
    <3>1. /\ Ctl("PINGRESP") \in Packet /\ ~Arrives(Ctl("PINGRESP"))
          /\ \A t \in {"SUBACK", "UNSUBACK", "PUBACK", "PUBREC", "PUBCOMP"} :
               WithId(t, k) \in Packet /\ ~Arrives(WithId(t, k))
      <4>1. {"SUBACK", "UNSUBACK", "PUBACK", "PUBREC", "PUBCOMP"} \subseteq PacketTypes
        BY DEF PacketTypes
      <4>2. \A t \in {"SUBACK", "UNSUBACK", "PUBACK", "PUBREC", "PUBCOMP"} : WithId(t, k) \in Packet
        BY <1>1, <4>1, PacketsTyped
      <4> QED
        BY <4>2, WritesTyped DEF Ctl, WithId, Arrives
    <3>2. c \o <<>> = c
      BY ConcatEmptySeq
    <3>3. \/ Reply(p) = <<>> \/ Reply(p) = <<Ctl("PINGRESP")>>
          \/ \E t \in {"SUBACK", "UNSUBACK", "PUBACK", "PUBREC", "PUBCOMP"} : Reply(p) = <<WithId(t, k)>>
          \/ p.type = "PUBREC" /\ Reply(p) = <<rel>>
      <4>1. p.type = "PUBREC" => Reply(p) = <<rel>>
        BY DEF Reply
      <4>2. p.type # "PUBREC" /\ Plain(p)
              => Reply(p) \in {<<>>, <<Ctl("PINGRESP")>>, <<WithId("SUBACK", k)>>, <<WithId("PUBACK", k)>>,
                               <<WithId("PUBREC", k)>>, <<WithId("PUBCOMP", k)>>}
        BY DEF Reply, Plain
      <4> QED
        BY <1>1, <4>1, <4>2, Zenon
    <3> HIDE DEF p, k, rel
    <3> QED
      BY <2>2, <3>1, <3>2, <3>3
  <2> QED
    BY <2>1, <2>2
<1> HIDE DEF p, k, rel
<1>5. CASE c2 = c
  BY <1>2, <1>5, NothingMore, NoMoreOf
<1>6. CASE \E a \in Packet : ~Arrives(a) /\ c2 = c \o <<a>>
  <2>1. PICK a \in Packet : ~Arrives(a) /\ c2 = c \o <<a>>
    BY <1>6
  <2>2. \A K : (\A q \in K : Arrives(q)) => Number(c2, K) <= Number(c, K)
    BY <2>1, ArriveOther
  <2> QED
    BY <1>2, <2>2, NoMoreOf
<1>7. CASE p.type = "PUBREC" /\ c2 = c \o <<rel>>
  <2>1. \A K : Number(c2, K) <= Number(c, K) + 1 /\ (rel \notin K => Number(c2, K) <= Number(c, K))
    BY <1>3, <1>7, NumberOfWrite
  <2>2. \A K : Number(b, K) \in Nat /\ Number(Tail(b), K) \in Nat /\ Number(c, K) \in Nat /\ Number(c2, K) \in Nat
    BY <1>2, NumbersAre
  <2>3. ASSUME NEW id \in Nat
        PROVE  Pairs(id, Tail(b), c2) <= Pairs(id, b, c) /\ Fresh(id, c2) <= Fresh(id, c)
    <3> DEFINE x  == Number(b, RecsOf(id))
               x2 == Number(Tail(b), RecsOf(id))
               y  == Number(c, RelsOf(id))
               y2 == Number(c2, RelsOf(id))
    <3>1. /\ x \in Nat /\ x2 \in Nat /\ y \in Nat /\ y2 \in Nat
          /\ x2 <= x /\ (p \in RecsOf(id) => x2 + 1 = x)
          /\ y2 <= y + 1 /\ (rel \notin RelsOf(id) => y2 <= y)
      BY <1>2, <2>1, <2>2
    <3>2. rel \in RelsOf(id) => p \in RecsOf(id)
      BY <1>1, <1>3, <1>7 DEF RecsOf, RelsOf, k
    <3>3. Pairs(id, Tail(b), c2) = x2 + y2 /\ Pairs(id, b, c) = x + y
      BY DEF Pairs
    <3>4. rel \notin Given(id)
      BY <1>3 DEF Given
    <3>5. Fresh(id, c2) <= Fresh(id, c)
      BY <2>1, <3>4 DEF Fresh
    <3> HIDE DEF x, x2, y, y2
    <3> QED
      BY <3>1, <3>2, <3>3, <3>5
  <2> QED
    BY <1>2, <2>3 DEF NoMore
<1> QED
  BY <1>4, <1>5, <1>6, <1>7

\* A publication takes an id that is not in use.
LEMMA GiveKeepsCopies ==
  ASSUME NEW s, NEW b, NEW c, NEW u, NEW n, Counted(s, b, c, u, n), Bounded(s, b, c, u, n),
         NEW a \in Packet, a.type = "PUBLISH", a.id \notin u
  PROVE  Bounded(s, b, c \o <<a>>, u \cup {a.id}, n)
<1> DEFINE c2 == c \o <<a>>
           k  == a.id
           v  == u \cup {k}
<1> USE DEF Counted
<1>1. /\ c2 \in Seq(Packet) /\ k \in Nat
      /\ \A K : Number(c2, K) <= Number(c, K) + 1 /\ (a \notin K => Number(c2, K) <= Number(c, K))
  BY NumberOfWrite DEF Packet
<1>2. \A K : Number(c2, K) \in Nat /\ Number(c, K) \in Nat /\ Number(b, K) \in Nat
  BY <1>1, NumbersAre
<1> HIDE DEF c2
<1>3. ASSUME NEW id \in Nat
      PROVE  /\ Pairs(id, b, c2) <= Pairs(id, b, c) /\ Fresh(id, c2) <= Fresh(id, c) + 1
             /\ id # k => Fresh(id, c2) <= Fresh(id, c)
             /\ Pairs(id, b, c2) \in Nat /\ Pairs(id, b, c) \in Nat
             /\ Fresh(id, c2) \in Nat /\ Fresh(id, c) \in Nat
  <2> DEFINE x  == Number(b, RecsOf(id))
             y  == Number(c, RelsOf(id))
             y2 == Number(c2, RelsOf(id))
  <2>1. a \notin RelsOf(id) /\ (id # k => a \notin Given(id))
    BY DEF RelsOf, Given
  <2>2. x \in Nat /\ y \in Nat /\ y2 \in Nat /\ y2 <= y
    BY <1>1, <1>2, <2>1
  <2>3. Pairs(id, b, c2) = x + y2 /\ Pairs(id, b, c) = x + y
    BY DEF Pairs
  <2>4. /\ Fresh(id, c2) <= Fresh(id, c) + 1 /\ (id # k => Fresh(id, c2) <= Fresh(id, c))
        /\ Fresh(id, c2) \in Nat /\ Fresh(id, c) \in Nat
    BY <1>1, <1>2, <2>1 DEF Fresh
  <2> HIDE DEF x, y, y2, k
  <2> QED
    BY <2>2, <2>3, <2>4
<1>4. OwnBounded(b, n)
  BY DEF Bounded
<1>5. PairsBounded(b, c2, v)
  <2> SUFFICES ASSUME NEW id \in Nat
               PROVE  /\ Pairs(id, b, c2) <= MaxRetries + 1
                      /\ id \notin v => Pairs(id, b, c2) <= 0 /\ Fresh(id, c2) <= 0
                      /\ Fresh(id, c2) <= 1
                      /\ Fresh(id, c2) > 0 => Pairs(id, b, c2) <= 0
    BY DEF PairsBounded
  <2>1. /\ Pairs(id, b, c) <= MaxRetries + 1
        /\ id \notin u => Pairs(id, b, c) <= 0 /\ Fresh(id, c) <= 0
        /\ Fresh(id, c) <= 1
        /\ Fresh(id, c) > 0 => Pairs(id, b, c) <= 0
    BY DEF Bounded, PairsBounded
  <2>2. /\ Pairs(id, b, c2) <= Pairs(id, b, c) /\ Fresh(id, c2) <= Fresh(id, c) + 1
        /\ id # k => Fresh(id, c2) <= Fresh(id, c)
        /\ Pairs(id, b, c2) \in Nat /\ Pairs(id, b, c) \in Nat
        /\ Fresh(id, c2) \in Nat /\ Fresh(id, c) \in Nat
    BY <1>3
  <2>3. Pairs(id, b, c2) <= MaxRetries + 1
    BY <2>1, <2>2, Constants
  <2>4. CASE id = k
    <3>1. id \in v /\ id \notin u
      BY <2>4
    <3>2. Pairs(id, b, c2) <= 0 /\ Fresh(id, c2) <= 1
      BY <2>1, <2>2, <3>1
    <3> QED
      BY <2>3, <3>1, <3>2
  <2>5. CASE id # k
    <3>1. id \notin v => id \notin u
      BY <2>5
    <3>2. Fresh(id, c2) <= Fresh(id, c) /\ Pairs(id, b, c2) <= Pairs(id, b, c)
      BY <2>2, <2>5
    <3>3. /\ id \notin u => Pairs(id, b, c2) <= 0 /\ Fresh(id, c2) <= 0
          /\ Fresh(id, c2) <= 1
          /\ Fresh(id, c2) > 0 => Pairs(id, b, c2) <= 0
      BY <2>1, <2>2, <3>2
    <3> QED
      BY <2>3, <3>1, <3>3
  <2> QED
    BY <2>4, <2>5
<1>6. FramesBounded(s, b, c2, v, n)
  <2> SUFFICES ASSUME NEW i \in DOMAIN s
               PROVE  AskBounded(s[i], b, n) /\ AboutBounded(s[i], b, c2, v)
    BY DEF FramesBounded
  <2> DEFINE f == s[i]
  <2>1. f \in Frame /\ AskBounded(f, b, n) /\ AboutBounded(f, b, c, u)
    BY DEF Bounded, FramesBounded
  <2>2. f.sent.id \in Nat
    BY <2>1 DEF Frame, Packet
  <2> HIDE DEF f
  <2>3. Asks(f) => Number(b, {f.sent}) <= Number(b, {f.sent}) /\ Number(b, {Rel(n)}) <= Number(b, {Rel(n)})
    BY NothingMore
  <2>4. About(f) => f.sent.id # k
    BY <2>1 DEF AboutBounded
  <2>5. About(f) => /\ Pairs(f.sent.id, b, c2) <= Pairs(f.sent.id, b, c)
                    /\ Fresh(f.sent.id, c2) <= Fresh(f.sent.id, c)
    BY <1>3, <2>2, <2>4
  <2>6. u \subseteq v
    OBVIOUS
  <2> HIDE DEF v, k
  <2>7. AskBounded(f, b, n) /\ AboutBounded(f, b, c2, v)
    BY <1>1, <2>1, <2>3, <2>5, <2>6, FrameKept
  <2> QED
    BY <2>7 DEF f
<1>7. Bounded(s, b, c2, v, n)
  BY <1>4, <1>5, <1>6 DEF Bounded
<1> QED
  BY <1>7 DEF c2

LEMMA NetworkKeepsCopies ==
  ASSUME TypeOK, ServedInv, CopyInv, tcp' = "open", Network
  PROVE  CopyInv'
<1>1. tcp = "open" /\ UNCHANGED <<stack, nextMsgId>> /\ LinkNext
  BY DEF Network, LinkNext, BrokerReceive, BrokerPublish, BrokerPing, BrokerHangs, LinkDown, Drop
<1>2. /\ stack \in Seq(Frame) /\ toBroker \in Seq(Packet) /\ toClient \in Seq(Packet)
      /\ Counted(stack, toBroker, toClient, unacked, nextMsgId)
      /\ Bounded(stack, toBroker, toClient, unacked, nextMsgId)
  BY <1>1, CopyContext
<1>3. toClient' \in Seq(Packet)
  BY <1>1, LinkNextTyped DEF TypeOK, LinkTypeOK
<1>4. CASE BrokerReceive
  <2> DEFINE p == Head(toBroker)
  <2>1. toBroker # <<>> /\ p \in Packet /\ Plain(p)
    <3>1. toBroker # <<>>
      BY <1>4 DEF BrokerReceive
    <3>2. p \in Packet /\ p \in Members(toBroker)
      BY <1>2, <3>1, MembersOfTail, HeadTailProperties, EmptySeq
    <3> QED
      BY <3>1, <3>2 DEF ServedInv, AnswersInv
  <2>2. /\ toBroker' = Tail(toBroker)
        /\ \/ \E rc \in {0} \cup RefusalCodes : toClient' = Append(toClient, ConnAck(rc))
           \/ toClient' = toClient \o Reply(p)
        /\ \/ unacked' = unacked
           \/ ~p.cut /\ p.type \in {"PUBACK", "PUBCOMP"}
    BY <1>4 DEF BrokerReceive, Drop
  <2>3. unacked' = unacked
    BY <2>1, <2>2 DEF Plain
  <2>4. Tail(toBroker) \in Seq(Packet) /\ NoMore(Tail(toBroker), toClient', toBroker, toClient)
    BY <1>2, <1>3, <2>1, <2>2, AnswerKeepsCopies, NumberOfRead
  <2>5. Bounded(stack, Tail(toBroker), toClient', unacked, nextMsgId)
    BY <1>2, <1>3, <2>4, BoundedKept
  <2> QED
    BY <1>1, <2>2, <2>3, <2>5 DEF CopyInv
<1>5. ASSUME UNCHANGED <<toBroker, unacked>>,
             NEW a \in Packet, ~Arrives(a) \/ (a.type = "PUBLISH" /\ a.qos = 0), toClient' = Append(toClient, a)
      PROVE  CopyInv'
  <2>1. toClient' = toClient \o <<a>>
    BY <1>2, <1>5, AppendIsConcat
  <2>2. \A K : a \notin K => Number(toClient', K) <= Number(toClient, K)
    BY <1>2, <2>1, NumberOfWrite
  <2>3. \A id \in Nat : a \notin RelsOf(id) /\ a \notin Given(id)
    BY <1>5 DEF Arrives, RelsOf, Given
  <2>4. ASSUME NEW id \in Nat
        PROVE  /\ Pairs(id, toBroker, toClient') <= Pairs(id, toBroker, toClient)
               /\ Fresh(id, toClient') <= Fresh(id, toClient)
    <3>1. /\ Number(toClient', RelsOf(id)) <= Number(toClient, RelsOf(id))
          /\ Number(toClient', Given(id)) <= Number(toClient, Given(id))
      BY <2>2, <2>3
    <3>2. /\ Number(toClient', RelsOf(id)) \in Nat /\ Number(toClient, RelsOf(id)) \in Nat
          /\ Number(toBroker, RecsOf(id)) \in Nat
      BY <1>2, <1>3, NumbersAre
    <3> QED
      BY <3>1, <3>2 DEF Pairs, Fresh
  <2>5. NoMore(toBroker, toClient', toBroker, toClient)
    BY <1>2, <2>4, NothingMore DEF NoMore
  <2>6. Bounded(stack, toBroker, toClient', unacked, nextMsgId)
    BY <1>2, <1>3, <2>5, BoundedKept
  <2> QED
    BY <1>1, <1>5, <2>6 DEF CopyInv
<1>6. CASE BrokerPing
  <2>1. Ctl("PINGREQ") \in Packet /\ ~Arrives(Ctl("PINGREQ"))
    BY WritesTyped DEF Arrives, Ctl
  <2> QED
    BY <1>5, <1>6, <2>1 DEF BrokerPing
<1>7. CASE BrokerPublish
  <2>1. PICK q \in BrokerQos, f \in BrokerFits :
          \/ toClient' = Append(toClient, Publication(0, 0, f)) /\ UNCHANGED unacked
          \/ \E id \in MsgIds \ unacked : /\ toClient' = Append(toClient, Publication(id, q, f))
                                          /\ unacked' = unacked \cup {id}
    BY <1>7 DEF BrokerPublish
  <2>2. q \in 0..2 /\ f \in BOOLEAN /\ 0 \in 0..2 /\ UNCHANGED toBroker
    BY <1>7, LinkConstants DEF BrokerPublish
  <2>3. CASE toClient' = Append(toClient, Publication(0, 0, f)) /\ UNCHANGED unacked
    <3>1. Publication(0, 0, f) \in Packet
      BY <2>2, PacketsTyped
    <3>2. Publication(0, 0, f).type = "PUBLISH" /\ Publication(0, 0, f).qos = 0
      BY DEF Publication
    <3> QED
      BY <1>5, <2>2, <2>3, <3>1, <3>2
  <2>4. CASE \E id \in MsgIds \ unacked : /\ toClient' = Append(toClient, Publication(id, q, f))
                                          /\ unacked' = unacked \cup {id}
    <3>1. PICK id \in MsgIds \ unacked : /\ toClient' = Append(toClient, Publication(id, q, f))
                                         /\ unacked' = unacked \cup {id}
      BY <2>4
    <3> DEFINE a == Publication(id, q, f)
    <3>2. a \in Packet /\ a.type = "PUBLISH" /\ a.id = id
      <4>1. id \in Nat
        BY LinkConstants
      <4>2. a \in Packet
        BY <2>2, <4>1, PacketsTyped
      <4> QED
        BY <4>2 DEF Publication
    <3>3. toClient' = Append(toClient, a)
      BY <3>1
    <3> HIDE DEF a
    <3>4. toClient' = toClient \o <<a>>
      BY <1>2, <3>2, <3>3, AppendIsConcat
    <3>5. Bounded(stack, toBroker, toClient \o <<a>>, unacked \cup {a.id}, nextMsgId)
      BY <1>2, <3>2, GiveKeepsCopies
    <3> QED
      BY <1>1, <2>2, <3>1, <3>2, <3>4, <3>5 DEF CopyInv
  <2> QED
    BY <2>1, <2>3, <2>4
<1>8. CASE BrokerHangs
  <2>1. <<>> \in Seq(Packet) /\ toBroker' = <<>> /\ UNCHANGED <<toClient, unacked>>
    BY <1>8 DEF BrokerHangs
  <2>2. \A K : Number(<<>>, K) <= Number(toBroker, K)
    BY <1>2, NumberOfEmpty, NumbersAre
  <2>3. NoMore(<<>>, toClient, toBroker, toClient)
    BY <1>2, <2>1, <2>2, NothingMore, NoMoreOf
  <2>4. Bounded(stack, <<>>, toClient, unacked, nextMsgId)
    BY <1>2, <2>1, <2>3, BoundedKept
  <2> QED
    BY <1>1, <2>1, <2>4 DEF CopyInv
<1>9. ~LinkDown
  BY DEF LinkDown, Drop
<1> QED
  BY <1>1, <1>4, <1>6, <1>7, <1>8, <1>9 DEF LinkNext

\* Without a connection nothing is on its way to the broker.
LEMMA ClosedIsEmpty ==
  ASSUME TypeOK, CopyInv, [Next]_vars, tcp' # "open"
  PROVE  toBroker' = <<>>
<1>1. toBroker \in Seq(Packet)
  BY DEF TypeOK, LinkTypeOK
<1>2. CASE \/ CallOffline \/ LoopTimesOut \/ Disconnect \/ ConnectOpens
  BY <1>2 DEF CallOffline, LoopTimesOut, Disconnect, ConnectOpens, Stop, OpenWith
<1>3. CASE Network
  BY <1>3 DEF Network, LinkNext, BrokerReceive, BrokerPublish, BrokerPing, BrokerHangs, LinkDown, Drop, CopyInv
<1>4. CASE WaitFails \/ WaitReads \/ WaitProcesses \/ CallbackReturns \/ Loop \/ PublishOnce
           \/ PublishReliably \/ Subscribe \/ Unsubscribe \/ Tick \/ UNCHANGED vars
  <2>1. \/ toBroker' = <<>>
        \/ tcp' = tcp /\ (toBroker' = toBroker \/ \E ps : toBroker' = Sent(ps))
    <3>1. \A p, wrote, out, ping : Handle(p, wrote, out, ping) \/ BlocksIn(p, wrote, out, ping)
                                     => \E ps : toBroker' = Sent(ps)
      BY DEF Handle, BlocksIn
    <3>2. Succeed => toBroker' = toBroker \/ \E ps : toBroker' = Sent(ps)
      BY DEF Succeed
    <3>3. CASE WaitProcesses
      BY <3>1, <3>2, <3>3, Zenon DEF WaitProcesses, othersOfLink
    <3>4. CASE Loop
      BY <3>1, <3>4, Zenon DEF Loop, othersOfLink
    <3>5. CASE WaitFails \/ WaitReads \/ CallbackReturns
      BY <3>5 DEF WaitFails, Resend, GiveUp, Stop, WaitReads, CallbackReturns, linkVars, othersOfLink
    <3>6. CASE PublishOnce \/ PublishReliably \/ Subscribe \/ Unsubscribe
      BY <3>6 DEF PublishOnce, PublishReliably, Subscribe, Unsubscribe, SendReliably, othersOfLink
    <3>7. CASE Tick \/ UNCHANGED vars
      BY <3>7 DEF Tick, LinkTick, vars, linkVars
    <3> QED
      BY <1>4, <3>3, <3>4, <3>5, <3>6, <3>7
  <2>2. tcp # "open" => toBroker = <<>> /\ \A ps : Sent(ps) = toBroker
    BY DEF CopyInv, Sent
  <2> QED
    BY <2>1, <2>2
<1> QED
  BY <1>2, <1>3, <1>4 DEF Next, Proceed

\* A connection is only opened by ConnectOpens.
LEMMA OnlyConnectOpens ==
  ASSUME [Next]_vars, ~ConnectOpens, tcp' = "open"
  PROVE  tcp = "open" /\ ~CallOffline /\ ~LoopTimesOut /\ ~Disconnect
<1>1. ~CallOffline /\ ~LoopTimesOut /\ ~Disconnect
  BY DEF CallOffline, LoopTimesOut, Disconnect, Stop
<1>2. CASE Network
  BY <1>1, <1>2 DEF Network, LinkNext, BrokerReceive, BrokerPublish, BrokerPing, BrokerHangs, LinkDown, Drop
<1>3. CASE ~Network
  <2>1. tcp' = tcp
    BY <1>1, <1>3 DEF Next, Proceed, Loop, WaitProcesses, WaitFails, Resend, GiveUp, Stop, WaitReads,
       CallbackReturns, PublishOnce, PublishReliably, Subscribe, Unsubscribe, SendReliably, Tick, LinkTick,
       vars, clientVars, linkVars, othersOfLink
  <2> QED
    BY <1>1, <2>1
<1> QED
  BY <1>2, <1>3

LEMMA CopiesKept ==
  ASSUME NoWrap, TypeOK, ServedInv, CopyInv, [Next]_vars
  PROVE  CopyInv'
<1>1. CASE tcp' # "open"
  BY <1>1, ClosedIsEmpty DEF CopyInv
<1>2. CASE ConnectOpens
  BY <1>2, OpenBounds
<1>3. CASE tcp' = "open" /\ ~ConnectOpens
  <2>1. tcp = "open" /\ ~CallOffline /\ ~LoopTimesOut /\ ~Disconnect
    BY <1>3, OnlyConnectOpens
  <2>2. CASE Network
    BY <1>3, <2>2, NetworkKeepsCopies
  <2>3. CASE Loop \/ PublishOnce \/ PublishReliably \/ Subscribe \/ Unsubscribe
    BY <1>3, <2>1, <2>3, CallsKeepCopies
  <2>4. CASE WaitFails \/ WaitReads \/ WaitProcesses
    BY <1>3, <2>1, <2>4, WaitsKeepCopies
  <2>5. CASE CallbackReturns
    <3>1. UNCHANGED <<toClient, unacked, nextMsgId>>
      BY <2>5 DEF CallbackReturns, othersOfLink
    <3> QED
      BY <1>3, <2>1, <2>5, <3>1, CallbackKeepsCopies DEF CopyInv
  <2>6. CASE Tick \/ UNCHANGED vars
    BY <2>6 DEF Tick, LinkTick, vars, clientVars, linkVars, CopyInv
  <2> QED
    BY <1>3, <2>1, <2>2, <2>3, <2>4, <2>5, <2>6 DEF Next, Proceed
<1> QED
  BY <1>1, <1>2, <1>3

\* What the bounds say of one packet.
LEMMA CopiesFollow ==
  ASSUME TypeOK, ServedInv, CopyInv
  PROVE  CopiesBounded
<1> SUFFICES ASSUME NEW i \in DOMAIN toBroker,
                    toBroker[i].type \in {"CONNECT", "SUBSCRIBE", "PUBREL"} \/ toBroker[i].id # 0
             PROVE  Count(toBroker, toBroker[i]) <= MaxRetries + 1
  BY DEF CopiesBounded
<1> DEFINE p == toBroker[i]
<1>1. toBroker \in Seq(Packet) /\ p \in Packet /\ p \in Members(toBroker) /\ toBroker # <<>>
      /\ toClient \in Seq(Packet)
  BY DEF TypeOK, LinkTypeOK, Members
<1>2. Plain(p) /\ OwnBounded(toBroker, nextMsgId) /\ PairsBounded(toBroker, toClient, unacked)
  BY <1>1 DEF ServedInv, AnswersInv, CopyInv, Bounded
<1>3. Count(toBroker, p) = Number(toBroker, {p})
  <2>1. Places(toBroker, {p}) = {j \in DOMAIN toBroker : toBroker[j] = p}
    BY DEF Places
  <2> QED
    BY <2>1 DEF Count, Number
<1>4. p.type \in {"CONNECT", "SUBSCRIBE", "PUBREL"} \/ p.id # 0
  OBVIOUS
<1> HIDE DEF p
<1>5. Own(p) => Count(toBroker, p) <= MaxRetries + 1
  BY <1>1, <1>2, <1>3 DEF OwnBounded
<1>6. ASSUME ~Own(p) PROVE Count(toBroker, p) <= MaxRetries + 1
  <2>1. p.type = "PUBREC" /\ p.id \in Nat /\ p \in RecsOf(p.id)
    BY <1>1, <1>2, <1>4, <1>6 DEF Own, Plain, RecsOf, Packet
  <2> DEFINE x == Number(toBroker, {p})
             y == Number(toBroker, RecsOf(p.id))
             z == Number(toClient, RelsOf(p.id))
  <2>2. y + z <= MaxRetries + 1
    BY <1>2, <2>1 DEF PairsBounded, Pairs
  <2>3. x <= y
    <3>1. Places(toBroker, {p}) \subseteq Places(toBroker, RecsOf(p.id))
      BY <2>1 DEF Places
    <3>2. /\ IsFiniteSet(Places(toBroker, RecsOf(p.id)))
          /\ x = Cardinality(Places(toBroker, {p})) /\ y = Cardinality(Places(toBroker, RecsOf(p.id)))
      BY <1>1, NumberTyped
    <3> QED
      BY <3>1, <3>2, FS_Subset, Zenon
  <2>4. x \in Nat /\ y \in Nat /\ z \in Nat
    BY <1>1, NumbersAre
  <2> HIDE DEF x, y, z
  <2>5. x <= MaxRetries + 1
    BY <2>2, <2>3, <2>4, Constants
  <2> QED
    BY <1>3, <2>5 DEF x
<1>7. Count(toBroker, p) <= MaxRetries + 1
  BY <1>5, <1>6
<1> QED
  BY <1>7 DEF p

\* However answers are lost, late or answered in nested waits, the broker never has
\* more copies of a request to process than one and its retries (send_reliably()).
THEOREM CopiesAreBounded ==
  ASSUME NoWrap
  PROVE  Spec => []CopiesBounded
<1>1. Init => CopyInv
  BY DEF Init, LinkInit, CopyInv
<1>2. ASSUME TypeOK, ServedInv, CopyInv, [Next]_vars PROVE CopyInv'
  BY <1>2, CopiesKept
<1>3. ASSUME TypeOK, ServedInv, CopyInv PROVE CopiesBounded
  BY <1>3, CopiesFollow
<1> QED
  BY <1>1, <1>2, <1>3, TypeCorrect, ServedInvariant, PTL DEF Spec
=============================================================================
