------------------------------ MODULE MqttWire ------------------------------
(***************************************************************************)
(* MQTT.cpp and MQTT.h of the old client: messages as bytes.  send() puts  *)
(* a message into a buffer whose positions and lengths are uint8_t;        *)
(* readPacket() reads one from a TCP connection that delivers the bytes    *)
(* in pieces.                                                              *)
(* A text is a sequence of characters 1, 2, 3 and so on, so its length     *)
(* tells which one it is and a shifted one is seen.                        *)
(***************************************************************************)
EXTENDS Integers, Sequences, SequencesExt

CONSTANTS
  Byte,         (* the number of values of a byte: 256, less for TLC         *)
  Room,         (* the bytes of the buffer behind the fixed header: 123      *)
  OutMessages,  (* what the application sends                                *)
  InMessages,   (* what the broker sends                                     *)
  MaxQueue      (* bound on the broker's packets that are not read           *)

ASSUME WireAssumption ==
  /\ Byte \in Nat /\ Byte % 2 = 0 /\ Byte > 6 /\ Room \in 0..(Byte - 1) /\ MaxQueue \in Nat

VARIABLES
  out,          (* the message the program is sending, and its bytes         *)
  wire,         (* bytes on their way from the broker                        *)
  available,    (* bytes in the socket                                       *)
  pc,           (* "idle"; "length", "body": in readPacket(); "hung" in the
                   constructor of the message; "lost" out of step with the
                   broker, where anything may be read                        *)
  header,       (* the first byte                                            *)
  length, shift,    (* remaining_length, and the worth of its next digit     *)
  data, left,   (* remaining_data, and r: how much of it has not been read   *)
  torn,         (* history: data was read in more than one piece             *)
  sent,         (* history: the broker's packets that were not read          *)
  last          (* history: the last one that was, and what was read, until
                   the next one is read                                     *)

reader == <<pc, header, length, shift, data, left, torn>>
vars == <<out, wire, available, reader, sent, last>>

NoMessage == [message |-> [class |-> "NONE"], bytes |-> <<>>]
NothingRead == [sent |-> [class |-> "NONE"], read |-> [class |-> "NONE"]]

Text(n) == [i \in 1..n |-> i]

Optional(flag, bytes) == IF flag THEN bytes ELSE <<>>

----------------------------------------------------------------------------
(* Writing                                                                 *)

\* write(uint16_t) and write(String): an id, or a text after its length.
Two(n) == <<n \div Byte, n % Byte>>
String(n) == Two(n) \o Text(n)

\* The digits of a length have one bit less than a byte.
Digit == Byte \div 2

Digits(rlength) ==
  IF rlength < Digit THEN <<rlength>> ELSE <<Digit + (rlength % Digit), rlength \div Digit>>

\* The codes of MQTT.h, 1 for CONNECT and so on.
Types == <<"CONNECT", "CONNACK", "PUBLISH", "PUBACK", "PUBREC", "PUBREL", "PUBCOMP",
           "SUBSCRIBE", "SUBACK", "UNSUBSCRIBE", "UNSUBACK", "PINGREQ", "PINGRESP", "DISCONNECT">>
TypeIn(byte) == Types[byte \div 16]
QosIn(byte) == (byte % 16) \div 2

\* Unsubscribe is constructed as a SUBSCRIBE and PublishComp as a PUBREC.
Type(m) ==
  CASE m.class = "UNSUBSCRIBE" -> "SUBSCRIBE"
    [] m.class = "PUBCOMP" -> "PUBREC"
    [] OTHER -> m.class

\* write_fixed_header(): the first byte, in its two halves, and the length.
Code(type) == CHOOSE n \in DOMAIN Types : Types[n] = type
Flags(type, m) ==
  CASE type = "PUBLISH" -> 2 * m.qos
    [] type \in {"PUBREL", "SUBSCRIBE", "UNSUBSCRIBE"} -> 2
    [] OTHER -> 0
FixedHeader(type, m, rlength) == <<16 * Code(type) + Flags(type, m)>> \o Digits(rlength)

HasWill(m) == m.will > 0
HasUser(m) == m.user > 0
HasPassword(m) == HasUser(m) /\ m.password > 0

\* The bits of the flags of a CONNECT that tell which texts follow.
Will == 4
User == 128
Password == 64
ConnectFlags(m) ==
  (IF HasWill(m) THEN Will ELSE 0) + (IF HasUser(m) THEN User ELSE 0)
  + (IF HasPassword(m) THEN Password ELSE 0)

\* Seeded fault: the password is written whenever there is one.
ConnectBody_AnyPassword(m) ==
  String(4) \o <<4, ConnectFlags(m)>>
  \o Two(m.keepalive) \o String(m.clientid)
  \o Optional(HasWill(m), String(m.will) \o String(m.message))
  \o Optional(HasUser(m), String(m.user)) \o Optional(m.password > 0, String(m.password))

ConnectBody(m) ==
  String(4) \o <<4, ConnectFlags(m)>>
  \o Two(m.keepalive) \o String(m.clientid)
  \o Optional(HasWill(m), String(m.will) \o String(m.message))
  \o Optional(HasUser(m), String(m.user) \o Optional(HasPassword(m), String(m.password)))

PublishBody(m) == String(m.topic) \o Optional(m.qos > 0, Two(m.id)) \o Text(m.payload)

\* add_topic(): a topic of a Subscribe is followed by its QoS.
TopicsBody(m) ==
  FlattenSeq([i \in 1..Len(m.topics) |->
                String(m.topics[i]) \o Optional(m.class = "SUBSCRIBE", <<m.qos>>)])

\* write_variable_header() and write_payload() of the classes; those of PublishAck,
\* Ping and Disconnect are empty.
Body(m) ==
  CASE m.class = "CONNECT" -> ConnectBody(m)
    [] m.class = "PUBLISH" -> PublishBody(m)
    [] m.class \in {"PUBREC", "PUBREL", "PUBCOMP"} -> Two(m.id)
    [] m.class \in {"SUBSCRIBE", "UNSUBSCRIBE"} -> Two(m.id) \o TopicsBody(m)
    [] OTHER -> <<>>

\* What is sent, with texts by their lengths.  What is of 16 bits fits in two bytes.
Ids == 0..(Byte * Byte - 1)
Publications == [class : {"PUBLISH"}, topic : Nat, qos : 0..2, id : Ids, payload : Nat]
OutTypes ==
  [class : {"CONNECT"}, clientid : Nat, will : Nat, message : Nat, user : Nat, password : Nat,
   keepalive : Ids]
  \cup Publications \cup [class : {"PUBACK", "PUBREC", "PUBREL", "PUBCOMP"}, id : Ids]
  \cup [class : {"SUBSCRIBE", "UNSUBSCRIBE"}, id : Ids, qos : 0..2, topics : Seq(Nat)]
  \cup [class : {"PINGREQ", "DISCONNECT"}]

ASSUME OutAssumption == OutMessages \subseteq OutTypes

\* send().  What does not fit in the buffer is written behind it; such messages are
\* not modelled.  The two directions do not touch, so they are taken one at a time.
Send ==
  /\ pc = "idle" /\ sent = <<>>
  /\ \E m \in OutMessages :
       /\ Len(Body(m)) <= Room
       /\ out' = [message |-> m, bytes |-> FixedHeader(Type(m), m, Len(Body(m))) \o Body(m)]
  /\ UNCHANGED <<wire, available, reader, sent, last>>

----------------------------------------------------------------------------
(* The broker and TCP                                                      *)

\* The packets of the broker are those of MQTT: the constructors of this library
\* for what arrives are the same for all acknowledgements.
Packet(m) ==
  CASE m.class = "PUBLISH" -> PublishBody(m)
    [] m.class = "CONNACK" -> <<0, m.rc>>
    [] m.class = "SUBACK"  -> Two(m.id) \o m.rcs
    [] m.class = "PINGRESP" -> <<>>
    [] OTHER -> Two(m.id)

\* Its lengths take two digits at most, and no SUBACK has as many codes as to need
\* them: there is one for a topic, and the topics were in one message of this client.
InTypes ==
  Publications \cup [class : {"CONNACK"}, rc : Nat] \cup [class : {"SUBACK"}, id : Ids, rcs : Seq(Nat)]
  \cup [class : {"PUBACK", "PUBREC", "PUBREL", "PUBCOMP", "UNSUBACK"}, id : Ids]
  \cup [class : {"PINGRESP"}]

ASSUME InAssumption ==
  /\ InMessages \subseteq InTypes
  /\ \A m \in InMessages : /\ Len(Packet(m)) < Digit * Digit
                           /\ m.class = "SUBACK" => Len(Packet(m)) < Byte

BrokerSends ==
  \E m \in InMessages :
    /\ Len(sent) < MaxQueue /\ pc \notin {"hung", "lost"}
    /\ sent' = Append(sent, m) /\ out' = NoMessage
    /\ wire' = wire \o FixedHeader(m.class, m, Len(Packet(m))) \o Packet(m)
    /\ UNCHANGED <<available, reader, last>>

Arrives ==
  \E n \in 1..Len(wire) :
    /\ available' = available \o SubSeq(wire, 1, n)
    /\ wire' = SubSeq(wire, n + 1, Len(wire))
    /\ UNCHANGED <<out, reader, sent, last>>

----------------------------------------------------------------------------
(* Reading                                                                 *)

TakesByte == available # <<>> /\ available' = Tail(available)

\* loop() and wait_for() look whether something is there, then readPacket() waits for
\* every byte of the fixed header.
ReadType ==
  /\ pc = "idle" /\ TakesByte
  /\ header' = Head(available)
  /\ pc' = "length" /\ length' = 0 /\ shift' = 1
  /\ last' = NothingRead
  /\ UNCHANGED <<out, wire, data, left, torn, sent>>

DigitOf(byte) == byte % Digit

ReadDigit ==
  /\ pc = "length" /\ TakesByte
  /\ length' = length + DigitOf(Head(available)) * shift
  /\ shift' = shift * Digit
  /\ pc' = IF Head(available) >= Digit THEN "length" ELSE "body"
  /\ data' = <<>> /\ left' = length' /\ torn' = FALSE
  /\ UNCHANGED <<out, wire, header, sent, last>>

\* One client.read() takes what is there, and every one writes to the beginning of
\* remaining_data: what comes in pieces is not kept.
ReadBody ==
  LET n == Min({left, Len(available)})
  IN  /\ pc = "body" /\ n > 0
      /\ torn' = (torn \/ n < left)
      /\ data' = IF torn' THEN <<>> ELSE SubSeq(available, 1, n)
      /\ available' = SubSeq(available, n + 1, Len(available))
      /\ left' = left - n
      /\ UNCHANGED <<out, wire, pc, header, length, shift, sent, last>>

TwoAt(bytes, pos) == bytes[pos] * Byte + bytes[pos + 1]

\* read<uint8_t>() and read<uint16_t>() at pos, which is a uint8_t and counts from 0:
\* the beginning of the data follows its last value.
ByteAt(bytes, pos) == bytes[(pos % Byte) + 1]
NumberAt(bytes, pos) == ByteAt(bytes, pos) * Byte + ByteAt(bytes, pos + 1)

\* Where a topic and an id end.
Behind(topic, qos) == 2 + topic + IF qos > 0 THEN 2 ELSE 0

\* Seeded fault: the id is not skipped.
PayloadStart_NoId(topic, qos) == (2 + topic) % Byte

PayloadStart(topic, qos) == Behind(topic, qos) % Byte

\* The constructors: their length is a uint8_t.
Message(bytes) ==
  LET type == TypeIn(header)
      qos  == QosIn(header)
      size == length % Byte
  IN  CASE type = "PUBLISH" ->
             LET topic == NumberAt(bytes, 0)
                 pos   == PayloadStart(topic, qos)
                 n     == (size - pos) % Byte
             IN  [class |-> type, qos |-> qos,
                  topic |-> [i \in 1..topic |-> ByteAt(bytes, 1 + i)],
                  id |-> IF qos > 0 THEN NumberAt(bytes, topic + 2) ELSE 0,
                  payload |-> SubSeq(bytes, pos + 1, pos + n)]
        [] type = "CONNACK" -> [class |-> type, rc |-> bytes[2]]
        [] type = "SUBACK" -> [class |-> type, id |-> TwoAt(bytes, 1), rcs |-> SubSeq(bytes, 3, size)]
        [] type = "PINGRESP" -> [class |-> type]
        [] OTHER -> [class |-> type, id |-> TwoAt(bytes, 1)]

\* A topic is copied by a uint8_t that counts up to its length.
Hangs(bytes) == TypeIn(header) = "PUBLISH" /\ TwoAt(bytes, 1) >= Byte

\* Seeded fault: an empty body is waited for.
ReadEnds_NotEmpty ==
  /\ pc = "body" /\ length > 0 /\ (left = 0 \/ available = <<>>)
  /\ sent' = Tail(sent) /\ pc' = IF left > 0 THEN "lost" ELSE "idle"
  /\ last' = NothingRead
  /\ data' = <<>> /\ left' = 0 /\ torn' = FALSE /\ length' = 0 /\ shift' = 1
  /\ UNCHANGED <<out, wire, available, header>>

\* Nothing is there, or everything has been read: the message is made of what data
\* holds.  What was torn holds what was in memory before, too.
ReadEnds ==
  /\ pc = "body" /\ (left = 0 \/ available = <<>>)
  /\ sent' = Tail(sent)
  /\ IF left > 0 THEN pc' = "lost" /\ UNCHANGED last
     ELSE IF torn THEN pc' \in {"idle", "hung"} /\ UNCHANGED last
     ELSE IF Hangs(data) THEN pc' = "hung" /\ UNCHANGED last
     ELSE pc' = "idle" /\ last' = [sent |-> Head(sent), read |-> Message(data)]
  /\ data' = <<>> /\ left' = 0 /\ torn' = FALSE /\ length' = 0 /\ shift' = 1
  /\ UNCHANGED <<out, wire, available, header>>

Read == ReadType \/ ReadDigit \/ ReadBody \/ ReadEnds

----------------------------------------------------------------------------
Init ==
  /\ out = NoMessage
  /\ wire = <<>> /\ available = <<>> /\ sent = <<>>
  /\ pc = "idle" /\ header = 0 /\ length = 0 /\ shift = 1
  /\ data = <<>> /\ left = 0 /\ torn = FALSE
  /\ last = NothingRead

Next == Send \/ BrokerSends \/ Arrives \/ Read

Spec == Init /\ [][Next]_vars

\* What is on its way arrives, and the program reads.
FairSpec == Spec /\ WF_vars(Arrives) /\ WF_vars(Read)

----------------------------------------------------------------------------
TypeOK ==
  /\ pc \in {"idle", "length", "body", "hung", "lost"}
  /\ length \in 0..(Byte * Digit - 1) /\ left \in 0..length /\ torn \in BOOLEAN
  /\ Len(data) <= length /\ Len(sent) <= MaxQueue

\* The rest of a packet behind its length, for one or two digits.
Rest(bytes) == SubSeq(bytes, IF bytes[2] >= Digit THEN 4 ELSE 3, Len(bytes))

LengthSent(bytes) ==
  IF bytes[2] >= Digit THEN bytes[2] - Digit + Digit * bytes[3] ELSE bytes[2]

\* Where n texts and what follows them begin, for who goes by their lengths from one
\* to the next.
Starts(bytes, start, behind, n) ==
  LET at[i \in 1..(n + 1)] ==
        IF i = 1 THEN start ELSE at[i - 1] + 2 + TwoAt(bytes, at[i - 1]) + Len(behind)
  IN  at

\* He finds these, with the same bytes behind each of them, and nothing else.
AreTexts(bytes, start, behind, texts) ==
  LET n  == Len(texts)
      at == Starts(bytes, start, behind, n)
  IN  /\ at[n + 1] = Len(bytes) + 1
      /\ \A i \in 1..n : SubSeq(bytes, at[i] + 2, at[i + 1] - 1) = texts[i] \o behind

IsSet(flags, bit) == (flags \div bit) % 2 = 1

\* What MQTT tells a broker of a body is what the application put in.
Understood(m, qos, body) ==
  CASE m.class = "CONNECT" ->
         /\ IsSet(body[8], Will) <=> m.will > 0
         /\ IsSet(body[8], User) <=> m.user > 0
         /\ IsSet(body[8], Password) <=> m.user > 0 /\ m.password > 0
         /\ TwoAt(body, 9) = m.keepalive
         /\ AreTexts(body, 11, <<>>,
              <<Text(m.clientid)>> \o Optional(m.will > 0, <<Text(m.will), Text(m.message)>>)
              \o Optional(m.user > 0,
                          <<Text(m.user)>> \o Optional(m.password > 0, <<Text(m.password)>>)))
    [] m.class = "PUBLISH" ->
         LET start == m.topic + 3 + IF qos > 0 THEN 2 ELSE 0
         IN  /\ qos = m.qos /\ TwoAt(body, 1) = m.topic
             /\ SubSeq(body, 3, m.topic + 2) = Text(m.topic)
             /\ qos > 0 => TwoAt(body, m.topic + 3) = m.id
             /\ SubSeq(body, start, Len(body)) = Text(m.payload)
    [] m.class = "SUBSCRIBE" ->
         /\ TwoAt(body, 1) = m.id
         /\ AreTexts(body, 3, <<m.qos>>, [i \in 1..Len(m.topics) |-> Text(m.topics[i])])
    [] m.class \in {"PUBREC", "PUBREL"} -> TwoAt(body, 1) = m.id
    [] OTHER -> body = <<>>

\* A broker that reads a message as MQTT tells it to finds in it what the
\* application put in, and all of it; but an Unsubscribe, a PublishComp and a
\* PublishAck are not what they are named.
SentIsUnderstood ==
  LET m == out.message  bytes == out.bytes  body == Rest(bytes)
  IN  m.class \notin {"NONE", "UNSUBSCRIBE", "PUBCOMP", "PUBACK"} =>
        /\ TypeIn(bytes[1]) = m.class /\ LengthSent(bytes) = Len(body)
        /\ Understood(m, QosIn(bytes[1]), body)

\* A message whose body came in one piece is read as it was sent: topic and id as far
\* as they end within the positions of a uint8_t; when the position behind them is
\* still one, so much of the payload as the rest of its length by 256 tells.
ReadAsSent ==
  LET m == last.sent  r == last.read
  IN  /\ r.class = m.class
      /\ m.class = "PUBLISH" =>
           /\ r.qos = m.qos
           /\ Behind(m.topic, 0) <= Byte => r.topic = Text(m.topic)
           /\ m.qos > 0 /\ Behind(m.topic, m.qos) <= Byte => r.id = m.id
           /\ Behind(m.topic, m.qos) < Byte => r.payload = Text(m.payload % Byte)
      /\ m.class \in {"CONNACK", "SUBACK", "PUBACK", "PUBREC", "PUBREL", "PUBCOMP"} => r = m

\* While packets are waiting one after the other is read, unless the program hangs
\* or has lost its place.
ReadInTheEnd ==
  <>[](sent # <<>>) => <>(pc \in {"hung", "lost"}) \/ []<><<ReadEnds>>_vars
=============================================================================
