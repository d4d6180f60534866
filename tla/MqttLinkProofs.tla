--------------------------- MODULE MqttLinkProofs ---------------------------
(* Type correctness of the connection, for the proofs about both clients.    *)
EXTENDS MqttLink, SequenceTheorems, FiniteSetTheorems, FunctionTheorems, TLAPS

\* What the proofs below need of the constants.
LEMMA LinkConstants ==
  /\ SilenceCap \in Nat
  /\ BrokerQos \subseteq 0..2
  /\ BrokerFits \subseteq BOOLEAN
  /\ \A rc \in {0} \cup RefusalCodes : rc \in 0..5
  /\ \A id \in MsgIds \cup {0} : id \in Nat
BY LinkAssumption DEF LinkAssumption

\* The packet constructors build packets.
LEMMA PacketsTyped ==
  /\ \A t \in PacketTypes, id \in Nat : WithId(t, id) \in Packet
  /\ \A t \in PacketTypes : Ctl(t) \in Packet
  /\ \A rc \in 0..5 : ConnAck(rc) \in Packet
  /\ \A id \in Nat, q \in 0..2, f \in BOOLEAN : Publication(id, q, f) \in Packet
BY DEF Packet, PacketTypes, WithId, Ctl, ConnAck, Publication

LEMMA CutTyped ==
  ASSUME NEW p \in Packet
  PROVE  Cut(p) \in Packet
BY DEF Packet, Cut

\* A write adds packets to the broker's queue, or none.
LEMMA SentTyped ==
  ASSUME toBroker \in Seq(Packet), NEW ps \in Seq(Packet)
  PROVE  Sent(ps) \in Seq(Packet)
BY ConcatProperties DEF Sent

\* The broker's answers are packets.
LEMMA ReplyTyped ==
  ASSUME NEW p \in Packet
  PROVE  Reply(p) \in Seq(Packet)
<1>1. p.id \in Nat
  BY DEF Packet
<1>2. /\ <<>> \in Seq(Packet)
      /\ \A t \in PacketTypes : <<WithId(t, p.id)>> \in Seq(Packet)
      /\ \A t \in PacketTypes : <<Ctl(t)>> \in Seq(Packet)
  BY <1>1, PacketsTyped
<1>3. {"PINGRESP", "SUBACK", "UNSUBACK", "PUBACK", "PUBREC", "PUBCOMP", "PUBREL"}
        \subseteq PacketTypes
  BY DEF PacketTypes
<1> QED
  BY <1>2, <1>3 DEF Reply

\* The client's calls leave a well-typed connection behind.
LEMMA StopTyped ==
  ASSUME Stop
  PROVE  LinkTypeOK'
<1>1. (toClient \in Seq(Packet) /\ toBroker \in Seq(Packet))'
  BY DEF Stop
<1>2. (silence \in 0..SilenceCap)'
  BY LinkAssumption DEF Stop, LinkAssumption
<1> QED
  BY <1>1, <1>2 DEF Stop, LinkTypeOK

LEMMA OpenTyped ==
  ASSUME OpenWith(Ctl("CONNECT"))
  PROVE  LinkTypeOK'
<1>1. (toClient \in Seq(Packet))'
  BY DEF OpenWith
<1>2. (toBroker \in Seq(Packet))'
  BY PacketsTyped DEF OpenWith, PacketTypes
<1>3. (silence \in 0..SilenceCap)'
  BY LinkAssumption DEF OpenWith, LinkAssumption
<1> QED
  BY <1>1, <1>2, <1>3 DEF OpenWith, LinkTypeOK

\* So do the broker and the network.
LEMMA LinkNextTyped == LinkTypeOK /\ LinkNext => LinkTypeOK'
<1> SUFFICES ASSUME LinkTypeOK, LinkNext
             PROVE  LinkTypeOK'
  OBVIOUS
<1>1. CASE BrokerReceive
  <2> DEFINE p == Head(toBroker)
  <2>1. p \in Packet /\ Tail(toBroker) \in Seq(Packet)
    BY <1>1, HeadTailProperties DEF BrokerReceive, LinkTypeOK
  <2>2. \A rc \in {0} \cup RefusalCodes : Append(toClient, ConnAck(rc)) \in Seq(Packet)
    BY PacketsTyped, LinkConstants DEF LinkTypeOK
  <2>3. toClient \o Reply(p) \in Seq(Packet)
    BY <2>1, ReplyTyped, ConcatProperties DEF LinkTypeOK
  <2> HIDE DEF p
  <2>4. CASE UNCHANGED toClient /\ Drop
    BY <2>4 DEF Drop, LinkTypeOK
  <2>5. CASE /\ session = "awaiting" /\ p.type = "CONNECT"
             /\ \E rc \in {0} \cup RefusalCodes :
                  /\ session' = IF rc = 0 THEN "accepted" ELSE "refused"
                  /\ toClient' = Append(toClient, ConnAck(rc))
             /\ toBroker' = Tail(toBroker) /\ brokerBusy' = 0 /\ silence' = 0
             /\ UNCHANGED <<tcp, unacked, hung>>
    BY <2>5, <2>1, <2>2, LinkConstants DEF LinkTypeOK
  <2>6. CASE /\ toClient' = toClient \o Reply(p)
             /\ unacked' = IF p.type \in {"PUBACK", "PUBCOMP"} THEN unacked \ {p.id} ELSE unacked
             /\ toBroker' = Tail(toBroker) /\ brokerBusy' = 0 /\ silence' = 0
             /\ UNCHANGED <<tcp, session, hung>>
    BY <2>6, <2>1, <2>3, LinkConstants DEF LinkTypeOK
  <2> QED
    BY <1>1, <2>4, <2>5, <2>6 DEF BrokerReceive, p
<1>2. CASE BrokerPublish
  <2>1. \A id \in MsgIds \cup {0}, q \in 0..2, f \in BOOLEAN :
          Append(toClient, Publication(id, q, f)) \in Seq(Packet)
    BY PacketsTyped, LinkConstants DEF LinkTypeOK
  <2>2. PICK q \in BrokerQos, f \in BrokerFits :
          \/ toClient' = Append(toClient, Publication(0, 0, f)) /\ UNCHANGED unacked
          \/ \E id \in MsgIds : /\ toClient' = Append(toClient, Publication(id, q, f))
                              /\ unacked' = unacked \cup {id}
    BY <1>2 DEF BrokerPublish
  <2>3. q \in 0..2 /\ f \in BOOLEAN /\ 0 \in 0..2
    BY <2>2, LinkConstants
  <2>4. (toClient \in Seq(Packet))'
    BY <2>1, <2>2, <2>3
  <2>5. (unacked \subseteq MsgIds)'
    BY <2>2 DEF LinkTypeOK
  <2> QED
    BY <1>2, <2>4, <2>5 DEF BrokerPublish, LinkTypeOK
<1>3. CASE BrokerPing
  <2>1. Append(toClient, Ctl("PINGREQ")) \in Seq(Packet)
    BY PacketsTyped DEF LinkTypeOK, PacketTypes
  <2> QED
    BY <1>3, <2>1 DEF BrokerPing, LinkTypeOK
<1>4. CASE BrokerHangs
  <2>1. (toClient \in Seq(Packet) /\ toBroker \in Seq(Packet))'
    BY <1>4 DEF BrokerHangs, LinkTypeOK
  <2> QED
    BY <1>4, <2>1 DEF BrokerHangs, LinkTypeOK
<1>5. CASE LinkDown
  <2>1. \A k \in 0..Len(toClient) : SubSeq(toClient, 1, k) \in Seq(Packet)
    BY DEF LinkTypeOK
  <2>2. ASSUME NEW k \in 0..Len(toClient), k < Len(toClient)
        PROVE  Append(SubSeq(toClient, 1, k), Cut(toClient[k + 1])) \in Seq(Packet)
    <3>1. toClient[k + 1] \in Packet
      BY <2>2 DEF LinkTypeOK
    <3> QED
      BY <2>1, <3>1, CutTyped
  <2> QED
    <3>1. PICK k \in 0..Len(toClient) :
            \/ toClient' = SubSeq(toClient, 1, k)
            \/ k < Len(toClient) /\ toClient' = Append(SubSeq(toClient, 1, k), Cut(toClient[k + 1]))
      BY <1>5 DEF LinkDown
    <3>2. (toClient \in Seq(Packet))'
      BY <3>1, <2>1, <2>2
    <3>3. (toBroker \in Seq(Packet))'
      BY <1>5 DEF LinkDown, Drop
    <3> QED
      BY <1>5, <3>2, <3>3 DEF LinkDown, Drop, LinkTypeOK
<1> QED
  BY <1>1, <1>2, <1>3, <1>4, <1>5 DEF LinkNext

LEMMA LinkTickTyped == LinkTypeOK /\ LinkTick => LinkTypeOK'
BY LinkConstants DEF LinkTypeOK, LinkTick

----------------------------------------------------------------------------
(* What is in a queue, after the steps that change one.                    *)

Members(q) == {q[i] : i \in DOMAIN q}

LEMMA MembersTyped ==
  ASSUME NEW q \in Seq(Packet)
  PROVE  Members(q) \subseteq Packet
BY DEF Members

LEMMA MembersOfEmpty == Members(<<>>) = {}
BY DEF Members

LEMMA MembersOfTail ==
  ASSUME NEW q \in Seq(Packet), q # <<>>
  PROVE  Members(q) = {Head(q)} \cup Members(Tail(q))
<1>1. /\ Len(q) \in Nat \ {0} /\ DOMAIN q = 1..Len(q) /\ Head(q) = q[1]
      /\ DOMAIN Tail(q) = 1..(Len(q) - 1)
      /\ \A i \in 1..(Len(q) - 1) : Tail(q)[i] = q[i + 1]
  BY HeadTailProperties, LenProperties, EmptySeq
<1>2. ASSUME NEW i \in DOMAIN q PROVE q[i] \in {Head(q)} \cup Members(Tail(q))
  <2>1. CASE i = 1
    BY <1>1, <2>1
  <2>2. CASE i # 1
    <3>1. i - 1 \in DOMAIN Tail(q) /\ Tail(q)[i - 1] = q[i]
      BY <1>1, <2>2
    <3> QED
      BY <3>1 DEF Members
  <2> QED
    BY <2>1, <2>2
<1>3. ASSUME NEW i \in DOMAIN Tail(q) PROVE Tail(q)[i] \in Members(q)
  <2>1. i + 1 \in DOMAIN q /\ Tail(q)[i] = q[i + 1]
    BY <1>1
  <2> QED
    BY <2>1 DEF Members
<1>4. Head(q) \in Members(q)
  BY <1>1 DEF Members
<1> QED
  BY <1>2, <1>3, <1>4 DEF Members

LEMMA MembersOfConcat ==
  ASSUME NEW q \in Seq(Packet), NEW r \in Seq(Packet)
  PROVE  Members(q \o r) = Members(q) \cup Members(r)
<1>1. /\ Len(q) \in Nat /\ Len(r) \in Nat
      /\ DOMAIN q = 1..Len(q) /\ DOMAIN r = 1..Len(r)
      /\ DOMAIN (q \o r) = 1..(Len(q) + Len(r))
      /\ \A i \in 1..(Len(q) + Len(r)) :
           (q \o r)[i] = IF i <= Len(q) THEN q[i] ELSE r[i - Len(q)]
  BY ConcatProperties, LenProperties
<1>2. ASSUME NEW i \in DOMAIN (q \o r) PROVE (q \o r)[i] \in Members(q) \cup Members(r)
  <2>1. CASE i <= Len(q)
    <3>1. i \in DOMAIN q /\ (q \o r)[i] = q[i]
      BY <1>1, <2>1
    <3> QED
      BY <3>1 DEF Members
  <2>2. CASE i > Len(q)
    <3>1. i - Len(q) \in DOMAIN r /\ (q \o r)[i] = r[i - Len(q)]
      BY <1>1, <2>2
    <3> QED
      BY <3>1 DEF Members
  <2> QED
    BY <1>1, <2>1, <2>2
<1>3. ASSUME NEW i \in DOMAIN q PROVE q[i] \in Members(q \o r)
  <2>1. i \in DOMAIN (q \o r) /\ (q \o r)[i] = q[i]
    BY <1>1
  <2> QED
    BY <2>1 DEF Members
<1>4. ASSUME NEW i \in DOMAIN r PROVE r[i] \in Members(q \o r)
  <2>1. Len(q) + i \in DOMAIN (q \o r) /\ (q \o r)[Len(q) + i] = r[i]
    BY <1>1
  <2> QED
    BY <2>1 DEF Members
<1> QED
  BY <1>2, <1>3, <1>4 DEF Members

LEMMA MembersOfOne == \A p : Members(<<p>>) = {p}
BY DEF Members

LEMMA MembersOfAppend ==
  ASSUME NEW q \in Seq(Packet), NEW p \in Packet
  PROVE  Members(Append(q, p)) = Members(q) \cup {p}
<1>1. Append(q, p) = q \o <<p>> /\ <<p>> \in Seq(Packet)
  BY AppendIsConcat
<1> QED
  BY <1>1, MembersOfConcat, MembersOfOne

LEMMA MembersOfPrefix ==
  ASSUME NEW q \in Seq(Packet), NEW k \in 0..Len(q)
  PROVE  SubSeq(q, 1, k) \in Seq(Packet) /\ Members(SubSeq(q, 1, k)) \subseteq Members(q)
<1>1. /\ Len(q) \in Nat /\ DOMAIN q = 1..Len(q) /\ \A i \in 1..k : q[i] \in Packet
  BY LenProperties, ElementOfSeq
<1>2. /\ SubSeq(q, 1, k) \in Seq(Packet)
      /\ Len(SubSeq(q, 1, k)) = k
      /\ \A i \in 1..k : SubSeq(q, 1, k)[i] = q[i]
  BY <1>1, SubSeqProperties
<1>3. ASSUME NEW i \in DOMAIN SubSeq(q, 1, k) PROVE SubSeq(q, 1, k)[i] \in Members(q)
  <2>1. i \in DOMAIN q /\ SubSeq(q, 1, k)[i] = q[i]
    BY <1>1, <1>2, LenProperties
  <2> QED
    BY <2>1 DEF Members
<1> QED
  BY <1>2, <1>3 DEF Members

LEMMA CutIsCut ==
  ASSUME NEW p \in Packet
  PROVE  Cut(p).cut = TRUE
BY DEF Cut, Packet

\* What a dying connection leaves are packets that were there, the last one
\* possibly cut in two.
LEMMA MembersLeftBehind ==
  ASSUME LinkTypeOK, LinkDown
  PROVE  \A p \in Members(toClient') : p \in Members(toClient) \/ p.cut
<1>1. PICK k \in 0..Len(toClient) :
        \/ toClient' = SubSeq(toClient, 1, k)
        \/ k < Len(toClient) /\ toClient' = Append(SubSeq(toClient, 1, k), Cut(toClient[k + 1]))
  BY DEF LinkDown
<1>2. /\ SubSeq(toClient, 1, k) \in Seq(Packet)
      /\ Members(SubSeq(toClient, 1, k)) \subseteq Members(toClient)
  BY MembersOfPrefix DEF LinkTypeOK
<1>3. CASE toClient' = SubSeq(toClient, 1, k)
  BY <1>2, <1>3
<1>4. CASE k < Len(toClient) /\ toClient' = Append(SubSeq(toClient, 1, k), Cut(toClient[k + 1]))
  <2>1. toClient[k + 1] \in Packet
    BY <1>4, ElementOfSeq DEF LinkTypeOK
  <2> DEFINE c == Cut(toClient[k + 1])
  <2>2. c \in Packet /\ c.cut
    BY <2>1, CutTyped, CutIsCut
  <2>3. toClient' = Append(SubSeq(toClient, 1, k), c)
    BY <1>4
  <2> HIDE DEF c
  <2>4. Members(toClient') = Members(SubSeq(toClient, 1, k)) \cup {c}
    BY <1>2, <2>2, <2>3, MembersOfAppend
  <2> QED
    BY <1>2, <2>2, <2>4
<1> QED
  BY <1>1, <1>3, <1>4

----------------------------------------------------------------------------
(* Counting the packets of a kind in a queue.                              *)

Places(q, K) == {i \in DOMAIN q : q[i] \in K}
Number(q, K) == Cardinality(Places(q, K))

LEMMA NumberTyped ==
  ASSUME NEW q \in Seq(Packet), NEW K
  PROVE  IsFiniteSet(Places(q, K)) /\ Number(q, K) \in Nat
         /\ Number(q, K) = Cardinality(Places(q, K))
<1>1. Len(q) \in Nat /\ DOMAIN q = 1..Len(q)
  BY LenProperties
<1>2. IsFiniteSet(1..Len(q)) /\ Places(q, K) \in SUBSET (1..Len(q))
  BY <1>1, FS_Interval DEF Places
<1>3. IsFiniteSet(Places(q, K))
  BY <1>2, FS_Subset
<1> QED
  BY <1>3, FS_CardinalityType DEF Number, Places

LEMMA NumberOfEmpty == \A K : Number(<<>>, K) = 0
<1>1. \A K : Places(<<>>, K) = {}
  BY DEF Places
<1> QED
  BY <1>1, FS_EmptySet DEF Number

LEMMA NumberOfAppend ==
  ASSUME NEW q \in Seq(Packet), NEW p \in Packet, NEW K
  PROVE  Number(Append(q, p), K) = Number(q, K) + (IF p \in K THEN 1 ELSE 0)
<1>1. /\ Len(q) \in Nat /\ DOMAIN q = 1..Len(q)
      /\ Append(q, p) \in Seq(Packet) /\ DOMAIN Append(q, p) = 1..(Len(q) + 1)
      /\ \A i \in 1..Len(q) : Append(q, p)[i] = q[i]
      /\ Append(q, p)[Len(q) + 1] = p
  BY AppendProperties, LenProperties
<1>2. Places(Append(q, p), K)
        = IF p \in K THEN Places(q, K) \cup {Len(q) + 1} ELSE Places(q, K)
  <2>1. ASSUME NEW i \in 1..(Len(q) + 1)
        PROVE  i \in 1..Len(q) \/ i = Len(q) + 1
    BY <1>1
  <2>2. Len(q) + 1 \notin 1..Len(q) /\ Len(q) + 1 \in 1..(Len(q) + 1) /\ 1..Len(q) \subseteq 1..(Len(q) + 1)
    BY <1>1
  <2> QED
    BY <1>1, <2>1, <2>2 DEF Places
<1>3. Len(q) + 1 \notin Places(q, K)
  BY <1>1 DEF Places
<1>4. IsFiniteSet(Places(q, K)) /\ Number(q, K) \in Nat
      /\ Number(q, K) = Cardinality(Places(q, K))
      /\ Number(Append(q, p), K) = Cardinality(Places(Append(q, p), K))
  BY <1>1, NumberTyped
<1>5. Cardinality(Places(q, K) \cup {Len(q) + 1}) = Cardinality(Places(q, K)) + 1
  BY <1>3, <1>4, FS_AddElement
<1> QED
  BY <1>2, <1>4, <1>5

LEMMA NumberOfTail ==
  ASSUME NEW q \in Seq(Packet), q # <<>>, NEW K
  PROVE  Number(q, K) = Number(Tail(q), K) + (IF Head(q) \in K THEN 1 ELSE 0)
<1> DEFINE here == Places(q, K)
           rest == Places(Tail(q), K)
           f    == [i \in rest |-> i + 1]
<1>1. /\ Len(q) \in Nat \ {0} /\ DOMAIN q = 1..Len(q) /\ Head(q) = q[1]
      /\ Tail(q) \in Seq(Packet) /\ DOMAIN Tail(q) = 1..(Len(q) - 1)
      /\ \A i \in 1..(Len(q) - 1) : Tail(q)[i] = q[i + 1]
  BY HeadTailProperties, LenProperties, EmptySeq
<1>2. /\ IsFiniteSet(here) /\ Number(q, K) = Cardinality(here)
      /\ IsFiniteSet(rest) /\ Number(Tail(q), K) = Cardinality(rest) /\ Cardinality(rest) \in Nat
      /\ Cardinality(here) \in Nat
  BY <1>1, NumberTyped
<1>3. f \in Bijection(rest, here \ {1})
  <2>1. ASSUME NEW i \in rest PROVE i + 1 \in here \ {1} /\ i \in Nat
    <3>1. i \in 1..(Len(q) - 1) /\ q[i + 1] \in K
      BY <1>1 DEF Places
    <3> QED
      BY <1>1, <3>1 DEF Places
  <2>2. f \in [rest -> here \ {1}]
    BY <2>1
  <2>3. \A a, b \in rest : f[a] = f[b] => a = b
    BY <2>1
  <2>4. ASSUME NEW j \in here \ {1} PROVE \E i \in rest : f[i] = j
    <3>1. j \in 2..Len(q) /\ q[j] \in K
      BY <1>1 DEF Places
    <3>2. j - 1 \in rest /\ (j - 1) + 1 = j
      BY <1>1, <3>1 DEF Places
    <3> QED
      BY <3>2
  <2> QED
    BY <2>2, <2>3, <2>4, Fun_IsBij
<1>4. Cardinality(here \ {1}) = Cardinality(rest)
  BY <1>2, <1>3, FS_Bijection, Fun_ExistsBij
<1>5. Cardinality(here \ {1}) = IF 1 \in here THEN Cardinality(here) - 1 ELSE Cardinality(here)
  BY <1>2, FS_RemoveElement
<1>6. 1 \in here <=> Head(q) \in K
  BY <1>1 DEF Places
<1> QED
  BY <1>2, <1>4, <1>5, <1>6

\* What is added behind a queue: nothing, a packet or two.
LEMMA NumberOfOne ==
  ASSUME NEW q \in Seq(Packet), NEW p \in Packet, NEW K
  PROVE  Number(q \o <<p>>, K) = Number(q, K) + (IF p \in K THEN 1 ELSE 0)
<1>1. Append(q, p) = q \o <<p>>
  BY AppendIsConcat
<1>2. Number(Append(q, p), K) = Number(q, K) + (IF p \in K THEN 1 ELSE 0)
  BY NumberOfAppend
<1> QED
  BY <1>1, <1>2, Zenon
=============================================================================
