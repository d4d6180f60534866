--------------------------- MODULE MqttWireProofs ---------------------------
(* What TLAPS proves of the messages as bytes, for every set of messages    *)
(* and every width of a byte: wherever the stream is cut, what is read of a *)
(* packet that came in one piece is what was sent; and what is written of a *)
(* message is what it is, to who reads it as MQTT tells.                    *)
EXTENDS MqttWire, SequenceTheorems, WellFoundedInduction, TLAPS

----------------------------------------------------------------------------
(* Numbers.                                                                *)

LEMMA Constants ==
  /\ Byte \in Nat /\ Byte > 6 /\ Digit \in Nat /\ Digit > 2 /\ Byte = 2 * Digit /\ MaxQueue \in Nat
  /\ InMessages \subseteq InTypes
BY WireAssumption, InAssumption DEF WireAssumption, InAssumption, Digit

LEMMA TimesGrows ==
  \A q \in Int, b \in Nat : /\ q >= 1 => q * b >= b
                            /\ q <= -1 => q * b <= -b
                            /\ q >= 0 => q * b >= 0
OBVIOUS

LEMMA Division ==
  ASSUME NEW n \in Int, NEW b \in Nat, b > 0
  PROVE  /\ n \div b \in Int /\ n % b \in 0..(b - 1) /\ n = (n \div b) * b + (n % b)
         /\ n >= 0 => n \div b >= 0
<1>1. n \div b \in Int /\ n % b \in 0..(b - 1) /\ n = (n \div b) * b + (n % b)
  OBVIOUS
<1> DEFINE q == n \div b
<1>2. q \in Int /\ n < q * b + b
  BY <1>1
<1> HIDE DEF q
<1>3. ASSUME n >= 0, q <= -1 PROVE FALSE
  BY <1>2, <1>3, TimesGrows
<1> QED
  BY <1>1, <1>2, <1>3 DEF q

LEMMA OneRemainder ==
  ASSUME NEW b \in Nat, b > 0, NEW q \in Int, NEW r \in 0..(b - 1)
  PROVE  (q * b + r) % b = r /\ (q * b + r) \div b = q
<1> DEFINE n == q * b + r
           p == n \div b
<1>1. n \in Int /\ p \in Int /\ n % b \in 0..(b - 1) /\ n = p * b + (n % b)
  BY Division
<1>2. (q - p) * b = (n % b) - r
  BY <1>1
<1>3. q - p \in Int /\ ((n % b) - r) < b /\ ((n % b) - r) > -b
  BY <1>1
<1> HIDE DEF p, n
<1>4. ~(q - p >= 1) /\ ~(q - p <= -1)
  BY <1>2, <1>3, TimesGrows
<1>5. q = p
  BY <1>1, <1>3, <1>4
<1>6. n % b = r
  BY <1>1, <1>2, <1>5
<1> QED
  BY <1>5, <1>6 DEF n, p

LEMMA RemainderIs ==
  ASSUME NEW b \in Nat, b > 0, NEW n \in Nat
  PROVE  n % b \in 0..n
<1> DEFINE q == n \div b
           r == n % b
<1>1. q \in Int /\ q >= 0 /\ r \in 0..(b - 1) /\ n = q * b + r
  BY Division
<1> HIDE DEF q, r
<1>2. q * b >= 0
  BY <1>1, TimesGrows
<1>3. PICK p \in Int : p = q * b
  BY <1>1
<1>4. r \in 0..n
  BY <1>1, <1>2, <1>3
<1> QED
  BY <1>4 DEF r

\* A length that has lost its higher part still tells the size of a part, to the
\* same precision.
LEMMA PartOfLength ==
  ASSUME NEW b \in Nat, b > 0, NEW n \in Nat, NEW pos \in Nat
  PROVE  (((pos + n) % b) - pos) % b = n % b
<1> DEFINE q == (pos + n) \div b
           k == n \div b
<1>1. q \in Int /\ (pos + n) % b \in Int /\ pos + n = q * b + ((pos + n) % b)
  BY Division
<1>2. k \in Int /\ n % b \in 0..(b - 1) /\ n = k * b + (n % b)
  BY Division
<1> HIDE DEF q, k
<1>3. ((pos + n) % b) - pos = (k - q) * b + (n % b)
  <2>1. PICK x \in Int, y \in Int : x = (pos + n) % b /\ y = n % b
    BY <1>1, <1>2
  <2>2. PICK u \in Int, v \in Int : u = q * b /\ v = k * b
    BY <1>1, <1>2
  <2>3. x - pos = v - u + y
    BY <1>1, <1>2, <2>1, <2>2
  <2>4. (k - q) * b = v - u
    BY <1>1, <1>2, <2>2
  <2> QED
    BY <2>1, <2>3, <2>4
<1>4. k - q \in Int
  BY <1>1, <1>2
<1>5. (((k - q) * b + (n % b)) % b) = n % b
  BY <1>2, <1>4, OneRemainder, Zenon
<1> QED
  BY <1>3, <1>5, Zenon

\* The digits of a length: what the reader makes of them.
LEMMA DigitsRead ==
  ASSUME NEW L \in Nat, L < Digit * Digit
  PROVE  /\ L < Digit => Digits(L) = <<L>> /\ DigitOf(L) = L
         /\ L >= Digit => /\ Digits(L) = <<Digit + (L % Digit), L \div Digit>>
                          /\ Digit + (L % Digit) >= Digit /\ L % Digit \in Nat
                          /\ DigitOf(Digit + (L % Digit)) = L % Digit
                          /\ L \div Digit \in Nat /\ L \div Digit < Digit
                          /\ DigitOf(L \div Digit) = L \div Digit
                          /\ (L % Digit) + (L \div Digit) * Digit = L
<1>1. /\ L \div Digit \in Int /\ L \div Digit >= 0 /\ L % Digit \in 0..(Digit - 1)
      /\ L = (L \div Digit) * Digit + (L % Digit)
  BY Division, Constants
<1>2. \A r \in 0..(Digit - 1) : r % Digit = r
  <2>1. \A r \in 0..(Digit - 1) : (0 * Digit + r) % Digit = r
    BY OneRemainder, Constants
  <2> QED
    BY <2>1, Constants
<1>3. \A r \in 0..(Digit - 1) : (Digit + r) % Digit = r
  <2>1. \A r \in 0..(Digit - 1) : (1 * Digit + r) % Digit = r
    BY OneRemainder, Constants
  <2> QED
    BY <2>1, Constants
<1>4. L \div Digit < Digit
  <2> DEFINE q == L \div Digit
  <2>1. q \in Int /\ q * Digit <= L
    BY <1>1, Constants
  <2> HIDE DEF q
  <2>2. SUFFICES ASSUME q - Digit >= 0 PROVE FALSE
    BY <2>1, Constants DEF q
  <2>3. (q - Digit) * Digit >= 0
    BY <2>1, <2>2, Constants, TimesGrows
  <2>4. q * Digit >= Digit * Digit
    BY <2>1, <2>3, Constants
  <2> QED
    BY <2>1, <2>4, Constants
<1> QED
  BY <1>1, <1>2, <1>3, <1>4, Constants DEF Digits, DigitOf

----------------------------------------------------------------------------
(* The first byte.                                                         *)

Classes == {"CONNECT", "CONNACK", "PUBLISH", "PUBACK", "PUBREC", "PUBREL", "PUBCOMP", "SUBSCRIBE",
            "SUBACK", "UNSUBSCRIBE", "UNSUBACK", "PINGREQ", "PINGRESP", "DISCONNECT"}
InClasses == {"PUBLISH", "CONNACK", "SUBACK", "PUBACK", "PUBREC", "PUBREL", "PUBCOMP", "UNSUBACK",
              "PINGRESP"}

LEMMA CodeIs ==
  ASSUME NEW c \in Classes
  PROVE  Code(c) \in 1..14 /\ Types[Code(c)] = c
<1>1. DOMAIN Types = 1..14
  BY DEF Types
<1>2. \E n \in DOMAIN Types : Types[n] = c
  <2>1. /\ Types[1] = "CONNECT" /\ Types[2] = "CONNACK" /\ Types[3] = "PUBLISH"
        /\ Types[4] = "PUBACK" /\ Types[5] = "PUBREC" /\ Types[6] = "PUBREL"
        /\ Types[7] = "PUBCOMP" /\ Types[8] = "SUBSCRIBE" /\ Types[9] = "SUBACK"
        /\ Types[10] = "UNSUBSCRIBE" /\ Types[11] = "UNSUBACK" /\ Types[12] = "PINGREQ"
        /\ Types[13] = "PINGRESP" /\ Types[14] = "DISCONNECT"
    BY DEF Types
  <2> QED
    BY <1>1, <2>1 DEF Classes
<1> QED
  BY <1>1, <1>2 DEF Code

\* The first byte of a message, and what it is to who reads it.
First(m) == 16 * Code(m.class) + Flags(m.class, m)

LEMMA ClassRead ==
  ASSUME NEW m, m.class \in Classes, m.class = "PUBLISH" => m.qos \in 0..2
  PROVE  /\ First(m) \in Nat /\ TypeIn(First(m)) = m.class
         /\ m.class = "PUBLISH" => QosIn(First(m)) = m.qos
<1>1. Flags(m.class, m) \in 0..4 /\ (m.class = "PUBLISH" => Flags(m.class, m) = 2 * m.qos)
  BY DEF Flags
<1>2. Code(m.class) \in 1..14 /\ Types[Code(m.class)] = m.class
  BY CodeIs
<1>3. \A n \in 1..14, f \in 0..4 : (16 * n + f) \div 16 = n /\ (16 * n + f) % 16 = f
  OBVIOUS
<1>4. \A q \in 0..2 : (2 * q) \div 2 = q
  OBVIOUS
<1>5. First(m) \div 16 = Code(m.class) /\ First(m) % 16 = Flags(m.class, m) /\ First(m) \in Nat
  BY <1>1, <1>2, <1>3 DEF First
<1> QED
  BY <1>1, <1>2, <1>4, <1>5 DEF TypeIn, QosIn

LEMMA FirstRead ==
  ASSUME NEW m \in InTypes
  PROVE  /\ m.class \in InClasses /\ First(m) \in Nat /\ TypeIn(First(m)) = m.class
         /\ m.class = "PUBLISH" => QosIn(First(m)) = m.qos
<1>1. m.class \in InClasses /\ (m.class = "PUBLISH" => m.qos \in 0..2)
  BY DEF InTypes, Publications, InClasses
<1>2. m.class \in Classes
  BY <1>1 DEF InClasses, Classes
<1> QED
  BY <1>1, <1>2, ClassRead

----------------------------------------------------------------------------
(* Bytes.                                                                  *)

LEMMA TextIs ==
  ASSUME NEW n \in Nat
  PROVE  Text(n) \in Seq(Int) /\ Len(Text(n)) = n /\ \A i \in 1..n : Text(n)[i] = i
<1>1. Text(n) \in [1..n -> Int]
  BY DEF Text
<1>2. Text(n) \in Seq(Int)
  BY <1>1, SeqDef
<1>3. Len(Text(n)) = n
  BY <1>1, <1>2, LenProperties
<1> QED
  BY <1>2, <1>3 DEF Text

LEMMA PairIs ==
  \A a, b \in Int : /\ <<a, b>> \in Seq(Int) /\ Len(<<a, b>>) = 2
                    /\ <<a, b>>[1] = a /\ <<a, b>>[2] = b
OBVIOUS

\* The bytes s are in P behind k others.
At(P, k, s) == \A i \in 1..Len(s) : P[k + i] = s[i]

LEMMA JoinIs ==
  ASSUME NEW s \in Seq(Int), NEW t \in Seq(Int)
  PROVE  s \o t \in Seq(Int) /\ Len(s \o t) = Len(s) + Len(t) /\ Len(s) \in Nat /\ Len(t) \in Nat
OBVIOUS

LEMMA AtJoin ==
  ASSUME NEW s \in Seq(Int), NEW t \in Seq(Int), NEW P, NEW k \in Nat, At(P, k, s \o t)
  PROVE  At(P, k, s) /\ At(P, k + Len(s), t)
<1>1. \A i \in 1..(Len(s) + Len(t)) : P[k + i] = (s \o t)[i]
  BY JoinIs DEF At
<1>2. ASSUME NEW i \in 1..Len(s) PROVE P[k + i] = s[i]
  <2>1. i \in 1..(Len(s) + Len(t)) /\ (s \o t)[i] = s[i]
    OBVIOUS
  <2> QED
    BY <1>1, <2>1
<1>3. ASSUME NEW i \in 1..Len(t) PROVE P[(k + Len(s)) + i] = t[i]
  <2>1. Len(s) + i \in 1..(Len(s) + Len(t)) /\ (s \o t)[Len(s) + i] = t[i]
    OBVIOUS
  <2>2. k + (Len(s) + i) = (k + Len(s)) + i
    BY JoinIs
  <2> QED
    BY <1>1, <2>1, <2>2
<1> QED
  BY <1>2, <1>3 DEF At

LEMMA AtItself == \A P : At(P, 0, P)
<1> SUFFICES ASSUME NEW P PROVE \A i \in 1..Len(P) : P[0 + i] = P[i]
  BY DEF At
<1>1. \A i \in 1..Len(P) : 0 + i = i
  OBVIOUS
<1> QED
  BY <1>1

LEMMA TwoIs ==
  ASSUME NEW n \in Nat
  PROVE  /\ Two(n) \in Seq(Int) /\ Len(Two(n)) = 2
         /\ Two(n)[1] = n \div Byte /\ Two(n)[2] = n % Byte
         /\ Two(n)[1] * Byte + Two(n)[2] = n
<1>1. n \div Byte \in Int /\ n % Byte \in Int /\ n = (n \div Byte) * Byte + (n % Byte)
  <2>1. Byte \in Nat /\ Byte > 0
    BY Constants
  <2> QED
    BY <2>1, Division
<1> QED
  BY <1>1, PairIs DEF Two

LEMMA StringIs ==
  ASSUME NEW n \in Nat
  PROVE  String(n) \in Seq(Int) /\ Len(String(n)) = 2 + n
<1>1. Two(n) \in Seq(Int) /\ Text(n) \in Seq(Int)
  BY TwoIs, TextIs
<1>2. Two(n) \o Text(n) \in Seq(Int) /\ Len(Two(n) \o Text(n)) = Len(Two(n)) + Len(Text(n))
  BY <1>1, JoinIs, Zenon
<1>3. String(n) \in Seq(Int) /\ Len(String(n)) = Len(Two(n)) + Len(Text(n))
  BY <1>2 DEF String
<1> QED
  BY <1>3, TwoIs, TextIs

LEMMA TwoAtIs ==
  ASSUME NEW n \in Nat, NEW P, NEW k \in Nat, At(P, k, Two(n))
  PROVE  TwoAt(P, k + 1) = n
<1>1. P[k + 1] = Two(n)[1] /\ P[k + 2] = Two(n)[2]
  <2>1. 1 \in 1..2 /\ 2 \in 1..2
    OBVIOUS
  <2> QED
    BY <2>1, TwoIs DEF At
<1>2. (k + 1) + 1 = k + 2
  OBVIOUS
<1> QED
  BY <1>1, <1>2, TwoIs DEF TwoAt

LEMMA TextAtIs ==
  ASSUME NEW n \in Nat, NEW m \in 0..n, NEW P, NEW k \in Nat, At(P, k, Text(n))
  PROVE  SubSeq(P, k + 1, k + m) = Text(m)
<1>1. ASSUME NEW i \in (k + 1)..(k + m) PROVE P[i] = i - k
  <2>1. i - k \in 1..n /\ k + (i - k) = i
    BY <1>1
  <2> QED
    BY <2>1, TextIs DEF At
<1>2. \A i \in (k + 1)..(k + m) : P[i] \in Int
  BY <1>1
<1>3. /\ SubSeq(P, k + 1, k + m) \in Seq(Int)
      /\ Len(SubSeq(P, k + 1, k + m)) = IF k + 1 <= k + m THEN (k + m) - (k + 1) + 1 ELSE 0
      /\ \A i \in 1..((k + m) - (k + 1) + 1) : SubSeq(P, k + 1, k + m)[i] = P[(k + 1) + i - 1]
  BY <1>2, SubSeqProperties
<1>4. Len(SubSeq(P, k + 1, k + m)) = m
  BY <1>3
<1>5. ASSUME NEW i \in 1..m PROVE SubSeq(P, k + 1, k + m)[i] = i
  <2>1. i \in 1..((k + m) - (k + 1) + 1) /\ (k + 1) + i - 1 = k + i /\ k + i \in (k + 1)..(k + m)
        /\ (k + i) - k = i
    BY <1>5
  <2> QED
    BY <1>1, <1>3, <2>1
<1>6. Text(m) \in Seq(Int) /\ Len(Text(m)) = m /\ \A i \in 1..m : Text(m)[i] = i
  BY TextIs
<1> QED
  BY <1>3, <1>4, <1>5, <1>6, SeqEqual

LEMMA StringAtIs ==
  ASSUME NEW n \in Nat, NEW P, NEW k \in Nat, At(P, k, String(n))
  PROVE  TwoAt(P, k + 1) = n /\ SubSeq(P, k + 3, k + n + 2) = Text(n)
<1>1. Two(n) \in Seq(Int) /\ Len(Two(n)) = 2 /\ Text(n) \in Seq(Int)
  BY TwoIs, TextIs
<1>2. At(P, k, Two(n)) /\ At(P, k + Len(Two(n)), Text(n))
  BY <1>1, AtJoin DEF String
<1>3. At(P, k + 2, Text(n)) /\ n \in 0..n
  BY <1>1, <1>2
<1>4. SubSeq(P, (k + 2) + 1, (k + 2) + n) = Text(n)
  BY <1>3, TextAtIs
<1>5. (k + 2) + 1 = k + 3 /\ (k + 2) + n = k + n + 2
  OBVIOUS
<1> QED
  BY <1>2, <1>4, <1>5, TwoAtIs

----------------------------------------------------------------------------
(* The packets of the broker, and what the constructors make of them.      *)

LEMMA InFields ==
  ASSUME NEW m \in InTypes
  PROVE  /\ m.class = "PUBLISH" => /\ m.topic \in Nat /\ m.qos \in 0..2 /\ m.payload \in Nat
                                   /\ m.id \in 0..(Byte * Byte - 1) /\ m.id \in Nat
         /\ m.class = "CONNACK" => m.rc \in Nat /\ m = [class |-> "CONNACK", rc |-> m.rc]
         /\ m.class = "SUBACK" => /\ m.id \in Nat /\ m.rcs \in Seq(Nat)
                                  /\ m = [class |-> "SUBACK", id |-> m.id, rcs |-> m.rcs]
         /\ m.class \in {"PUBACK", "PUBREC", "PUBREL", "PUBCOMP", "UNSUBACK"} =>
              m.id \in Nat /\ m = [class |-> m.class, id |-> m.id]
<1>1. \A k \in 0..(Byte * Byte - 1) : k \in Nat
  OBVIOUS
<1> QED
  BY <1>1 DEF InTypes, Publications, Ids

LEMMA BehindIs ==
  ASSUME NEW t \in Nat, NEW q \in Nat
  PROVE  /\ Behind(t, q) \in Nat /\ Behind(t, q) = IF q > 0 THEN t + 4 ELSE t + 2
         /\ Behind(t, q) + 1 = t + 3 + IF q > 0 THEN 2 ELSE 0
BY DEF Behind

LEMMA PublicationIs ==
  ASSUME NEW m \in Publications
  PROVE  LET P == PublishBody(m)
             pos == Behind(m.topic, m.qos)
         IN  /\ P \in Seq(Int) /\ pos \in Nat /\ Len(P) = pos + m.payload
             /\ TwoAt(P, 1) = m.topic /\ SubSeq(P, 3, m.topic + 2) = Text(m.topic)
             /\ m.qos > 0 => TwoAt(P, m.topic + 3) = m.id
             /\ \A n \in 0..m.payload : SubSeq(P, pos + 1, pos + n) = Text(n)
<1> DEFINE P == PublishBody(m)
           pos == Behind(m.topic, m.qos)
           s == String(m.topic)
           i == Optional(m.qos > 0, Two(m.id))
           t == Text(m.payload)
<1>1. P = (s \o i) \o t
  BY DEF PublishBody
<1>2. m.topic \in Nat /\ m.qos \in 0..2 /\ m.payload \in Nat /\ m.id \in Nat
  <2>1. \A k \in 0..(Byte * Byte - 1) : k \in Nat
    OBVIOUS
  <2> QED
    BY <2>1 DEF Publications, Ids
<1>3. s \in Seq(Int) /\ Len(s) = 2 + m.topic
  BY <1>2, StringIs
<1>4. i \in Seq(Int) /\ Len(i) = IF m.qos > 0 THEN 2 ELSE 0
  <2>1. CASE m.qos > 0
    <3>1. i = Two(m.id)
      BY <2>1 DEF Optional
    <3> QED
      BY <1>2, <2>1, <3>1, TwoIs
  <2>2. CASE ~(m.qos > 0)
    <3>1. i = <<>>
      BY <2>2 DEF Optional
    <3>2. <<>> \in Seq(Int) /\ Len(<<>>) = 0
      OBVIOUS
    <3> HIDE DEF i
    <3> QED
      BY <2>2, <3>1, <3>2
  <2> QED
    BY <2>1, <2>2
<1>5. t \in Seq(Int) /\ Len(t) = m.payload
  BY <1>2, TextIs
<1>6. m.qos > 0 => i = Two(m.id)
  BY DEF Optional
<1>7. pos = Len(s) + Len(i) /\ pos \in Nat
  <2>1. pos \in Nat /\ pos = IF m.qos > 0 THEN m.topic + 4 ELSE m.topic + 2
    <3>1. m.qos \in Nat
      BY <1>2
    <3> QED
      BY <1>2, <3>1, BehindIs, Zenon
  <2> HIDE DEF pos, s, i
  <2> QED
    BY <1>2, <1>3, <1>4, <2>1
<1> HIDE DEF P, pos, s, i, t
<1>8. s \o i \in Seq(Int) /\ Len(s \o i) = Len(s) + Len(i)
  BY <1>3, <1>4, JoinIs, Zenon
<1>9. (s \o i) \o t \in Seq(Int) /\ Len((s \o i) \o t) = Len(s \o i) + Len(t)
  BY <1>5, <1>8, JoinIs, Zenon
<1>10. At(P, 0, (s \o i) \o t)
  BY <1>1, AtItself
<1>11. At(P, 0, s \o i) /\ At(P, 0 + Len(s \o i), t)
  BY <1>5, <1>8, <1>10, AtJoin
<1>12. At(P, 0, s) /\ At(P, 0 + Len(s), i)
  BY <1>3, <1>4, <1>11, AtJoin
<1>13. At(P, pos, t) /\ At(P, m.topic + 2, i)
  <2>1. 0 + Len(s \o i) = pos /\ 0 + Len(s) = m.topic + 2
    <3>1. Len(s \o i) = pos /\ pos \in Nat
      BY <1>7, <1>8, Zenon
    <3>2. Len(s) = m.topic + 2
      BY <1>2, <1>3
    <3>3. \A n \in Nat : 0 + n = n
      OBVIOUS
    <3>4. m.topic + 2 \in Nat
      BY <1>2
    <3> QED
      BY <3>1, <3>2, <3>3, <3>4, Zenon
  <2> QED
    BY <1>11, <1>12, <2>1
<1>14. TwoAt(P, 0 + 1) = m.topic /\ SubSeq(P, 0 + 3, 0 + m.topic + 2) = Text(m.topic)
  <2>1. At(P, 0, String(m.topic))
    BY <1>12 DEF s
  <2> QED
    BY <1>2, <2>1, StringAtIs
<1>15. TwoAt(P, 1) = m.topic /\ SubSeq(P, 3, m.topic + 2) = Text(m.topic)
  <2>1. 0 + 1 = 1 /\ 0 + 3 = 3 /\ 0 + m.topic + 2 = m.topic + 2
    BY <1>2
  <2> QED
    BY <1>14, <2>1
<1>16. ASSUME m.qos > 0 PROVE TwoAt(P, m.topic + 3) = m.id
  <2>1. At(P, m.topic + 2, Two(m.id)) /\ m.topic + 2 \in Nat /\ (m.topic + 2) + 1 = m.topic + 3
    BY <1>2, <1>6, <1>13, <1>16
  <2> QED
    BY <1>2, <2>1, TwoAtIs
<1>17. \A n \in 0..m.payload : SubSeq(P, pos + 1, pos + n) = Text(n)
  BY <1>2, <1>7, <1>13, TextAtIs DEF t
<1>18. P \in Seq(Int) /\ Len(P) = pos + m.payload
  BY <1>1, <1>5, <1>7, <1>8, <1>9
<1> QED
  BY <1>7, <1>15, <1>16, <1>17, <1>18 DEF P, pos

LEMMA PublishIs ==
  ASSUME NEW m \in InTypes, m.class = "PUBLISH"
  PROVE  LET P == Packet(m)
             pos == Behind(m.topic, m.qos)
         IN  /\ P \in Seq(Int) /\ pos \in Nat /\ Len(P) = pos + m.payload
             /\ TwoAt(P, 1) = m.topic /\ SubSeq(P, 3, m.topic + 2) = Text(m.topic)
             /\ m.qos > 0 => TwoAt(P, m.topic + 3) = m.id
             /\ \A n \in 0..m.payload : SubSeq(P, pos + 1, pos + n) = Text(n)
<1>1. m \in Publications
  BY DEF InTypes
<1>2. Packet(m) = PublishBody(m)
  BY DEF Packet
<1> QED
  BY <1>1, <1>2, PublicationIs

LEMMA SubackIs ==
  ASSUME NEW m \in InTypes, m.class = "SUBACK"
  PROVE  LET P == Packet(m)
         IN  /\ P \in Seq(Int) /\ TwoAt(P, 1) = m.id
             /\ SubSeq(P, 3, Len(P)) = m.rcs
<1> DEFINE P == Packet(m)
           s == Two(m.id)
           t == m.rcs
<1>1. P = s \o t
  BY DEF Packet
<1>2. m.id \in Nat /\ m.rcs \in Seq(Nat)
  BY InFields
<1>3. s \in Seq(Int) /\ Len(s) = 2 /\ t \in Seq(Int)
  <2>1. t \in Seq(Int)
    BY <1>2
  <2> QED
    BY <1>2, <2>1, TwoIs
<1> HIDE DEF P, s, t
<1>4. s \o t \in Seq(Int) /\ Len(s \o t) = Len(s) + Len(t) /\ Len(t) \in Nat
  BY <1>3, JoinIs, Zenon
<1>5. At(P, 0, s) /\ At(P, 0 + Len(s), t)
  <2>1. At(P, 0, s \o t)
    BY <1>1, AtItself
  <2> QED
    BY <1>3, <2>1, AtJoin
<1>6. TwoAt(P, 1) = m.id
  <2>1. TwoAt(P, 0 + 1) = m.id
    BY <1>2, <1>5, TwoAtIs DEF s
  <2> QED
    BY <2>1
<1>7. Len(P) = 2 + Len(t) /\ \A i \in 1..Len(t) : P[2 + i] = t[i]
  <2>1. 0 + Len(s) = 2 /\ Len(P) = 2 + Len(t)
    BY <1>1, <1>3, <1>4
  <2>2. At(P, 2, t)
    BY <1>5, <2>1
  <2> QED
    BY <2>1, <2>2 DEF At
<1>8. P \in Seq(Int)
  BY <1>1, <1>4
<1>9. SubSeq(P, 3, Len(P)) = t
  <2>1. \A i \in 3..Len(P) : P[i] \in Int
    BY <1>4, <1>7, <1>8, ElementOfSeq
  <2>2. Len(P) \in Int
    BY <1>4, <1>7
  <2>3. /\ SubSeq(P, 3, Len(P)) \in Seq(Int)
        /\ Len(SubSeq(P, 3, Len(P))) = IF 3 <= Len(P) THEN Len(P) - 3 + 1 ELSE 0
        /\ \A i \in 1..(Len(P) - 3 + 1) : SubSeq(P, 3, Len(P))[i] = P[3 + i - 1]
    BY <2>1, <2>2, SubSeqProperties
  <2>4. Len(SubSeq(P, 3, Len(P))) = Len(t)
    BY <1>4, <1>7, <2>3
  <2>5. ASSUME NEW i \in 1..Len(t) PROVE SubSeq(P, 3, Len(P))[i] = t[i]
    <3>1. i \in 1..(Len(P) - 3 + 1) /\ 3 + i - 1 = 2 + i
      BY <1>4, <1>7
    <3> QED
      BY <1>7, <2>3, <3>1
  <2> QED
    BY <1>3, <2>3, <2>4, <2>5, SeqEqual
<1> QED
  BY <1>6, <1>8, <1>9 DEF P, t

LEMMA OthersAre ==
  ASSUME NEW m \in InTypes
  PROVE  LET P == Packet(m)
         IN  /\ m.class = "CONNACK" => P \in Seq(Int) /\ P[2] = m.rc
             /\ m.class \in {"PUBACK", "PUBREC", "PUBREL", "PUBCOMP", "UNSUBACK"} =>
                  P \in Seq(Int) /\ TwoAt(P, 1) = m.id
             /\ m.class = "PINGRESP" => P = <<>>
<1>1. ASSUME m.class = "CONNACK" PROVE Packet(m) \in Seq(Int) /\ Packet(m)[2] = m.rc
  <2>1. Packet(m) = <<0, m.rc>> /\ m.rc \in Int
    BY <1>1, InFields DEF Packet
  <2> QED
    BY <2>1, PairIs
<1>2. ASSUME m.class \in {"PUBACK", "PUBREC", "PUBREL", "PUBCOMP", "UNSUBACK"}
      PROVE  Packet(m) \in Seq(Int) /\ TwoAt(Packet(m), 1) = m.id
  <2>1. Packet(m) = Two(m.id) /\ m.id \in Nat
    BY <1>2, InFields DEF Packet
  <2>2. At(Packet(m), 0, Two(m.id))
    BY <2>1, AtItself
  <2>3. TwoAt(Packet(m), 0 + 1) = m.id
    BY <2>1, <2>2, TwoAtIs
  <2> QED
    BY <2>1, <2>3, TwoIs
<1>3. m.class = "PINGRESP" => Packet(m) = <<>>
  BY DEF Packet
<1> QED
  BY <1>1, <1>2, <1>3

LEMMA PacketIs ==
  ASSUME NEW m \in InMessages
  PROVE  /\ m \in InTypes /\ Packet(m) \in Seq(Int) /\ Len(Packet(m)) \in Nat
         /\ Len(Packet(m)) < Digit * Digit
         /\ m.class = "SUBACK" => Len(Packet(m)) < Byte
<1>1. m \in InTypes /\ m.class \in InClasses
  BY Constants, FirstRead
<1>2. Packet(m) \in Seq(Int)
  <2>1. CASE m.class = "PUBLISH"
    BY <1>1, <2>1, PublishIs
  <2>2. CASE m.class = "SUBACK"
    BY <1>1, <2>2, SubackIs
  <2>3. CASE m.class = "PINGRESP"
    <3>1. Packet(m) = <<>>
      BY <1>1, <2>3, OthersAre
    <3> QED
      BY <3>1
  <2>4. CASE m.class \in {"CONNACK", "PUBACK", "PUBREC", "PUBREL", "PUBCOMP", "UNSUBACK"}
    BY <1>1, <2>4, OthersAre
  <2> QED
    BY <1>1, <2>1, <2>2, <2>3, <2>4 DEF InClasses
<1> QED
  BY <1>1, <1>2, InAssumption DEF InAssumption

\* What ReadAsSent says of a message and what was read.
SameAs(m, r) ==
  /\ r.class = m.class
  /\ m.class = "PUBLISH" =>
       /\ r.qos = m.qos
       /\ Behind(m.topic, 0) <= Byte => r.topic = Text(m.topic)
       /\ m.qos > 0 /\ Behind(m.topic, m.qos) <= Byte => r.id = m.id
       /\ Behind(m.topic, m.qos) < Byte => r.payload = Text(m.payload % Byte)
  /\ m.class \in {"CONNACK", "SUBACK", "PUBACK", "PUBREC", "PUBREL", "PUBCOMP"} => r = m

\* Below its end a position is itself.
LEMMA PositionIs == \A k \in 0..(Byte - 1) : k % Byte = k
<1> SUFFICES ASSUME NEW k \in 0..(Byte - 1) PROVE k % Byte = k
  OBVIOUS
<1>1. (0 * Byte + k) % Byte = k
  BY OneRemainder, Constants
<1> QED
  BY <1>1, Constants

LEMMA NumberIs ==
  ASSUME NEW P, NEW k \in 0..(Byte - 2)
  PROVE  NumberAt(P, k) = TwoAt(P, k + 1)
<1>1. k \in 0..(Byte - 1) /\ k + 1 \in 0..(Byte - 1)
  BY Constants
<1>2. k % Byte = k /\ (k + 1) % Byte = k + 1
  BY <1>1, PositionIs
<1> QED
  BY <1>2 DEF NumberAt, ByteAt, TwoAt

LEMMA CharacterIs ==
  ASSUME NEW P \in Seq(Int), NEW n \in Nat, SubSeq(P, 3, n + 2) = Text(n), NEW i \in 1..n
  PROVE  P[i + 2] = i
<1>1. Text(n)[i] = i
  BY TextIs
<1>2. i \in 1..(1 + (n + 2) - 3) /\ i + 3 - 1 = i + 2
  OBVIOUS
<1>3. SubSeq(P, 3, n + 2)[i] = P[i + 2]
  BY <1>2
<1> QED
  BY <1>1, <1>3, Zenon

\* A topic, an id and a payload that the positions reach.
LEMMA TopicInReach ==
  ASSUME NEW t \in Nat, Behind(t, 0) <= Byte, NEW i \in 1..t
  PROVE  1 + i \in 0..(Byte - 1) /\ (1 + i) + 1 = i + 2
<1>1. Behind(t, 0) = t + 2
  BY BehindIs
<1> QED
  BY <1>1, Constants

LEMMA IdInReach ==
  ASSUME NEW t \in Nat, NEW q \in Nat, q > 0, Behind(t, q) <= Byte
  PROVE  t + 2 \in 0..(Byte - 2) /\ (t + 2) + 1 = t + 3
<1>1. Behind(t, q) = t + 4
  BY BehindIs
<1> QED
  BY <1>1, Constants

LEMMA PayloadInReach ==
  ASSUME NEW pos \in Nat, pos < Byte, NEW k \in Nat
  PROVE  /\ pos % Byte = pos /\ (((pos + k) % Byte) - (pos % Byte)) % Byte = k % Byte
         /\ k % Byte \in 0..k
<1>1. pos % Byte = pos
  BY PositionIs, Constants
<1>2. Byte \in Nat /\ Byte > 0
  BY Constants
<1>3. (((pos + k) % Byte) - pos) % Byte = k % Byte /\ k % Byte \in 0..k
  BY <1>2, PartOfLength, RemainderIs, Zenon
<1> QED
  BY <1>1, <1>3, Zenon

\* What the constructor of a Publish makes of its data.
LEMMA PublishRead ==
  ASSUME NEW m \in InTypes, m.class = "PUBLISH", header = First(m), length = Len(Packet(m))
  PROVE  SameAs(m, Message(Packet(m)))
<1> DEFINE P == Packet(m)
           r == Message(P)
           pos == Behind(m.topic, m.qos)
           start == pos % Byte
           n == ((length % Byte) - start) % Byte
<1>1. TypeIn(header) = "PUBLISH" /\ QosIn(header) = m.qos
  BY FirstRead
<1>2. /\ P \in Seq(Int) /\ pos \in Nat /\ length = pos + m.payload
      /\ TwoAt(P, 1) = m.topic /\ SubSeq(P, 3, m.topic + 2) = Text(m.topic)
      /\ m.qos > 0 => TwoAt(P, m.topic + 3) = m.id
      /\ \A k \in 0..m.payload : SubSeq(P, pos + 1, pos + k) = Text(k)
  BY PublishIs
<1>3. /\ m.topic \in Nat /\ m.qos \in 0..2 /\ m.qos \in Nat /\ m.payload \in Nat
      /\ Byte \in Nat /\ Byte > 6
  BY InFields, Constants
<1>4. NumberAt(P, 0) = m.topic
  <2>1. 0 \in 0..(Byte - 2) /\ 0 + 1 = 1
    BY <1>3
  <2>2. NumberAt(P, 0) = TwoAt(P, 0 + 1)
    BY <2>1, NumberIs
  <2> QED
    BY <1>2, <2>1, <2>2
<1>5. r = [class |-> "PUBLISH", qos |-> m.qos,
           topic |-> [i \in 1..m.topic |-> ByteAt(P, 1 + i)],
           id |-> IF m.qos > 0 THEN NumberAt(P, m.topic + 2) ELSE 0,
           payload |-> SubSeq(P, start + 1, start + n)]
  BY <1>1, <1>4 DEF Message, PayloadStart
<1>6. ASSUME Behind(m.topic, 0) <= Byte
      PROVE  [i \in 1..m.topic |-> ByteAt(P, 1 + i)] = Text(m.topic)
  <2>1. ASSUME NEW i \in 1..m.topic PROVE ByteAt(P, 1 + i) = i
    <3>1. 1 + i \in 0..(Byte - 1) /\ (1 + i) + 1 = i + 2
      BY <1>3, <1>6, TopicInReach, Zenon
    <3>2. ByteAt(P, 1 + i) = P[i + 2]
      BY <3>1, PositionIs, Zenon DEF ByteAt
    <3>3. P[i + 2] = i
      BY <1>2, <1>3, CharacterIs, Zenon
    <3> QED
      BY <3>2, <3>3, Zenon
  <2> QED
    BY <2>1, Zenon DEF Text
<1>7. ASSUME m.qos > 0, Behind(m.topic, m.qos) <= Byte PROVE NumberAt(P, m.topic + 2) = m.id
  <2>1. m.topic + 2 \in 0..(Byte - 2) /\ (m.topic + 2) + 1 = m.topic + 3
    BY <1>3, <1>7, IdInReach, Zenon
  <2>2. NumberAt(P, m.topic + 2) = TwoAt(P, (m.topic + 2) + 1)
    BY <2>1, NumberIs, Zenon
  <2> QED
    BY <1>2, <1>7, <2>1, <2>2, Zenon
<1>8. ASSUME pos < Byte PROVE SubSeq(P, start + 1, start + n) = Text(m.payload % Byte)
  <2> HIDE DEF pos, P
  <2>1. start = pos /\ n = m.payload % Byte /\ m.payload % Byte \in 0..m.payload
    BY <1>2, <1>3, <1>8, PayloadInReach, Zenon
  <2> HIDE DEF start, n
  <2> QED
    BY <1>2, <2>1, Zenon
<1> DEFINE t == [i \in 1..m.topic |-> ByteAt(P, 1 + i)]
           d == IF m.qos > 0 THEN NumberAt(P, m.topic + 2) ELSE 0
           y == SubSeq(P, start + 1, start + n)
<1>9. /\ Behind(m.topic, 0) <= Byte => t = Text(m.topic)
      /\ m.qos > 0 /\ Behind(m.topic, m.qos) <= Byte => d = m.id
      /\ Behind(m.topic, m.qos) < Byte => y = Text(m.payload % Byte)
  BY <1>6, <1>7, <1>8, Zenon
<1>10. r = [class |-> "PUBLISH", qos |-> m.qos, topic |-> t, id |-> d, payload |-> y]
  BY <1>5, Zenon
<1> HIDE DEF t, d, y, r
<1>11. r.class = "PUBLISH" /\ r.qos = m.qos /\ r.topic = t /\ r.id = d /\ r.payload = y
  BY <1>10
<1>12. SameAs(m, r)
  BY <1>9, <1>11, Zenon DEF SameAs
<1> QED
  BY <1>12 DEF r, P

LEMMA MessageIs ==
  ASSUME NEW m \in InMessages, header = First(m), length = Len(Packet(m))
  PROVE  SameAs(m, Message(Packet(m)))
<1> DEFINE P == Packet(m)
           r == Message(P)
<1>1. /\ m \in InTypes /\ m.class \in InClasses /\ Len(P) \in Nat
      /\ TypeIn(header) = m.class /\ (m.class = "PUBLISH" => QosIn(header) = m.qos)
  BY PacketIs, FirstRead
<1>2. CASE m.class = "PUBLISH"
  BY <1>1, <1>2, PublishRead
<1>3. CASE m.class = "SUBACK"
  <2>1. length % Byte = Len(P)
    <3>1. Len(P) \in 0..(Byte - 1) /\ Byte \in Nat /\ Byte > 0
      BY <1>1, <1>3, PacketIs, Constants
    <3>2. (0 * Byte + Len(P)) % Byte = Len(P)
      BY <3>1, OneRemainder
    <3>3. 0 * Byte + Len(P) = Len(P)
      BY <3>1
    <3> QED
      BY <3>2, <3>3
  <2>2. r = [class |-> "SUBACK", id |-> TwoAt(P, 1), rcs |-> SubSeq(P, 3, length % Byte)]
    BY <1>1, <1>3 DEF Message
  <2>3. TwoAt(P, 1) = m.id /\ SubSeq(P, 3, Len(P)) = m.rcs
    BY <1>1, <1>3, SubackIs
  <2>4. r = m
    BY <1>1, <1>3, <2>1, <2>2, <2>3, InFields
  <2> QED
    BY <1>3, <2>4 DEF SameAs
<1>4. CASE m.class = "CONNACK"
  <2>1. r = [class |-> "CONNACK", rc |-> P[2]] /\ P[2] = m.rc
    BY <1>1, <1>4, OthersAre DEF Message
  <2>2. r = m
    BY <1>1, <1>4, <2>1, InFields
  <2> QED
    BY <1>4, <2>2 DEF SameAs
<1>5. CASE m.class = "PINGRESP"
  <2>1. r = [class |-> "PINGRESP"]
    BY <1>1, <1>5 DEF Message
  <2> QED
    BY <1>5, <2>1 DEF SameAs
<1>6. CASE m.class \in {"PUBACK", "PUBREC", "PUBREL", "PUBCOMP", "UNSUBACK"}
  <2>1. r = [class |-> m.class, id |-> TwoAt(P, 1)] /\ TwoAt(P, 1) = m.id
    BY <1>1, <1>6, OthersAre DEF Message
  <2>2. r = m
    BY <1>1, <1>6, <2>1, InFields
  <2> QED
    BY <1>6, <2>2 DEF SameAs
<1> QED
  BY <1>1, <1>2, <1>3, <1>4, <1>5, <1>6 DEF InClasses

----------------------------------------------------------------------------
(* The stream.                                                             *)

\* A packet of the broker, and what is on its way when nothing of the packets q has
\* been read: one after the other, with the rests behind each of them.
Bytes(m) == FixedHeader(m.class, m, Len(Packet(m))) \o Packet(m)
Follows(st, q) ==
  \E rests \in [0..Len(q) -> Seq(Int)] :
    /\ rests[0] = st /\ rests[Len(q)] = <<>>
    /\ \A k \in 1..Len(q) : rests[k - 1] = Bytes(q[k]) \o rests[k]

Regrouped(s, t, u) == (s \o t) \o u = s \o (t \o u)

LEMMA Associative ==
  ASSUME NEW s \in Seq(Int), NEW t \in Seq(Int), NEW u \in Seq(Int)
  PROVE  s \o t \in Seq(Int) /\ Regrouped(s, t, u)
<1>1. s \o t \in Seq(Int)
  BY JoinIs, Zenon
<1>2. (s \o t) \o u = s \o (t \o u)
  BY ConcatAssociative, SMTT(30)
<1> QED
  BY <1>1, <1>2 DEF Regrouped

Together(s, t, u, v) == ((s \o t) \o u) \o v = s \o (t \o (u \o v))

LEMMA FourJoin ==
  ASSUME NEW s \in Seq(Int), NEW t \in Seq(Int), NEW u \in Seq(Int), NEW v \in Seq(Int)
  PROVE  Together(s, t, u, v)
<1>1. PICK a \in Seq(Int) : a = s \o t
  BY Associative
<1>2. PICK b \in Seq(Int) : b = u \o v
  BY Associative
<1>3. Regrouped(a, u, v) /\ Regrouped(s, t, b)
  BY Associative, Zenon
<1> QED
  BY <1>1, <1>2, <1>3 DEF Regrouped, Together

LEMMA DigitsTyped ==
  ASSUME NEW L \in Nat, L < Digit * Digit
  PROVE  Digits(L) \in Seq(Int)
<1>1. CASE L < Digit
  <2>1. Digits(L) = <<L>>
    BY <1>1, DigitsRead
  <2> QED
    BY <2>1
<1>2. CASE L >= Digit
  <2>1. /\ Digits(L) = <<Digit + (L % Digit), L \div Digit>>
        /\ Digit + (L % Digit) \in Int /\ L \div Digit \in Int
    <3>1. /\ Digits(L) = <<Digit + (L % Digit), L \div Digit>>
          /\ L % Digit \in Nat /\ L \div Digit \in Nat
      BY <1>2, DigitsRead
    <3>2. \A a, b \in Nat : a + b \in Int /\ b \in Int
      OBVIOUS
    <3> QED
      BY <3>1, <3>2, Constants
  <2> QED
    BY <2>1, PairIs
<1> QED
  BY <1>1, <1>2, Constants

One(e) == <<e>>

LEMMA OneTyped == \A x \in Int : One(x) \in Seq(Int)
BY DEF One

LEMMA OneIs ==
  ASSUME NEW x \in Int, NEW y \in Int, NEW u \in Seq(Int)
  PROVE  One(x) \in Seq(Int) /\ One(x) \o u \in Seq(Int) /\ <<x, y>> \o u = One(x) \o (One(y) \o u)
<1> DEFINE s == One(x)
           t == One(y)
           p == <<x, y>>
<1>1. s \in Seq(Int) /\ Len(s) = 1 /\ s[1] = x /\ t \in Seq(Int) /\ Len(t) = 1 /\ t[1] = y
  BY DEF One
<1>2. p \in Seq(Int) /\ Len(p) = 2 /\ p[1] = x /\ p[2] = y
  OBVIOUS
<1> HIDE DEF s, t, p
<1>3. /\ s \o t \in Seq(Int) /\ Len(s \o t) = Len(s) + Len(t)
      /\ \A i \in 1..(Len(s) + Len(t)) : (s \o t)[i] = IF i <= Len(s) THEN s[i] ELSE t[i - Len(s)]
  BY <1>1, ConcatProperties
<1>4. Len(s) + Len(t) = 2 /\ 1..2 = {1, 2} /\ 2 - 1 = 1
  BY <1>1
<1>5. (s \o t)[1] = x /\ (s \o t)[2] = y
  BY <1>1, <1>3, <1>4
<1>6. \A i \in 1..2 : i = 1 \/ i = 2
  OBVIOUS
<1>7. Len(s \o t) = Len(p) /\ \A i \in 1..Len(s \o t) : (s \o t)[i] = p[i]
  BY <1>2, <1>3, <1>4, <1>5, <1>6, Zenon
<1>8. s \o t = p
  BY <1>2, <1>3, <1>7, SeqEqual, Zenon
<1>9. Regrouped(s, t, u) /\ s \o u \in Seq(Int)
  BY <1>1, Associative, Zenon
<1>10. p \o u = s \o (t \o u)
  BY <1>8, <1>9, Zenon DEF Regrouped
<1> QED
  BY <1>1, <1>9, <1>10 DEF s, t, p

LEMMA BytesAre ==
  ASSUME NEW m \in InMessages
  PROVE  /\ FixedHeader(m.class, m, Len(Packet(m))) \in Seq(Int)
         /\ Bytes(m) \in Seq(Int) /\ Digits(Len(Packet(m))) \in Seq(Int)
         /\ \A r \in Seq(Int) :
              Bytes(m) \o r = One(First(m)) \o (Digits(Len(Packet(m))) \o (Packet(m) \o r))
<1> DEFINE P == Packet(m)
           d == Digits(Len(P))
           f == One(First(m))
<1>1. P \in Seq(Int) /\ d \in Seq(Int) /\ f \in Seq(Int)
  <2>1. First(m) \in Int
    BY PacketIs, FirstRead
  <2> QED
    BY <2>1, PacketIs, DigitsTyped DEF One
<1>2. FixedHeader(m.class, m, Len(P)) = f \o d
  BY DEF FixedHeader, First, One
<1>3. Bytes(m) = (f \o d) \o P
  BY <1>2 DEF Bytes
<1> HIDE DEF P, d, f
<1>4. f \o d \in Seq(Int) /\ (f \o d) \o P \in Seq(Int)
  BY <1>1, Associative
<1>5. \A r \in Seq(Int) : ((f \o d) \o P) \o r = f \o (d \o (P \o r))
  <2>1. \A r \in Seq(Int) : Together(f, d, P, r)
    BY <1>1, FourJoin, Zenon
  <2> QED
    BY <2>1, Zenon DEF Together
<1> QED
  BY <1>1, <1>2, <1>3, <1>4, <1>5 DEF P, d, f

LEMMA NothingFollows ==
  /\ Follows(<<>>, <<>>)
  /\ \A st : Follows(st, <<>>) => st = <<>>
<1>1. [k \in {0} |-> <<>>] \in [{0} -> Seq(Int)] /\ [k \in {0} |-> <<>>][0] = <<>>
  OBVIOUS
<1>2. Len(<<>>) = 0 /\ 0..0 = {0} /\ 1..0 = {}
  OBVIOUS
<1>3. \A st : Follows(st, <<>>) <=>
                \E rests \in [{0} -> Seq(Int)] : rests[0] = st /\ rests[0] = <<>>
  BY <1>2 DEF Follows
<1> QED
  BY <1>1, <1>3

LEMMA FollowsTyped ==
  ASSUME NEW st, NEW q \in Seq(InMessages), Follows(st, q)
  PROVE  st \in Seq(Int)
<1>1. Len(q) \in Nat
  OBVIOUS
<1> QED
  BY <1>1 DEF Follows

\* One more packet is sent.
LEMMA FollowsAppend ==
  ASSUME NEW st, NEW q \in Seq(InMessages), NEW m \in InMessages, Follows(st, q)
  PROVE  Follows(st \o Bytes(m), Append(q, m))
<1> DEFINE n == Len(q)
           b == Bytes(m)
           p == Append(q, m)
<1>1. /\ n \in Nat /\ Len(p) = n + 1 /\ p[n + 1] = m
      /\ \A k \in 1..n : p[k] = q[k] /\ q[k] \in InMessages
  OBVIOUS
<1>2. PICK rests \in [0..n -> Seq(Int)] :
        /\ rests[0] = st /\ rests[n] = <<>>
        /\ \A k \in 1..n : rests[k - 1] = Bytes(q[k]) \o rests[k]
  BY DEF Follows
<1>3. b \in Seq(Int)
  BY BytesAre
<1> HIDE DEF n, b, p
<1> DEFINE more == [k \in 0..(n + 1) |-> IF k = n + 1 THEN <<>> ELSE rests[k] \o b]
<1>4. \A k \in 0..n : rests[k] \in Seq(Int) /\ rests[k] \o b \in Seq(Int)
  BY <1>1, <1>3, Associative
<1>5. /\ more \in [0..(n + 1) -> Seq(Int)] /\ more[n + 1] = <<>>
      /\ \A k \in 0..n : more[k] = rests[k] \o b
  <2>1. \A k \in 0..(n + 1) : k = n + 1 \/ k \in 0..n
    BY <1>1
  <2>2. \A k \in 0..n : k \in 0..(n + 1) /\ k # n + 1
    BY <1>1
  <2>3. n + 1 \in 0..(n + 1) /\ <<>> \in Seq(Int)
    BY <1>1
  <2> QED
    BY <1>4, <2>1, <2>2, <2>3
<1> HIDE DEF more
<1>6. more[0] = st \o b
  <2>1. 0 \in 0..n
    BY <1>1
  <2> QED
    BY <1>2, <1>5, <2>1
<1>7. ASSUME NEW k \in 1..(n + 1) PROVE more[k - 1] = Bytes(p[k]) \o more[k]
  <2>1. CASE k = n + 1
    <3>1. more[k - 1] = rests[n] \o b
      <4>1. k - 1 = n /\ n \in 0..n
        BY <1>1, <2>1
      <4> QED
        BY <1>5, <4>1
    <3>2. <<>> \o b = b /\ b \o <<>> = b
      BY <1>3, ConcatEmptySeq
    <3>3. more[k] = <<>> /\ p[k] = m
      BY <1>1, <1>5, <2>1
    <3> QED
      BY <1>2, <3>1, <3>2, <3>3 DEF b
  <2>2. CASE k # n + 1
    <3>1. k \in 1..n /\ k \in 0..n /\ k - 1 \in 0..n
      BY <1>1, <2>2
    <3>2. more[k - 1] = rests[k - 1] \o b /\ more[k] = rests[k] \o b /\ p[k] = q[k]
      BY <1>1, <1>5, <3>1
    <3>3. Bytes(q[k]) \in Seq(Int) /\ rests[k] \in Seq(Int)
      BY <1>1, <1>4, <3>1, BytesAre
    <3>4. Regrouped(Bytes(q[k]), rests[k], b)
      BY <1>3, <3>3, Associative
    <3> QED
      BY <1>2, <3>1, <3>2, <3>4 DEF Regrouped
  <2> QED
    BY <2>1, <2>2
<1> QED
  BY <1>1, <1>5, <1>6, <1>7 DEF Follows, b, p

\* The first packet is read.
LEMMA FollowsFirst ==
  ASSUME NEW st, NEW q \in Seq(InMessages), q # <<>>, Follows(st, q)
  PROVE  \E r \in Seq(Int) : st = Bytes(Head(q)) \o r /\ Follows(r, Tail(q))
<1> DEFINE n == Len(q)
           p == Tail(q)
<1>1. /\ n \in Nat /\ n >= 1 /\ Len(p) = n - 1 /\ q[1] = Head(q)
      /\ \A k \in 1..(n - 1) : p[k] = q[k + 1]
  BY HeadTailProperties
<1>2. PICK rests \in [0..n -> Seq(Int)] :
        /\ rests[0] = st /\ rests[n] = <<>>
        /\ \A k \in 1..n : rests[k - 1] = Bytes(q[k]) \o rests[k]
  BY DEF Follows
<1> HIDE DEF n, p
<1> DEFINE less == [k \in 0..(n - 1) |-> rests[k + 1]]
<1>3. /\ less \in [0..(n - 1) -> Seq(Int)]
      /\ \A k \in 0..(n - 1) : less[k] = rests[k + 1]
  BY <1>1
<1> HIDE DEF less
<1>4. less[n - 1] = <<>> /\ less[0] = rests[1] /\ rests[1] \in Seq(Int)
  BY <1>1, <1>2, <1>3
<1>5. ASSUME NEW k \in 1..(n - 1) PROVE less[k - 1] = Bytes(p[k]) \o less[k]
  <2>1. /\ k \in 0..(n - 1) /\ k - 1 \in 0..(n - 1) /\ k + 1 \in 1..n
        /\ (k - 1) + 1 = k /\ (k + 1) - 1 = k
    BY <1>1
  <2>2. less[k - 1] = rests[k] /\ less[k] = rests[k + 1] /\ p[k] = q[k + 1]
    BY <1>1, <1>3, <2>1
  <2>3. rests[(k + 1) - 1] = Bytes(q[k + 1]) \o rests[k + 1]
    BY <1>2, <2>1
  <2> QED
    BY <2>1, <2>2, <2>3
<1>6. Follows(rests[1], p)
  BY <1>1, <1>3, <1>4, <1>5 DEF Follows
<1>7. rests[1 - 1] = Bytes(q[1]) \o rests[1]
  <2>1. 1 \in 1..n
    BY <1>1
  <2> QED
    BY <1>2, <2>1
<1>8. 1 - 1 = 0
  OBVIOUS
<1> QED
  BY <1>1, <1>2, <1>4, <1>6, <1>7, <1>8 DEF p

----------------------------------------------------------------------------
(* What arrives and is taken from the socket.                              *)

LEMMA Taken ==
  ASSUME NEW a \in Seq(Int), NEW w \in Seq(Int), NEW n \in 0..Len(a)
  PROVE  /\ SubSeq(a, n + 1, Len(a)) \in Seq(Int)
         /\ SubSeq(a, 1, n) = SubSeq(a \o w, 1, n)
         /\ SubSeq(a, n + 1, Len(a)) \o w = SubSeq(a \o w, n + 1, Len(a \o w))
<1> DEFINE c == a \o w
           L == Len(a)
           M == Len(w)
<1>1. /\ c \in Seq(Int) /\ Len(c) = L + M /\ L \in Nat /\ M \in Nat
      /\ (\A i \in 1..(L + M) : c[i] = IF i <= L THEN a[i] ELSE w[i - L])
  BY ConcatProperties
<1>2. (\A i \in 1..L : a[i] \in Int) /\ (\A i \in 1..(L + M) : c[i] \in Int)
  BY <1>1, ElementOfSeq
<1>3. n \in Nat /\ n <= L
  BY <1>1
<1> HIDE DEF c, L, M
<1>4. /\ SubSeq(a, n + 1, L) \in Seq(Int)
      /\ Len(SubSeq(a, n + 1, L)) = IF n + 1 <= L THEN L - (n + 1) + 1 ELSE 0
      /\ \A i \in 1..(L - (n + 1) + 1) : SubSeq(a, n + 1, L)[i] = a[(n + 1) + i - 1]
  <2>1. \A i \in (n + 1)..L : a[i] \in Int
    BY <1>1, <1>2, <1>3
  <2> QED
    BY <1>1, <1>3, <2>1, SubSeqProperties
<1>5. /\ SubSeq(c, n + 1, L + M) \in Seq(Int)
      /\ Len(SubSeq(c, n + 1, L + M)) = IF n + 1 <= L + M THEN (L + M) - (n + 1) + 1 ELSE 0
      /\ \A i \in 1..((L + M) - (n + 1) + 1) : SubSeq(c, n + 1, L + M)[i] = c[(n + 1) + i - 1]
  <2>1. \A i \in (n + 1)..(L + M) : c[i] \in Int
    BY <1>1, <1>2, <1>3
  <2>2. L + M \in Int /\ n + 1 \in Int
    BY <1>1, <1>3
  <2> QED
    BY <2>1, <2>2, SubSeqProperties
<1>6. SubSeq(a, 1, n) = SubSeq(c, 1, n)
  <2>1. \A i \in 1..n : a[i] \in Int /\ c[i] = a[i] /\ c[i] \in Int
    BY <1>1, <1>2, <1>3
  <2>2. /\ SubSeq(a, 1, n) \in Seq(Int) /\ Len(SubSeq(a, 1, n)) = (IF 1 <= n THEN n - 1 + 1 ELSE 0)
        /\ \A i \in 1..(n - 1 + 1) : SubSeq(a, 1, n)[i] = a[1 + i - 1]
    BY <1>3, <2>1, SubSeqProperties
  <2>3. /\ SubSeq(c, 1, n) \in Seq(Int) /\ Len(SubSeq(c, 1, n)) = (IF 1 <= n THEN n - 1 + 1 ELSE 0)
        /\ \A i \in 1..(n - 1 + 1) : SubSeq(c, 1, n)[i] = c[1 + i - 1]
    BY <1>3, <2>1, SubSeqProperties
  <2>4. Len(SubSeq(a, 1, n)) = n /\ Len(SubSeq(c, 1, n)) = n
    BY <1>3, <2>2, <2>3
  <2>5. ASSUME NEW i \in 1..n PROVE SubSeq(a, 1, n)[i] = SubSeq(c, 1, n)[i]
    <3>1. i \in 1..(n - 1 + 1) /\ 1 + i - 1 = i
      BY <1>3
    <3> QED
      BY <2>1, <2>2, <2>3, <3>1
  <2> QED
    BY <2>2, <2>3, <2>4, <2>5, SeqEqual
<1>7. SubSeq(a, n + 1, L) \o w = SubSeq(c, n + 1, L + M)
  <2> DEFINE s == SubSeq(a, n + 1, L)
             u == SubSeq(c, n + 1, L + M)
  <2>1. s \in Seq(Int) /\ Len(s) = L - n /\ \A i \in 1..(L - n) : s[i] = a[n + i]
    <3>1. Len(s) = L - n
      BY <1>1, <1>3, <1>4
    <3>2. ASSUME NEW i \in 1..(L - n) PROVE s[i] = a[n + i]
      <4>1. i \in 1..(L - (n + 1) + 1) /\ (n + 1) + i - 1 = n + i
        BY <1>1, <1>3
      <4> QED
        BY <1>4, <4>1
    <3> QED
      BY <1>4, <3>1, <3>2
  <2>2. u \in Seq(Int) /\ Len(u) = L + M - n /\ \A i \in 1..(L + M - n) : u[i] = c[n + i]
    <3>1. Len(u) = L + M - n
      BY <1>1, <1>3, <1>5
    <3>2. ASSUME NEW i \in 1..(L + M - n) PROVE u[i] = c[n + i]
      <4>1. i \in 1..((L + M) - (n + 1) + 1) /\ (n + 1) + i - 1 = n + i
        BY <1>1, <1>3
      <4> QED
        BY <1>5, <4>1
    <3> QED
      BY <1>5, <3>1, <3>2
  <2> HIDE DEF s, u
  <2>3. /\ s \o w \in Seq(Int) /\ Len(s \o w) = Len(s) + Len(w)
        /\ \A i \in 1..(Len(s) + Len(w)) : (s \o w)[i] = IF i <= Len(s) THEN s[i] ELSE w[i - Len(s)]
    BY <2>1, ConcatProperties
  <2>4. Len(s \o w) = Len(u)
    BY <1>1, <1>3, <2>1, <2>2, <2>3 DEF M
  <2>5. ASSUME NEW i \in 1..Len(u) PROVE (s \o w)[i] = u[i]
    <3>1. i \in 1..(L + M - n) /\ i \in 1..(Len(s) + Len(w)) /\ n + i \in 1..(L + M)
      BY <1>1, <1>3, <2>1, <2>2 DEF M
    <3>2. (s \o w)[i] = (IF i <= L - n THEN s[i] ELSE w[i - (L - n)])
      BY <2>1, <2>3, <3>1
    <3>3. u[i] = IF n + i <= L THEN a[n + i] ELSE w[(n + i) - L]
      BY <1>1, <2>2, <3>1
    <3>4. CASE i <= L - n
      <4>1. n + i <= L /\ i \in 1..(L - n)
        BY <1>1, <1>3, <3>4
      <4> QED
        BY <2>1, <3>2, <3>3, <3>4, <4>1
    <3>5. CASE ~(i <= L - n)
      <4>1. ~(n + i <= L) /\ i - (L - n) = (n + i) - L
        BY <1>1, <1>3, <3>5
      <4> QED
        BY <3>2, <3>3, <3>5, <4>1
    <3> QED
      BY <3>4, <3>5
  <2>6. s \o w = u
    BY <2>2, <2>3, <2>4, <2>5, SeqEqual
  <2> QED
    BY <2>6 DEF s, u
<1> QED
  BY <1>1, <1>4, <1>6, <1>7 DEF c, L, M

Begins(st, e, r) == st = One(e) \o r

LEMMA FirstTaken ==
  ASSUME NEW a \in Seq(Int), NEW w \in Seq(Int), a # <<>>, NEW e \in Int, NEW r \in Seq(Int),
         Begins(a \o w, e, r)
  PROVE  Head(a) = e /\ Tail(a) \in Seq(Int) /\ Tail(a) \o w = r
<1> DEFINE s == One(e)
           h == <<Head(a)>>
           t == Tail(a)
<1>1. Head(a) \in Int /\ t \in Seq(Int) /\ a = h \o t
  BY HeadTailProperties
<1>2. s \in Seq(Int) /\ h \in Seq(Int)
  BY <1>1 DEF One
<1>3. a \o w = h \o (t \o w) /\ t \o w \in Seq(Int)
  <2>1. (h \o t) \o w = h \o (t \o w)
    <3> HIDE DEF h, t
    <3>1. h \in Seq(Int) /\ t \in Seq(Int)
      BY <1>1, <1>2
    <3> QED
      <4>1. Regrouped(h, t, w)
        BY <3>1, Associative, Zenon
      <4> QED
        BY <4>1 DEF Regrouped
  <2> QED
    BY <1>1, <2>1, JoinIs
<1> HIDE DEF t
<1>4. \A x \in Int, u \in Seq(Int) :
        /\ Head(<<x>> \o u) = x /\ Tail(<<x>> \o u) = u
  <2> SUFFICES ASSUME NEW x \in Int, NEW u \in Seq(Int)
               PROVE  Head(<<x>> \o u) = x /\ Tail(<<x>> \o u) = u
    OBVIOUS
  <2> DEFINE v == <<x>>
             y == v \o u
  <2>1. v \in Seq(Int) /\ Len(v) <= 1 /\ Len(v) >= 1 /\ v[1] = x
    OBVIOUS
  <2> HIDE DEF v
  <2>2. /\ y \in Seq(Int) /\ Len(y) = Len(v) + Len(u) /\ Len(v) \in Nat /\ Len(u) \in Nat
        /\ \A i \in 1..(Len(v) + Len(u)) : y[i] = IF i <= Len(v) THEN v[i] ELSE u[i - Len(v)]
    BY <2>1, ConcatProperties, LenProperties
  <2> HIDE DEF y
  <2>3. y # <<>> /\ Len(y) = 1 + Len(u)
    BY <2>1, <2>2
  <2>4. Head(y) = y[1] /\ y[1] = x
    BY <2>1, <2>2, <2>3
  <2>5. /\ Tail(y) \in Seq(Int) /\ Len(Tail(y)) = Len(u)
        /\ \A i \in 1..Len(Tail(y)) : Tail(y)[i] = y[i + 1]
    BY <2>2, <2>3, HeadTailProperties
  <2>6. ASSUME NEW i \in 1..Len(u) PROVE Tail(y)[i] = u[i]
    <3>1. i + 1 \in 1..(Len(v) + Len(u)) /\ ~(i + 1 <= Len(v)) /\ (i + 1) - Len(v) = i
      <4>1. \A n, l \in Nat : l <= 1 /\ l >= 1 /\ i \in 1..n =>
              i + 1 \in 1..(l + n) /\ ~(i + 1 <= l) /\ (i + 1) - l = i
        OBVIOUS
      <4> QED
        BY <2>1, <2>2, <4>1, Zenon
    <3> QED
      BY <2>2, <2>5, <3>1
  <2>7. Tail(y) = u
    BY <2>5, <2>6, SeqEqual
  <2> QED
    BY <2>4, <2>7 DEF y, v
<1>5. Head(h \o (t \o w)) = Head(a) /\ Tail(h \o (t \o w)) = t \o w
  BY <1>1, <1>3, <1>4
<1>6. Head(s \o r) = e /\ Tail(s \o r) = r
  BY <1>4 DEF One
<1> QED
  BY <1>1, <1>3, <1>5, <1>6 DEF t, Begins

LEMMA Arrived ==
  ASSUME NEW w \in Seq(Int), NEW n \in 1..Len(w)
  PROVE  LET s == SubSeq(w, 1, n)
             t == SubSeq(w, n + 1, Len(w))
         IN  s \in Seq(Int) /\ t \in Seq(Int) /\ s \o t = w
<1> DEFINE s == SubSeq(w, 1, n)
           t == SubSeq(w, n + 1, Len(w))
           l == Len(w)
<1>1. l \in Nat /\ n \in Nat /\ n <= l /\ \A i \in 1..l : w[i] \in Int
  BY ElementOfSeq
<1>2. /\ s \in Seq(Int) /\ Len(s) = IF 1 <= n THEN n - 1 + 1 ELSE 0
      /\ \A i \in 1..(n - 1 + 1) : s[i] = w[1 + i - 1]
  <2>1. \A i \in 1..n : w[i] \in Int
    BY <1>1
  <2> QED
    BY <1>1, <2>1, SubSeqProperties
<1>3. /\ t \in Seq(Int) /\ Len(t) = IF n + 1 <= l THEN l - (n + 1) + 1 ELSE 0
      /\ \A i \in 1..(l - (n + 1) + 1) : t[i] = w[(n + 1) + i - 1]
  <2>1. (\A i \in (n + 1)..l : w[i] \in Int) /\ n + 1 \in Int
    BY <1>1
  <2> QED
    BY <1>1, <2>1, SubSeqProperties
<1> HIDE DEF s, t, l
<1>4. Len(s) = n /\ \A i \in 1..n : s[i] = w[i]
  BY <1>1, <1>2
<1>5. Len(t) = l - n /\ \A i \in 1..(l - n) : t[i] = w[n + i]
  <2>1. Len(t) = l - n
    BY <1>1, <1>3
  <2>2. ASSUME NEW i \in 1..(l - n) PROVE t[i] = w[n + i]
    <3>1. i \in 1..(l - (n + 1) + 1) /\ (n + 1) + i - 1 = n + i
      BY <1>1
    <3> QED
      BY <1>3, <3>1
  <2> QED
    BY <2>1, <2>2
<1>6. /\ s \o t \in Seq(Int) /\ Len(s \o t) = Len(s) + Len(t)
      /\ \A i \in 1..(Len(s) + Len(t)) : (s \o t)[i] = IF i <= Len(s) THEN s[i] ELSE t[i - Len(s)]
  BY <1>2, <1>3, ConcatProperties
<1>7. ASSUME NEW i \in 1..l PROVE (s \o t)[i] = w[i]
  <2>1. (s \o t)[i] = IF i <= n THEN s[i] ELSE t[i - n]
    <3>1. i \in 1..(Len(s) + Len(t))
      BY <1>1, <1>4, <1>5
    <3>2. (s \o t)[i] = IF i <= Len(s) THEN s[i] ELSE t[i - Len(s)]
      BY <1>6, <3>1, Zenon
    <3> QED
      BY <1>4, <3>2, Zenon
  <2>2. CASE i <= n
    <3>1. i \in 1..n
      BY <2>2
    <3> QED
      BY <1>4, <2>1, <2>2, <3>1
  <2>3. CASE ~(i <= n)
    <3>1. i - n \in 1..(l - n) /\ n + (i - n) = i
      BY <1>1, <2>3
    <3> QED
      BY <1>5, <2>1, <2>3, <3>1
  <2> QED
    BY <2>2, <2>3
<1>8. Len(s \o t) = l
  BY <1>1, <1>4, <1>5, <1>6
<1>9. s \o t = w
  BY <1>6, <1>7, <1>8, SeqEqual DEF l
<1> QED
  BY <1>2, <1>3, <1>9 DEF s, t, l

----------------------------------------------------------------------------
(* A packet that is being read: what is on its way, when r is what follows *)
(* the packet.                                                             *)

\* Of its length, both digits or the second are not read.
InLength(m, st, r, len, worth) ==
  LET n == Len(Packet(m))
  IN  \/ len = 0 /\ worth = 1 /\ st = Digits(n) \o (Packet(m) \o r)
      \/ /\ n >= Digit /\ len = n % Digit /\ worth = Digit
         /\ st = One(n \div Digit) \o (Packet(m) \o r)

\* Of its body, rest is not read: everything, unless what was is all or in pieces.
InBody(m, st, r, len, d, l, t) ==
  /\ len = Len(Packet(m)) /\ t \in BOOLEAN
  /\ \E rest \in Seq(Int) :
       /\ st = rest \o r /\ l = Len(rest)
       /\ ~t => (rest = Packet(m) /\ d = <<>>) \/ (l = 0 /\ d = Packet(m))

LEMMA DigitTaken ==
  ASSUME NEW m \in InMessages, NEW a \in Seq(Int), NEW w \in Seq(Int), a # <<>>, NEW r \in Seq(Int),
         NEW len, NEW worth, InLength(m, a \o w, r, len, worth)
  PROVE  LET l == len + DigitOf(Head(a)) * worth
         IN  /\ Tail(a) \in Seq(Int)
             /\ Head(a) >= Digit => InLength(m, Tail(a) \o w, r, l, worth * Digit)
             /\ ~(Head(a) >= Digit) => InBody(m, Tail(a) \o w, r, l, <<>>, l, FALSE)
<1> DEFINE n == Len(Packet(m))
           P == Packet(m)
           l == len + DigitOf(Head(a)) * worth
<1>1. P \in Seq(Int) /\ n \in Nat /\ n < Digit * Digit /\ P \o r \in Seq(Int)
  <2>1. P \in Seq(Int) /\ n \in Nat /\ n < Digit * Digit
    BY PacketIs
  <2> HIDE DEF P
  <2>2. P \o r \in Seq(Int)
    BY <2>1, Associative
  <2> QED
    BY <2>1, <2>2
<1>2. Digit \in Nat /\ Digit > 2
  BY Constants
<1>3. /\ n < Digit => Digits(n) = <<n>> /\ DigitOf(n) = n
      /\ n >= Digit => /\ Digits(n) = <<Digit + (n % Digit), n \div Digit>>
                       /\ Digit + (n % Digit) >= Digit /\ n % Digit \in Nat
                       /\ DigitOf(Digit + (n % Digit)) = n % Digit
                       /\ n \div Digit \in Nat /\ n \div Digit < Digit
                       /\ DigitOf(n \div Digit) = n \div Digit
                       /\ (n % Digit) + (n \div Digit) * Digit = n
  BY <1>1, DigitsRead
<1>4. ASSUME Tail(a) \o w = P \o r, l = n PROVE InBody(m, Tail(a) \o w, r, l, <<>>, l, FALSE)
  BY <1>1, <1>4 DEF InBody
<1>5. CASE len = 0 /\ worth = 1 /\ a \o w = Digits(n) \o (P \o r) /\ n < Digit
  <2>1. Begins(a \o w, n, P \o r)
    BY <1>3, <1>5 DEF One, Begins
  <2>2. Head(a) = n /\ Tail(a) \in Seq(Int) /\ Tail(a) \o w = P \o r
    <3>1. n \in Int
      BY <1>1
    <3> QED
      BY <1>1, <2>1, <3>1, FirstTaken, Zenon
  <2>3. l = n /\ ~(Head(a) >= Digit)
    <3>1. DigitOf(Head(a)) = n
      BY <1>3, <1>5, <2>2
    <3>2. 0 + n * 1 = n
      BY <1>1
    <3> QED
      BY <1>1, <1>2, <1>5, <2>2, <3>1, <3>2
  <2> QED
    BY <1>4, <2>2, <2>3
<1>6. CASE len = 0 /\ worth = 1 /\ a \o w = Digits(n) \o (P \o r) /\ n >= Digit
  <2> DEFINE x == Digit + (n % Digit)
             y == n \div Digit
             u == P \o r
  <2>1. /\ x \in Int /\ y \in Int /\ Digits(n) = <<x, y>>
        /\ x >= Digit /\ DigitOf(x) = n % Digit /\ n % Digit \in Nat
    BY <1>2, <1>3, <1>6
  <2> HIDE DEF x, y, u
  <2>2. <<x, y>> \o u = One(x) \o (One(y) \o u) /\ One(y) \o u \in Seq(Int)
    <3>1. u \in Seq(Int)
      BY <1>1, Zenon DEF u
    <3> QED
      BY <2>1, <3>1, OneIs, Zenon
  <2>3. Head(a) = x /\ Tail(a) \in Seq(Int) /\ Tail(a) \o w = One(y) \o u
    <3>1. Begins(a \o w, x, One(y) \o u)
      BY <1>6, <2>1, <2>2 DEF u, Begins
    <3> QED
      <4>1. x \in Int /\ One(y) \o u \in Seq(Int)
        BY <2>1, <2>2
      <4> QED
        BY <3>1, <4>1, FirstTaken, Zenon
  <2>4. l = n % Digit /\ worth * Digit = Digit
    <3>1. 0 + (n % Digit) * 1 = n % Digit /\ 1 * Digit = Digit
      BY <1>2, <2>1
    <3> QED
      BY <1>6, <2>1, <2>3, <3>1
  <2>5. InLength(m, Tail(a) \o w, r, l, worth * Digit)
    BY <1>6, <2>3, <2>4 DEF InLength, y, u
  <2> QED
    BY <2>1, <2>3, <2>5
<1>7. CASE n >= Digit /\ len = n % Digit /\ worth = Digit /\ a \o w = One(n \div Digit) \o (P \o r)
  <2> DEFINE y == n \div Digit
  <2>1. y \in Int /\ ~(y >= Digit) /\ DigitOf(y) = y /\ len + y * worth = n
    BY <1>2, <1>3, <1>7
  <2>2. Head(a) = y /\ Tail(a) \in Seq(Int) /\ Tail(a) \o w = P \o r
    <3>1. Begins(a \o w, y, P \o r)
      BY <1>7 DEF Begins
    <3> QED
      BY <1>1, <2>1, <3>1, FirstTaken, Zenon
  <2>3. l = n
    BY <2>1, <2>2
  <2> QED
    BY <1>4, <2>1, <2>2, <2>3
<1>8. n < Digit \/ n >= Digit
  BY <1>1, <1>2
<1>9. \/ len = 0 /\ worth = 1 /\ a \o w = Digits(n) \o (P \o r)
      \/ n >= Digit /\ len = n % Digit /\ worth = Digit /\ a \o w = One(n \div Digit) \o (P \o r)
  BY DEF InLength
<1> QED
  BY <1>5, <1>6, <1>7, <1>8, <1>9

LEMMA BodyTaken ==
  ASSUME NEW m \in InMessages, NEW a \in Seq(Int), NEW w \in Seq(Int), NEW r \in Seq(Int),
         NEW len, NEW d, NEW l, NEW t, InBody(m, a \o w, r, len, d, l, t),
         NEW n \in Nat, n > 0, n <= l, n <= Len(a), NEW torn2 \in BOOLEAN, torn2 <=> (t \/ n < l)
  PROVE  /\ SubSeq(a, n + 1, Len(a)) \in Seq(Int)
         /\ InBody(m, SubSeq(a, n + 1, Len(a)) \o w, r, len,
                   IF torn2 THEN <<>> ELSE SubSeq(a, 1, n), l - n, torn2)
<1>1. PICK rest \in Seq(Int) :
        /\ a \o w = rest \o r /\ l = Len(rest)
        /\ ~t => (rest = Packet(m) /\ d = <<>>) \/ (l = 0 /\ d = Packet(m))
  BY DEF InBody
<1>2. len = Len(Packet(m)) /\ t \in BOOLEAN
  BY DEF InBody
<1>3. n \in 0..Len(a) /\ n \in 0..Len(rest) /\ l \in Nat
  BY <1>1
<1>4. /\ SubSeq(a, n + 1, Len(a)) \in Seq(Int) /\ SubSeq(a, 1, n) = SubSeq(a \o w, 1, n)
      /\ SubSeq(a, n + 1, Len(a)) \o w = SubSeq(a \o w, n + 1, Len(a \o w))
  BY <1>3, Taken
<1>5. /\ SubSeq(rest, n + 1, Len(rest)) \in Seq(Int) /\ SubSeq(rest, 1, n) = SubSeq(rest \o r, 1, n)
      /\ SubSeq(rest, n + 1, Len(rest)) \o r = SubSeq(rest \o r, n + 1, Len(rest \o r))
  BY <1>3, Taken
<1> DEFINE more == SubSeq(rest, n + 1, Len(rest))
<1>6. Len(more) = l - n
  <2>1. \A i \in (n + 1)..Len(rest) : rest[i] \in Int
    BY <1>1, <1>3, ElementOfSeq
  <2>2. Len(more) = IF n + 1 <= Len(rest) THEN Len(rest) - (n + 1) + 1 ELSE 0
    BY <1>1, <1>3, <2>1, SubSeqProperties
  <2> QED
    BY <1>1, <1>3, <2>2
<1>8. ASSUME ~torn2 PROVE SubSeq(a, 1, n) = Packet(m) /\ l - n = 0
  <2>1. ~t /\ n = l /\ l > 0
    <3>1. ~t /\ ~(n < l)
      BY <1>8, Zenon
    <3>2. n = l /\ l > 0
      BY <1>3, <3>1
    <3> QED
      BY <3>1, <3>2
  <2>2. rest = Packet(m)
    BY <1>1, <1>3, <2>1
  <2>3. SubSeq(rest, 1, n) = rest
    <3>1. \A i \in 1..n : rest[i] \in Int
      BY <1>1, <1>3, ElementOfSeq
    <3>2. /\ SubSeq(rest, 1, n) \in Seq(Int)
          /\ Len(SubSeq(rest, 1, n)) = (IF 1 <= n THEN n - 1 + 1 ELSE 0)
          /\ \A i \in 1..(n - 1 + 1) : SubSeq(rest, 1, n)[i] = rest[1 + i - 1]
      BY <1>3, <3>1, SubSeqProperties
    <3>3. Len(SubSeq(rest, 1, n)) = Len(rest)
      BY <1>1, <1>3, <2>1, <3>2
    <3>4. ASSUME NEW i \in 1..Len(rest) PROVE SubSeq(rest, 1, n)[i] = rest[i]
      <4>1. i \in 1..(n - 1 + 1) /\ 1 + i - 1 = i
        BY <1>1, <1>3, <2>1
      <4> QED
        BY <3>2, <4>1
    <3> QED
      BY <3>2, <3>3, <3>4, SeqEqual
  <2>4. SubSeq(a, 1, n) = SubSeq(rest, 1, n)
    BY <1>1, <1>4, <1>5
  <2> QED
    BY <1>3, <2>1, <2>2, <2>3, <2>4
<1>9. SubSeq(a, n + 1, Len(a)) \o w = more \o r
  BY <1>1, <1>4, <1>5
<1>10. ~torn2 => l - n = 0 /\ (IF torn2 THEN <<>> ELSE SubSeq(a, 1, n)) = Packet(m)
  BY <1>8
<1>11. more \in Seq(Int)
  BY <1>5
<1> HIDE DEF more
<1>12. InBody(m, SubSeq(a, n + 1, Len(a)) \o w, r, len,
              IF torn2 THEN <<>> ELSE SubSeq(a, 1, n), l - n, torn2)
  BY <1>2, <1>6, <1>9, <1>10, <1>11 DEF InBody
<1> QED
  BY <1>4, <1>12

\* Another packet is sent while this one is read.
LEMMA SentBehind ==
  ASSUME NEW m \in InMessages, NEW st \in Seq(Int), NEW r \in Seq(Int), NEW b \in Seq(Int)
  PROVE  /\ \A len, worth : InLength(m, st, r, len, worth) =>
                              InLength(m, st \o b, r \o b, len, worth)
         /\ \A len, d, l, t : InBody(m, st, r, len, d, l, t) =>
                                InBody(m, st \o b, r \o b, len, d, l, t)
<1> DEFINE P == Packet(m)
           n == Len(P)
<1>1. P \in Seq(Int) /\ n \in Nat /\ n < Digit * Digit
  BY PacketIs
<1>2. \A s \in Seq(Int) : (s \o r) \o b = s \o (r \o b)
  <2> TAKE s \in Seq(Int)
  <2>1. Regrouped(s, r, b)
    BY Associative, Zenon
  <2> QED
    BY <2>1 DEF Regrouped
<1>3. \A s \in Seq(Int) : (s \o (P \o r)) \o b = s \o (P \o (r \o b))
  <2> TAKE s \in Seq(Int)
  <2> HIDE DEF P
  <2>1. PICK p \in Seq(Int) : p = P \o r
    BY <1>1, Associative
  <2>2. Regrouped(s, p, b) /\ Regrouped(P, r, b)
    BY <1>1, <2>1, Associative, Zenon
  <2> QED
    BY <2>1, <2>2 DEF Regrouped
<1>4. Digits(n) \in Seq(Int)
  BY <1>1, DigitsTyped
<1>5. n >= Digit => One(n \div Digit) \in Seq(Int)
  <2>1. n >= Digit => n \div Digit \in Int
    BY <1>1, DigitsRead
  <2> QED
    BY <2>1, OneTyped, Zenon
<1>6. ASSUME NEW len, NEW worth, InLength(m, st, r, len, worth)
      PROVE  InLength(m, st \o b, r \o b, len, worth)
  <2>1. CASE len = 0 /\ worth = 1 /\ st = Digits(n) \o (P \o r)
    <3>1. st \o b = Digits(n) \o (P \o (r \o b))
      BY <1>3, <1>4, <2>1
    <3> QED
      BY <2>1, <3>1 DEF InLength
  <2>2. CASE n >= Digit /\ len = n % Digit /\ worth = Digit /\ st = One(n \div Digit) \o (P \o r)
    <3>1. st \o b = One(n \div Digit) \o (P \o (r \o b))
      BY <1>3, <1>5, <2>2
    <3> QED
      BY <2>2, <3>1 DEF InLength
  <2> QED
    BY <1>6, <2>1, <2>2 DEF InLength
<1>7. ASSUME NEW len, NEW d, NEW l, NEW t, InBody(m, st, r, len, d, l, t)
      PROVE  InBody(m, st \o b, r \o b, len, d, l, t)
  <2>1. PICK rest \in Seq(Int) :
          /\ st = rest \o r /\ l = Len(rest)
          /\ ~t => (rest = Packet(m) /\ d = <<>>) \/ (l = 0 /\ d = Packet(m))
    BY <1>7 DEF InBody
  <2>2. st \o b = rest \o (r \o b)
    BY <1>2, <2>1
  <2> QED
    BY <1>7, <2>1, <2>2 DEF InBody
<1> QED
  BY <1>6, <1>7

----------------------------------------------------------------------------
(* The invariant.                                                          *)

\* What is on its way is the rest of the packet that is being read, and the packets
\* behind it.
StreamInv ==
  /\ available \in Seq(Int) /\ wire \in Seq(Int) /\ sent \in Seq(InMessages) /\ torn \in BOOLEAN
  /\ pc \in {"idle", "length", "body", "hung", "lost"}
  /\ pc = "idle" => Follows(available \o wire, sent)
  /\ pc \in {"length", "body"} =>
       /\ sent # <<>> /\ header = First(Head(sent))
       /\ \E r \in Seq(Int) :
            /\ Follows(r, Tail(sent))
            /\ pc = "length" => InLength(Head(sent), available \o wire, r, length, shift)
            /\ pc = "body" => InBody(Head(sent), available \o wire, r, length, data, left, torn)
  /\ ReadAsSent

LEMMA NothingIsSame == last = NothingRead => ReadAsSent
BY DEF ReadAsSent, NothingRead

LEMMA AppendIs ==
  ASSUME NEW q \in Seq(InMessages), q # <<>>, NEW m \in InMessages
  PROVE  /\ Append(q, m) # <<>> /\ Head(Append(q, m)) = Head(q)
         /\ Tail(Append(q, m)) = Append(Tail(q), m) /\ Head(q) \in InMessages
         /\ Tail(q) \in Seq(InMessages)
OBVIOUS

LEMMA BrokerSendsKeeps ==
  ASSUME StreamInv, BrokerSends
  PROVE  StreamInv'
<1> DEFINE st == available \o wire
<1>1. PICK m \in InMessages :
        /\ sent' = Append(sent, m)
        /\ wire' = wire \o FixedHeader(m.class, m, Len(Packet(m))) \o Packet(m)
        /\ UNCHANGED <<available, reader, last>>
  BY DEF BrokerSends
<1> DEFINE h == FixedHeader(m.class, m, Len(Packet(m)))
           b == Bytes(m)
<1>2. /\ available \in Seq(Int) /\ wire \in Seq(Int) /\ h \in Seq(Int) /\ b \in Seq(Int)
      /\ Packet(m) \in Seq(Int) /\ b = h \o Packet(m)
  BY BytesAre, PacketIs DEF StreamInv, Bytes
<1> HIDE DEF h, b
<1>3. wire' = wire \o b /\ wire' \in Seq(Int) /\ st' = st \o b /\ st \in Seq(Int)
  <2>1. Regrouped(wire, h, Packet(m)) /\ Regrouped(available, wire, b)
    BY <1>2, Associative, Zenon
  <2>2. wire \o b \in Seq(Int) /\ available \o wire \in Seq(Int)
    BY <1>2, Associative, Zenon
  <2>3. wire' = wire \o b
    BY <1>1, <1>2, <2>1 DEF Regrouped, h
  <2>4. st' = available \o (wire \o b)
    BY <1>1, <2>3 DEF reader
  <2> QED
    BY <2>1, <2>2, <2>3, <2>4 DEF Regrouped
<1> HIDE DEF st
<1>4. sent \in Seq(InMessages) /\ sent' \in Seq(InMessages)
  BY <1>1 DEF StreamInv
<1>5. UNCHANGED <<available, pc, header, length, shift, data, left, torn, last>>
  BY <1>1 DEF reader
<1>6. ASSUME pc = "idle" PROVE Follows(st', sent')
  <2>1. Follows(st, sent)
    BY <1>6 DEF StreamInv, st
  <2> QED
    BY <1>1, <1>3, <1>4, <2>1, FollowsAppend DEF b
<1>7. ASSUME pc \in {"length", "body"}
      PROVE  /\ sent' # <<>> /\ header = First(Head(sent'))
             /\ \E r \in Seq(Int) :
                  /\ Follows(r, Tail(sent'))
                  /\ pc = "length" => InLength(Head(sent'), st', r, length, shift)
                  /\ pc = "body" => InBody(Head(sent'), st', r, length, data, left, torn)
  <2>1. PICK r \in Seq(Int) :
          /\ Follows(r, Tail(sent))
          /\ pc = "length" => InLength(Head(sent), st, r, length, shift)
          /\ pc = "body" => InBody(Head(sent), st, r, length, data, left, torn)
    BY <1>7 DEF StreamInv, st
  <2>2. sent # <<>> /\ header = First(Head(sent))
    BY <1>7 DEF StreamInv
  <2>3. /\ sent' # <<>> /\ Head(sent') = Head(sent) /\ Tail(sent') = Append(Tail(sent), m)
        /\ Head(sent) \in InMessages /\ Tail(sent) \in Seq(InMessages)
    BY <1>1, <1>4, <2>2, AppendIs
  <2>4. Follows(r \o b, Tail(sent')) /\ r \o b \in Seq(Int)
    <3>1. Follows(r \o b, Append(Tail(sent), m))
      BY <2>1, <2>3, FollowsAppend DEF b
    <3>2. r \o b \in Seq(Int)
      BY <1>2, <2>1, Associative, Zenon
    <3> QED
      BY <2>3, <3>1, <3>2
  <2>5. /\ pc = "length" => InLength(Head(sent), st \o b, r \o b, length, shift)
        /\ pc = "body" => InBody(Head(sent), st \o b, r \o b, length, data, left, torn)
    BY <1>2, <1>3, <2>1, <2>3, SentBehind, Zenon
  <2>6. /\ pc = "length" => InLength(Head(sent'), st', r \o b, length, shift)
        /\ pc = "body" => InBody(Head(sent'), st', r \o b, length, data, left, torn)
    BY <1>3, <2>3, <2>5
  <2> QED
    BY <2>2, <2>3, <2>4, <2>6
<1>8. ReadAsSent'
  BY <1>5 DEF StreamInv, ReadAsSent
<1> QED
  BY <1>2, <1>3, <1>4, <1>5, <1>6, <1>7, <1>8 DEF StreamInv, st

LEMMA ArrivesKeeps ==
  ASSUME StreamInv, Arrives
  PROVE  StreamInv'
<1>1. PICK n \in 1..Len(wire) :
        /\ available' = available \o SubSeq(wire, 1, n)
        /\ wire' = SubSeq(wire, n + 1, Len(wire))
        /\ UNCHANGED <<out, reader, sent, last>>
  BY DEF Arrives
<1>2. available \in Seq(Int) /\ wire \in Seq(Int)
  BY DEF StreamInv
<1> DEFINE s == SubSeq(wire, 1, n)
           t == SubSeq(wire, n + 1, Len(wire))
<1>3. s \in Seq(Int) /\ t \in Seq(Int) /\ s \o t = wire
  BY <1>2, Arrived
<1>4. available' = available \o s /\ wire' = t
  BY <1>1
<1> HIDE DEF s, t
<1>5. available' \in Seq(Int) /\ wire' \in Seq(Int) /\ available' \o wire' = available \o wire
  <2>1. available \o s \in Seq(Int) /\ Regrouped(available, s, t)
    BY <1>2, <1>3, Associative, Zenon
  <2> QED
    BY <1>3, <1>4, <2>1 DEF Regrouped
<1>6. UNCHANGED <<pc, header, length, shift, data, left, torn, sent, last>>
  BY <1>1 DEF reader
<1>7. ReadAsSent'
  BY <1>6 DEF StreamInv, ReadAsSent
<1> QED
  BY <1>5, <1>6, <1>7 DEF StreamInv

LEMMA ReadTypeKeeps ==
  ASSUME StreamInv, ReadType
  PROVE  StreamInv'
<1>1. /\ pc = "idle" /\ pc' = "length" /\ available # <<>> /\ available' = Tail(available)
      /\ header' = Head(available) /\ length' = 0 /\ shift' = 1 /\ last' = NothingRead
      /\ UNCHANGED <<wire, data, left, torn, sent>>
  BY DEF ReadType, TakesByte
<1>2. available \in Seq(Int) /\ wire \in Seq(Int) /\ sent \in Seq(InMessages) /\ torn \in BOOLEAN
  BY DEF StreamInv
<1>3. Follows(available \o wire, sent)
  BY <1>1 DEF StreamInv
<1>4. sent # <<>>
  <2>1. ASSUME sent = <<>> PROVE FALSE
    <3>1. available \o wire = <<>>
      BY <1>3, <2>1, NothingFollows
    <3>2. /\ Len(available \o wire) = Len(available) + Len(wire)
          /\ Len(wire) \in Nat /\ Len(available) \in Nat
      BY <1>2, JoinIs
    <3>3. Len(available) > 0
      BY <1>1, <1>2
    <3>4. Len(available \o wire) = 0
      BY <3>1
    <3> QED
      BY <3>2, <3>3, <3>4
  <2> QED
    BY <2>1
<1>5. Head(sent) \in InMessages
  BY <1>2, <1>4
<1> DEFINE m == Head(sent)
           d == Digits(Len(Packet(m)))
<1>6. PICK r \in Seq(Int) : available \o wire = Bytes(m) \o r /\ Follows(r, Tail(sent))
  BY <1>2, <1>3, <1>4, FollowsFirst
<1>7. d \in Seq(Int) /\ Packet(m) \in Seq(Int) /\ First(m) \in Int
  BY <1>5, BytesAre, PacketIs, FirstRead
<1>8. Begins(available \o wire, First(m), d \o (Packet(m) \o r))
  BY <1>5, <1>6, BytesAre DEF Begins
<1>9. d \o (Packet(m) \o r) \in Seq(Int)
  <2> HIDE DEF m, d
  <2>1. Packet(m) \o r \in Seq(Int)
    BY <1>7, Associative, Zenon
  <2> QED
    BY <1>7, <2>1, Associative, Zenon
<1>10. /\ Head(available) = First(m) /\ Tail(available) \in Seq(Int)
       /\ Tail(available) \o wire = d \o (Packet(m) \o r)
  <2> HIDE DEF m, d
  <2>1. PICK u \in Seq(Int) : u = d \o (Packet(m) \o r)
    BY <1>9
  <2>2. First(m) \in Int /\ Begins(available \o wire, First(m), u) /\ available # <<>>
    BY <1>1, <1>7, <1>8, <2>1
  <2>3. Head(available) = First(m) /\ Tail(available) \in Seq(Int) /\ Tail(available) \o wire = u
    BY <1>2, <2>2, FirstTaken, Zenon
  <2> QED
    BY <2>1, <2>3
<1>11. InLength(m, available' \o wire', r, length', shift')
  BY <1>1, <1>10 DEF InLength
<1>12. ReadAsSent'
  BY <1>1 DEF ReadAsSent, NothingRead
<1> QED
  BY <1>1, <1>2, <1>4, <1>6, <1>10, <1>11, <1>12 DEF StreamInv

LEMMA ReadDigitKeeps ==
  ASSUME StreamInv, ReadDigit
  PROVE  StreamInv'
<1>1. /\ pc = "length" /\ available # <<>> /\ available' = Tail(available)
      /\ length' = length + DigitOf(Head(available)) * shift /\ shift' = shift * Digit
      /\ pc' = (IF Head(available) >= Digit THEN "length" ELSE "body")
      /\ data' = <<>> /\ left' = length' /\ torn' = FALSE
      /\ UNCHANGED <<wire, header, sent, last>>
  BY DEF ReadDigit, TakesByte
<1>2. available \in Seq(Int) /\ wire \in Seq(Int) /\ sent \in Seq(InMessages)
  BY DEF StreamInv
<1>3. sent # <<>> /\ header = First(Head(sent)) /\ Head(sent) \in InMessages
  BY <1>1 DEF StreamInv
<1>4. PICK r \in Seq(Int) :
        Follows(r, Tail(sent)) /\ InLength(Head(sent), available \o wire, r, length, shift)
  BY <1>1 DEF StreamInv
<1> DEFINE l == length + DigitOf(Head(available)) * shift
<1>5. /\ Tail(available) \in Seq(Int)
      /\ Head(available) >= Digit =>
           InLength(Head(sent), Tail(available) \o wire, r, l, shift * Digit)
      /\ ~(Head(available) >= Digit) =>
           InBody(Head(sent), Tail(available) \o wire, r, l, <<>>, l, FALSE)
  BY <1>1, <1>2, <1>3, <1>4, DigitTaken, Zenon
<1> HIDE DEF l
<1>6. length' = l /\ left' = l
  BY <1>1 DEF l
<1>7. ReadAsSent'
  BY <1>1 DEF StreamInv, ReadAsSent
<1>8. CASE Head(available) >= Digit
  <2>1. pc' = "length" /\ InLength(Head(sent'), available' \o wire', r, length', shift')
    BY <1>1, <1>5, <1>6, <1>8
  <2> QED
    BY <1>1, <1>2, <1>3, <1>4, <1>5, <1>7, <2>1 DEF StreamInv
<1>9. CASE ~(Head(available) >= Digit)
  <2>1. pc' = "body" /\ InBody(Head(sent'), available' \o wire', r, length', data', left', torn')
    BY <1>1, <1>5, <1>6, <1>9
  <2> QED
    BY <1>1, <1>2, <1>3, <1>4, <1>5, <1>7, <2>1 DEF StreamInv
<1> QED
  BY <1>8, <1>9

LEMMA ReadBodyKeeps ==
  ASSUME StreamInv, ReadBody
  PROVE  StreamInv'
<1> DEFINE n == Min({left, Len(available)})
<1>1. /\ pc = "body" /\ n > 0 /\ torn' = (torn \/ n < left)
      /\ data' = IF torn' THEN <<>> ELSE SubSeq(available, 1, n)
      /\ available' = SubSeq(available, n + 1, Len(available))
      /\ left' = left - n
      /\ UNCHANGED <<wire, pc, header, length, shift, sent, last>>
  BY DEF ReadBody
<1>2. available \in Seq(Int) /\ wire \in Seq(Int) /\ sent \in Seq(InMessages) /\ torn \in BOOLEAN
  BY DEF StreamInv
<1>3. sent # <<>> /\ header = First(Head(sent)) /\ Head(sent) \in InMessages
  BY <1>1 DEF StreamInv
<1>4. PICK r \in Seq(Int) :
        /\ Follows(r, Tail(sent))
        /\ InBody(Head(sent), available \o wire, r, length, data, left, torn)
  BY <1>1 DEF StreamInv
<1>5. left \in Nat /\ Len(available) \in Nat
  BY <1>2, <1>4 DEF InBody
<1>6. n \in Nat /\ n <= left /\ n <= Len(available)
  <2>1. n \in {left, Len(available)} /\ \A y \in {left, Len(available)} : n <= y
    <3>1. \E x \in {left, Len(available)} : \A y \in {left, Len(available)} : x <= y
      BY <1>5
    <3> QED
      BY <3>1 DEF Min
  <2> QED
    BY <1>5, <2>1
<1> HIDE DEF n
<1>7. torn' \in BOOLEAN /\ (torn' <=> (torn \/ n < left))
  BY <1>1, <1>2, Zenon
<1>8. /\ SubSeq(available, n + 1, Len(available)) \in Seq(Int)
      /\ InBody(Head(sent), SubSeq(available, n + 1, Len(available)) \o wire, r, length,
                IF torn' THEN <<>> ELSE SubSeq(available, 1, n), left - n, torn')
  BY <1>1, <1>2, <1>3, <1>4, <1>6, <1>7, BodyTaken, Zenon
<1>9. ReadAsSent'
  BY <1>1 DEF StreamInv, ReadAsSent
<1>10. /\ InBody(Head(sent'), available' \o wire', r, length', data', left', torn')
       /\ available' \in Seq(Int)
  BY <1>1, <1>8
<1> QED
  BY <1>1, <1>2, <1>3, <1>4, <1>7, <1>9, <1>10 DEF StreamInv

LEMMA ReadEndsKeeps ==
  ASSUME StreamInv, ReadEnds
  PROVE  StreamInv'
<1>1. /\ pc = "body" /\ sent' = Tail(sent) /\ UNCHANGED <<wire, available>> /\ torn' = FALSE
      /\ \/ left > 0 /\ pc' = "lost" /\ UNCHANGED last
         \/ ~(left > 0) /\ pc' \in {"idle", "hung"} /\ UNCHANGED last
         \/ /\ ~(left > 0) /\ ~torn /\ pc' = "idle"
            /\ last' = [sent |-> Head(sent), read |-> Message(data)]
  BY DEF ReadEnds
<1>2. available \in Seq(Int) /\ wire \in Seq(Int) /\ sent \in Seq(InMessages) /\ torn \in BOOLEAN
  BY DEF StreamInv
<1>3. /\ sent # <<>> /\ header = First(Head(sent))
      /\ Head(sent) \in InMessages /\ Tail(sent) \in Seq(InMessages)
  BY <1>1 DEF StreamInv
<1>4. PICK r \in Seq(Int) :
        /\ Follows(r, Tail(sent))
        /\ InBody(Head(sent), available \o wire, r, length, data, left, torn)
  BY <1>1 DEF StreamInv
<1>5. PICK rest \in Seq(Int) :
        /\ available \o wire = rest \o r /\ left = Len(rest)
        /\ ~torn => \/ rest = Packet(Head(sent)) /\ data = <<>>
                    \/ left = 0 /\ data = Packet(Head(sent))
  BY <1>4 DEF InBody
<1>6. ASSUME ~(left > 0) PROVE rest = <<>> /\ available \o wire = r
  <2>1. rest = <<>>
    BY <1>5, <1>6
  <2>2. <<>> \o r = r
    BY <1>4, ConcatEmptySeq
  <2> QED
    BY <1>5, <2>1, <2>2
<1>7. pc' = "idle" => Follows(available' \o wire', sent')
  BY <1>1, <1>4, <1>6
<1>8. ReadAsSent'
  <2>1. CASE UNCHANGED last
    BY <2>1 DEF StreamInv, ReadAsSent
  <2>2. CASE ~(left > 0) /\ ~torn /\ last' = [sent |-> Head(sent), read |-> Message(data)]
    <3>1. data = Packet(Head(sent))
      BY <1>5, <1>6, <2>2
    <3>2. length = Len(Packet(Head(sent)))
      BY <1>4 DEF InBody
    <3>3. SameAs(Head(sent), Message(Packet(Head(sent))))
      BY <1>3, <3>2, MessageIs
    <3>4. last'.sent = Head(sent) /\ last'.read = Message(Packet(Head(sent)))
      BY <2>2, <3>1
    <3> QED
      BY <3>3, <3>4 DEF SameAs, ReadAsSent
  <2> QED
    BY <1>1, <2>1, <2>2
<1>9. pc' \in {"idle", "hung", "lost"}
  BY <1>1
<1> QED
  BY <1>1, <1>2, <1>3, <1>7, <1>8, <1>9 DEF StreamInv

LEMMA StreamHolds == Spec => []StreamInv
<1>1. Init => StreamInv
  <2> SUFFICES ASSUME Init PROVE StreamInv
    OBVIOUS
  <2>1. <<>> \in Seq(Int) /\ <<>> \in Seq(InMessages) /\ <<>> \o <<>> = <<>>
    OBVIOUS
  <2>2. Follows(available \o wire, sent)
    BY <2>1, NothingFollows DEF Init
  <2>3. ReadAsSent
    BY NothingIsSame DEF Init
  <2> QED
    BY <2>1, <2>2, <2>3 DEF Init, StreamInv
<1>2. StreamInv /\ [Next]_vars => StreamInv'
  <2> SUFFICES ASSUME StreamInv, [Next]_vars PROVE StreamInv'
    OBVIOUS
  <2>1. CASE Send \/ UNCHANGED vars
    <3>1. UNCHANGED <<available, wire, pc, header, length, shift, data, left, torn, sent, last>>
      BY <2>1 DEF Send, vars, reader
    <3>2. ReadAsSent'
      BY <3>1 DEF StreamInv, ReadAsSent
    <3> QED
      BY <3>1, <3>2 DEF StreamInv
  <2> QED
    BY <2>1, BrokerSendsKeeps, ArrivesKeeps, ReadTypeKeeps, ReadDigitKeeps, ReadBodyKeeps,
       ReadEndsKeeps DEF Next, Read
<1> QED
  BY <1>1, <1>2, PTL DEF Spec

\* However TCP cuts the stream and whatever else is on its way, a packet of the broker
\* whose body came in one piece is read as it was sent.
THEOREM ReadsAsSent == Spec => []ReadAsSent
BY StreamHolds, PTL DEF StreamInv

----------------------------------------------------------------------------
(* What the program sends.                                                 *)

LEMMA SegmentIs ==
  ASSUME NEW s \in Seq(Int), NEW P, NEW k \in Nat, At(P, k, s)
  PROVE  SubSeq(P, k + 1, k + Len(s)) = s
<1> DEFINE n == Len(s)
<1>1. n \in Nat /\ \A i \in 1..n : P[k + i] = s[i] /\ s[i] \in Int
  BY DEF At
<1> HIDE DEF n
<1>2. ASSUME NEW i \in (k + 1)..(k + n) PROVE P[i] \in Int
  <2>1. i - k \in 1..n /\ k + (i - k) = i
    BY <1>1
  <2> QED
    BY <1>1, <2>1
<1>3. /\ SubSeq(P, k + 1, k + n) \in Seq(Int)
      /\ Len(SubSeq(P, k + 1, k + n)) = IF k + 1 <= k + n THEN (k + n) - (k + 1) + 1 ELSE 0
      /\ \A i \in 1..((k + n) - (k + 1) + 1) : SubSeq(P, k + 1, k + n)[i] = P[(k + 1) + i - 1]
  BY <1>1, <1>2, SubSeqProperties
<1>4. Len(SubSeq(P, k + 1, k + n)) = n
  BY <1>1, <1>3
<1>5. ASSUME NEW i \in 1..n PROVE SubSeq(P, k + 1, k + n)[i] = s[i]
  <2>1. i \in 1..((k + n) - (k + 1) + 1) /\ (k + 1) + i - 1 = k + i
    BY <1>1
  <2> QED
    BY <1>1, <1>3, <2>1
<1>6. SubSeq(P, k + 1, k + n) = s
  BY <1>3, <1>4, <1>5, SeqEqual DEF n
<1> QED
  BY <1>6 DEF n

\* A broker finds the first byte, the length and the body where MQTT has them.
Heads(bytes, first, body) ==
  bytes[1] = first /\ Rest(bytes) = body /\ LengthSent(bytes) = Len(body)

LEMMA HeaderIs ==
  ASSUME NEW e \in Int, NEW B \in Seq(Int), Len(B) < Digit * Digit
  PROVE  Heads((One(e) \o Digits(Len(B))) \o B, e, B)
<1> DEFINE L == Len(B)
           d == Digits(L)
           h == One(e) \o d
           P == h \o B
<1>1. L \in Nat /\ d \in Seq(Int) /\ One(e) \in Seq(Int)
  BY DigitsTyped, OneTyped
<1>2. Len(One(e)) = 1 /\ One(e)[1] = e
  BY DEF One
<1>3. /\ L < Digit => Len(d) = 1 /\ d[1] = L
      /\ L >= Digit => Len(d) = 2 /\ d[1] = Digit + (L % Digit) /\ d[2] = L \div Digit
                       /\ L % Digit \in Nat /\ (L % Digit) + (L \div Digit) * Digit = L
                       /\ L \div Digit \in Nat
  <2>1. CASE L < Digit
    <3>1. d = <<L>>
      BY <1>1, <2>1, DigitsRead
    <3>2. Len(<<L>>) = 1 /\ <<L>>[1] = L
      OBVIOUS
    <3> QED
      BY <1>1, <2>1, <3>1, <3>2, Constants
  <2>2. CASE L >= Digit
    <3>1. /\ d = <<Digit + (L % Digit), L \div Digit>>
          /\ L % Digit \in Nat /\ L \div Digit \in Nat
          /\ (L % Digit) + (L \div Digit) * Digit = L
      BY <1>1, <2>2, DigitsRead
    <3>2. /\ Len(d) = 2 /\ d[1] = Digit + (L % Digit) /\ d[2] = L \div Digit
      BY <3>1, PairIs, Constants
    <3> QED
      BY <1>1, <2>2, <3>1, <3>2, Constants
  <2> QED
    BY <1>1, <2>1, <2>2, Constants
<1> HIDE DEF d
<1>4. h \in Seq(Int) /\ Len(h) = Len(One(e)) + Len(d)
  BY <1>1, JoinIs, Zenon
<1> HIDE DEF h
<1>5. P \in Seq(Int) /\ Len(P) = Len(h) + Len(B) /\ At(P, 0, h \o B)
  BY <1>4, JoinIs, AtItself, Zenon
<1> HIDE DEF P
<1>6. At(P, 0, h) /\ At(P, 0 + Len(h), B)
  BY <1>4, <1>5, AtJoin
<1>7. At(P, 0, One(e)) /\ At(P, 0 + Len(One(e)), d)
  <2>1. At(P, 0, One(e) \o d)
    BY <1>6 DEF h
  <2> QED
    BY <1>1, <2>1, AtJoin
<1>8. P[1] = e
  <2>1. P[0 + 1] = One(e)[1]
    BY <1>2, <1>7 DEF At
  <2> QED
    BY <1>2, <2>1
<1>9. \A i \in 1..Len(d) : P[1 + i] = d[i]
  BY <1>2, <1>7 DEF At
<1>10. SubSeq(P, Len(d) + 2, Len(P)) = B
  <2>1. Len(d) \in Nat /\ Len(h) = 1 + Len(d) /\ At(P, Len(h), B) /\ Len(h) \in Nat
    BY <1>1, <1>2, <1>4, <1>6
  <2>2. SubSeq(P, Len(h) + 1, Len(h) + Len(B)) = B
    BY <2>1, SegmentIs
  <2>3. Len(h) + 1 = Len(d) + 2
    BY <2>1
  <2> QED
    BY <1>5, <2>2, <2>3
<1>11. CASE L < Digit
  <2>1. P[2] = L /\ ~(P[2] >= Digit) /\ Len(d) + 2 = 3
    <3>1. Len(d) = 1 /\ d[1] = L
      BY <1>3, <1>11
    <3>2. P[1 + 1] = d[1]
      BY <1>9, <3>1
    <3> QED
      BY <1>1, <1>11, <3>1, <3>2, Constants
  <2> QED
    BY <1>8, <1>10, <2>1 DEF Heads, Rest, LengthSent, P, h, d
<1>12. CASE L >= Digit
  <2>1. Len(d) = 2 /\ d[1] = Digit + (L % Digit) /\ d[2] = L \div Digit
        /\ L % Digit \in Nat /\ (L % Digit) + (L \div Digit) * Digit = L /\ L \div Digit \in Nat
    BY <1>3, <1>12
  <2>2. P[1 + 1] = d[1] /\ P[1 + 2] = d[2]
    BY <1>9, <2>1
  <2>3. P[2] = Digit + (L % Digit) /\ P[3] = L \div Digit
    BY <2>1, <2>2
  <2>4. P[2] >= Digit /\ P[2] - Digit + Digit * P[3] = L
    <3>1. PICK x \in Nat, y \in Nat : x = L % Digit /\ y = L \div Digit
      BY <2>1
    <3>2. PICK z \in Int : z = y * Digit /\ z = Digit * y
      BY Constants
    <3>3. x + z = L
      BY <2>1, <3>1, <3>2
    <3> QED
      BY <2>3, <3>1, <3>2, <3>3, Constants
  <2>5. Len(d) + 2 = 4
    BY <2>1
  <2> QED
    BY <1>8, <1>10, <2>4, <2>5 DEF Heads, Rest, LengthSent, P, h, d
<1> QED
  BY <1>1, <1>11, <1>12, Constants

----------------------------------------------------------------------------
(* Texts one behind the other.                                             *)

\* A text with its length before it and the same bytes behind it.
Piece(t, behind) == Two(Len(t)) \o (t \o behind)

\* The place of text i, in bytes before it.
Places(q, S, behind, ts) ==
  /\ q[1] = 0 /\ q[Len(ts) + 1] = Len(S)
  /\ \A i \in 1..Len(ts) : /\ q[i + 1] = q[i] + 2 + Len(ts[i]) + Len(behind)
                           /\ q[i + 1] <= Len(S)
                           /\ At(S, q[i], Piece(ts[i], behind))
Holds(S, behind, ts) ==
  \E q \in [1..(Len(ts) + 1) -> Nat] : Places(q, S, behind, ts)

Texts == Seq(Seq(Int))

LEMMA HoldsNone == \A b : Holds(<<>>, b, <<>>)
<1> SUFFICES ASSUME NEW b PROVE Holds(<<>>, b, <<>>)
  OBVIOUS
<1> DEFINE q == [i \in 1..(Len(<<>>) + 1) |-> 0]
<1>1. Len(<<>>) = 0
  OBVIOUS
<1>2. q \in [1..(Len(<<>>) + 1) -> Nat] /\ q[1] = 0
  BY <1>1
<1> HIDE DEF q
<1>3. Places(q, <<>>, b, <<>>)
  BY <1>1, <1>2 DEF Places
<1> QED
  BY <1>2, <1>3 DEF Holds

LEMMA PieceIs ==
  ASSUME NEW t \in Seq(Int), NEW b \in Seq(Int)
  PROVE  /\ Piece(t, b) \in Seq(Int) /\ Len(Piece(t, b)) = 2 + Len(t) + Len(b)
         /\ Len(t) \in Nat /\ Len(b) \in Nat
         /\ Two(Len(t)) \in Seq(Int) /\ Len(Two(Len(t))) = 2 /\ t \o b \in Seq(Int)
<1>1. Len(t) \in Nat /\ Len(b) \in Nat /\ t \o b \in Seq(Int) /\ Len(t \o b) = Len(t) + Len(b)
  BY JoinIs
<1>2. Two(Len(t)) \in Seq(Int) /\ Len(Two(Len(t))) = 2
  BY <1>1, TwoIs
<1>3. Piece(t, b) \in Seq(Int) /\ Len(Piece(t, b)) = Len(Two(Len(t))) + Len(t \o b)
  BY <1>1, <1>2, JoinIs, Zenon DEF Piece
<1> QED
  BY <1>1, <1>2, <1>3

LEMMA HoldsOne ==
  ASSUME NEW t \in Seq(Int), NEW b \in Seq(Int)
  PROVE  Holds(Piece(t, b), b, <<t>>)
<1> DEFINE q == [i \in 1..(Len(<<t>>) + 1) |-> IF i = 1 THEN 0 ELSE 2 + Len(t) + Len(b)]
<1>1. Len(<<t>>) = 1 /\ <<t>>[1] = t
  OBVIOUS
<1>2. q \in [1..(Len(<<t>>) + 1) -> Nat] /\ q[1] = 0 /\ q[2] = 2 + Len(t) + Len(b)
  BY <1>1, PieceIs
<1> HIDE DEF q
<1>3. At(Piece(t, b), 0, Piece(t, b))
  BY AtItself
<1>4. Places(q, Piece(t, b), b, <<t>>)
  <2>1. q[1] = 0 /\ q[Len(<<t>>) + 1] = Len(Piece(t, b))
    BY <1>1, <1>2, PieceIs
  <2>2. ASSUME NEW i \in 1..Len(<<t>>)
        PROVE  /\ q[i + 1] = q[i] + 2 + Len(<<t>>[i]) + Len(b)
               /\ q[i + 1] <= Len(Piece(t, b))
               /\ At(Piece(t, b), q[i], Piece(<<t>>[i], b))
    <3>1. i = 1 /\ <<t>>[i] = t
      BY <1>1
    <3>2. Len(Piece(t, b)) = 2 + Len(t) + Len(b) /\ Len(t) \in Nat /\ Len(b) \in Nat
      BY PieceIs, Zenon
    <3>3. q[i + 1] = q[i] + 2 + Len(t) + Len(b) /\ q[i + 1] <= Len(Piece(t, b)) /\ q[i] = 0
      BY <1>2, <3>1, <3>2
    <3> QED
      BY <1>3, <3>1, <3>3, Zenon
  <2> QED
    BY <2>1, <2>2 DEF Places
<1> QED
  BY <1>2, <1>4 DEF Holds

LEMMA AtLeft ==
  ASSUME NEW S \in Seq(Int), NEW T \in Seq(Int), NEW k \in Nat, NEW s \in Seq(Int)
  PROVE  /\ At(S, k, s) /\ k + Len(s) <= Len(S) => At(S \o T, k, s)
         /\ At(T, k, s) /\ k + Len(s) <= Len(T) => At(S \o T, Len(S) + k, s)
<1> DEFINE P == S \o T
<1>1. /\ Len(S) \in Nat /\ Len(T) \in Nat /\ Len(s) \in Nat
      /\ \A i \in 1..Len(S) : P[i] = S[i]
      /\ \A i \in 1..Len(T) : P[Len(S) + i] = T[i]
  OBVIOUS
<1> HIDE DEF P
<1>2. ASSUME At(S, k, s), k + Len(s) <= Len(S), NEW i \in 1..Len(s) PROVE P[k + i] = s[i]
  <2>1. k + i \in 1..Len(S)
    BY <1>1, <1>2
  <2> QED
    BY <1>1, <1>2, <2>1 DEF At
<1>3. ASSUME At(T, k, s), k + Len(s) <= Len(T), NEW i \in 1..Len(s) PROVE P[(Len(S) + k) + i] = s[i]
  <2>1. k + i \in 1..Len(T) /\ (Len(S) + k) + i = Len(S) + (k + i)
    BY <1>1, <1>3
  <2> QED
    BY <1>1, <1>3, <2>1 DEF At
<1> QED
  BY <1>2, <1>3 DEF At, P

\* Sums of places and lengths, in forms for Zenon to find.
Summed(w, x, y, z) ==
  /\ w + (x + 2 + y + z) = w + x + 2 + y + z
  /\ (w + (x + 2 + y + z)) + 1 = (w + x) + 1 + 2 + y + z
Ended(w, x) == ((w + x) + 1) + 2 = (w + x) + 3 /\ ((w + x) + 1) - 1 = w + x

LEMMA Sums ==
  /\ \A w, x, y, z \in Nat : Summed(w, x, y, z)
  /\ \A w, x \in Nat : Ended(w, x)
BY DEF Summed, Ended

LEMMA PieceEnds ==
  ASSUME NEW t \in Seq(Int), NEW b \in Seq(Int), NEW x \in Nat
  PROVE  Piece(t, b) \in Seq(Int) /\ x + Len(Piece(t, b)) = x + 2 + Len(t) + Len(b)
<1>1. Piece(t, b) \in Seq(Int) /\ Len(Piece(t, b)) = 2 + Len(t) + Len(b)
  BY PieceIs, Zenon
<1>2. PICK y \in Nat, z \in Nat : y = Len(t) /\ z = Len(b)
  BY JoinIs
<1>3. x + (2 + y + z) = x + 2 + y + z
  BY <1>2
<1> QED
  BY <1>1, <1>2, <1>3, Zenon

LEMMA HoldsJoin ==
  ASSUME NEW S \in Seq(Int), NEW T \in Seq(Int), NEW b \in Seq(Int),
         NEW ts \in Texts, NEW us \in Texts, Holds(S, b, ts), Holds(T, b, us)
  PROVE  Holds(S \o T, b, ts \o us)
<1> DEFINE n == Len(ts)
           m == Len(us)
           v == ts \o us
<1>1. PICK q \in [1..(n + 1) -> Nat] : Places(q, S, b, ts)
  BY DEF Holds
<1>2. PICK r \in [1..(m + 1) -> Nat] : Places(r, T, b, us)
  BY DEF Holds
<1>3. /\ n \in Nat /\ m \in Nat /\ Len(v) = n + m
      /\ \A i \in 1..n : v[i] = ts[i] /\ ts[i] \in Seq(Int)
      /\ \A i \in 1..m : v[n + i] = us[i] /\ us[i] \in Seq(Int)
  BY DEF Texts
<1>4. /\ Len(S) \in Nat /\ Len(T) \in Nat /\ Len(b) \in Nat /\ S \o T \in Seq(Int)
      /\ Len(S \o T) = Len(S) + Len(T)
  BY JoinIs
<1>5. /\ q[1] = 0 /\ q[n + 1] = Len(S)
      /\ \A i \in 1..n : /\ q[i + 1] = q[i] + 2 + Len(ts[i]) + Len(b)
                         /\ q[i + 1] <= Len(S) /\ At(S, q[i], Piece(ts[i], b))
  BY <1>1 DEF Places
<1>6. /\ r[1] = 0 /\ r[m + 1] = Len(T)
      /\ \A i \in 1..m : /\ r[i + 1] = r[i] + 2 + Len(us[i]) + Len(b)
                         /\ r[i + 1] <= Len(T) /\ At(T, r[i], Piece(us[i], b))
  BY <1>2 DEF Places
<1> DEFINE x == [i \in 1..(n + m + 1) |-> IF i <= n + 1 THEN q[i] ELSE Len(S) + r[i - n]]
<1> HIDE DEF n, m, v
<1>7. ASSUME NEW i \in 1..(n + m + 1)
      PROVE  (IF i <= n + 1 THEN q[i] ELSE Len(S) + r[i - n]) \in Nat
  <2>1. CASE i <= n + 1
    <3>1. i \in 1..(n + 1)
      BY <1>3, <2>1
    <3> QED
      BY <2>1, <3>1
  <2>2. CASE ~(i <= n + 1)
    <3>1. i - n \in 1..(m + 1)
      BY <1>3, <2>2
    <3> QED
      BY <1>4, <2>2, <3>1
  <2> QED
    BY <2>1, <2>2
<1>8. x \in [1..(n + m + 1) -> Nat]
  BY <1>7
<1>9. \A i \in 1..(n + 1) : x[i] = q[i]
  BY <1>3
<1>10. \A i \in 1..(m + 1) : x[n + i] = Len(S) + r[i]
  <2> SUFFICES ASSUME NEW i \in 1..(m + 1) PROVE x[n + i] = Len(S) + r[i]
    OBVIOUS
  <2>1. n + i \in 1..(n + m + 1) /\ (n + i) - n = i
    BY <1>3
  <2>2. CASE i = 1
    <3>1. x[n + 1] = q[n + 1] /\ r[1] = 0 /\ q[n + 1] = Len(S)
      <4>1. n + 1 \in 1..(n + 1)
        BY <1>3
      <4> HIDE DEF x
      <4> QED
        BY <1>5, <1>6, <1>9, <4>1
    <3> HIDE DEF x
    <3> QED
      BY <1>4, <2>2, <3>1
  <2>3. CASE i # 1
    <3>1. ~(n + i <= n + 1)
      BY <1>3, <2>3
    <3> QED
      BY <2>1, <3>1
  <2> QED
    BY <2>2, <2>3
<1> HIDE DEF x
<1>11. x[1] = 0 /\ x[Len(v) + 1] = Len(S \o T)
  <2>1. 1 \in 1..(n + 1) /\ m + 1 \in 1..(m + 1) /\ Len(v) + 1 = n + (m + 1)
    BY <1>3
  <2> QED
    BY <1>4, <1>5, <1>6, <1>9, <1>10, <2>1
<1>12. ASSUME NEW i \in 1..Len(v)
       PROVE  /\ x[i + 1] = x[i] + 2 + Len(v[i]) + Len(b) /\ x[i + 1] <= Len(S \o T)
              /\ At(S \o T, x[i], Piece(v[i], b))
  <2>1. CASE i \in 1..n
    <3>1. i \in 1..(n + 1) /\ i + 1 \in 1..(n + 1)
      BY <1>3, <2>1
    <3>2. x[i] = q[i] /\ x[i + 1] = q[i + 1] /\ v[i] = ts[i] /\ ts[i] \in Seq(Int) /\ q[i] \in Nat
      BY <1>3, <1>9, <2>1, <3>1
    <3>3. q[i + 1] = q[i] + 2 + Len(ts[i]) + Len(b) /\ q[i + 1] <= Len(S) /\ At(S, q[i], Piece(ts[i], b))
      BY <1>5, <2>1
    <3>4. Piece(ts[i], b) \in Seq(Int) /\ q[i] + Len(Piece(ts[i], b)) = q[i + 1]
      <4>1. ts[i] \in Seq(Int) /\ q[i] \in Nat
        BY <3>2
      <4>2. /\ Piece(ts[i], b) \in Seq(Int)
            /\ q[i] + Len(Piece(ts[i], b)) = q[i] + 2 + Len(ts[i]) + Len(b)
        BY <4>1, PieceEnds, Zenon
      <4>3. q[i + 1] = q[i] + 2 + Len(ts[i]) + Len(b)
        BY <3>3
      <4> QED
        BY <4>2, <4>3, Zenon
    <3>5. At(S \o T, q[i], Piece(ts[i], b))
      <4>1. q[i] + Len(Piece(ts[i], b)) <= Len(S)
        BY <3>3, <3>4
      <4> QED
        BY <3>2, <3>3, <3>4, <4>1, AtLeft, Zenon
    <3>6. x[i + 1] = x[i] + 2 + Len(v[i]) + Len(b) /\ At(S \o T, x[i], Piece(v[i], b))
      BY <3>2, <3>3, <3>5, Zenon
    <3>7. x[i + 1] <= Len(S)
      BY <3>2, <3>3, Zenon
    <3>8. x[i + 1] \in Nat
      BY <3>1, <3>2
    <3>9. x[i + 1] <= Len(S \o T)
      BY <1>4, <3>7, <3>8
    <3> QED
      BY <3>6, <3>9, Zenon
  <2>2. CASE i \notin 1..n
    <3>1. PICK j \in 1..m : i = n + j
      <4>1. i - n \in 1..m /\ i = n + (i - n)
        BY <1>3, <2>2
      <4> QED
        BY <4>1
    <3>2. j \in 1..(m + 1) /\ j + 1 \in 1..(m + 1) /\ i + 1 = n + (j + 1)
      BY <1>3, <3>1
    <3>3. /\ x[i] = Len(S) + r[j] /\ x[i + 1] = Len(S) + r[j + 1] /\ v[i] = us[j]
          /\ us[j] \in Seq(Int) /\ r[j] \in Nat /\ r[j + 1] \in Nat
      BY <1>3, <1>10, <3>1, <3>2
    <3>4. r[j + 1] = r[j] + 2 + Len(us[j]) + Len(b) /\ r[j + 1] <= Len(T) /\ At(T, r[j], Piece(us[j], b))
      BY <1>6
    <3>5. Piece(us[j], b) \in Seq(Int) /\ r[j] + Len(Piece(us[j], b)) = r[j + 1]
      <4>1. us[j] \in Seq(Int) /\ r[j] \in Nat
        BY <3>3
      <4>2. /\ Piece(us[j], b) \in Seq(Int)
            /\ r[j] + Len(Piece(us[j], b)) = r[j] + 2 + Len(us[j]) + Len(b)
        BY <4>1, PieceEnds, Zenon
      <4>3. r[j + 1] = r[j] + 2 + Len(us[j]) + Len(b)
        BY <3>4
      <4> QED
        BY <4>2, <4>3, Zenon
    <3>6. At(S \o T, Len(S) + r[j], Piece(us[j], b))
      <4>1. r[j] + Len(Piece(us[j], b)) <= Len(T)
        BY <3>4, <3>5
      <4> QED
        BY <3>3, <3>4, <3>5, <4>1, AtLeft, Zenon
    <3>7. x[i + 1] = x[i] + 2 + Len(v[i]) + Len(b) /\ x[i + 1] <= Len(S \o T)
      <4>1. Len(S) \in Nat /\ Len(T) \in Nat /\ Len(b) \in Nat
        BY <1>4
      <4>2. x[i + 1] = x[i] + 2 + Len(v[i]) + Len(b)
        <5>1. us[j] \in Seq(Int) /\ r[j] \in Nat
          BY <3>3
        <5>2. Len(S) + (r[j] + 2 + Len(us[j]) + Len(b)) = Len(S) + r[j] + 2 + Len(us[j]) + Len(b)
          <6>1. Len(us[j]) \in Nat
            BY <5>1
          <6>2. Summed(Len(S), r[j], Len(us[j]), Len(b))
            BY <4>1, <5>1, <6>1, Sums, Zenon
          <6> QED
            BY <6>2, Zenon DEF Summed
        <5>3. /\ r[j + 1] = r[j] + 2 + Len(us[j]) + Len(b)
              /\ x[i] = Len(S) + r[j] /\ x[i + 1] = Len(S) + r[j + 1] /\ v[i] = us[j]
          BY <3>3, <3>4
        <5> QED
          BY <5>2, <5>3, Zenon
      <4>3. Len(S) + r[j + 1] <= Len(S) + Len(T)
        BY <3>3, <3>4, <4>1
      <4>4. x[i + 1] <= Len(S \o T)
        BY <1>4, <3>3, <4>3
      <4> QED
        BY <4>2, <4>4
    <3> QED
      BY <3>3, <3>6, <3>7
  <2> QED
    BY <2>1, <2>2
<1>13. Places(x, S \o T, b, v)
  BY <1>11, <1>12 DEF Places
<1>14. x \in [1..(Len(v) + 1) -> Nat]
  BY <1>3, <1>8
<1> QED
  BY <1>13, <1>14 DEF Holds, v



----------------------------------------------------------------------------
(* Induction over the texts of a message.                                  *)

NatLess == OpToRel(<, Nat)

LEMMA NatLessIs ==
  /\ IsWellFoundedOn(NatLess, Nat)
  /\ \A x, y \in Nat : <<x, y>> \in NatLess <=> x < y
<1>1. IsWellFoundedOn(NatLess, Nat)
  BY NatLessThanWellFounded DEF NatLess
<1>2. \A x, y \in Nat : <<x, y>> \in NatLess <=> x < y
  BY DEF NatLess, OpToRel
<1> QED
  BY <1>1, <1>2

LEMMA Least ==
  ASSUME NEW T \in SUBSET Nat, T # {}
  PROVE  \E n \in T : \A m \in T : n <= m
<1>1. PICK n \in T : \A m \in T : ~(<<m, n>> \in NatLess)
  <2>1. IsWellFoundedOn(NatLess, Nat) /\ T \subseteq Nat
    BY NatLessIs
  <2> QED
    BY <2>1, WFMin
<1>2. n \in Nat /\ \A m \in T : m \in Nat
  OBVIOUS
<1>3. \A m \in T : ~(m < n)
  BY <1>1, <1>2, NatLessIs
<1> QED
  BY <1>2, <1>3

\* Induction over the turns of a loop, by a set in place of a predicate.
LEMMA EveryTurn ==
  ASSUME NEW N \in Nat, NEW S, 0 \in S, \A n \in 1..N : n - 1 \in S => n \in S
  PROVE  \A n \in 0..N : n \in S
<1> DEFINE T == {n \in 0..N : n \notin S}
<1>1. SUFFICES ASSUME T # {} PROVE FALSE
  OBVIOUS
<1>2. T \in SUBSET Nat
  OBVIOUS
<1>3. PICK n \in T : \A m \in T : n <= m
  <2> HIDE DEF T
  <2> QED
    BY <1>1, <1>2, Least
<1>4. n \in 0..N /\ n \notin S /\ n # 0
  BY <1>3
<1>5. n \in 1..N /\ n - 1 \in 0..N /\ ~(n <= n - 1)
  BY <1>4
<1>6. n - 1 \in S
  BY <1>3, <1>5
<1> QED
  BY <1>4, <1>5, <1>6

\* The values of a loop of N turns that starts with a, where g makes the next one.
IsLoop(f, N, V, a, g) ==
  f \in [0..N -> V] /\ f[0] = a /\ \A n \in 1..N : f[n] = g[<<n, f[n - 1]>>]

LEMMA LoopExists ==
  ASSUME NEW N \in Nat, NEW V, NEW a \in V, NEW g \in [(1..N) \X V -> V]
  PROVE  \E f : IsLoop(f, N, V, a, g)
<1> DEFINE Runs(h, n) == h[0] = a /\ \A k \in 1..n : h[k] = g[<<k, h[k - 1]>>]
           S == {n \in 0..N : \E h \in [0..N -> V] : Runs(h, n)}
<1>1. 0 \in S
  <2> DEFINE h == [k \in 0..N |-> a]
  <2>1. h \in [0..N -> V] /\ h[0] = a /\ 0 \in 0..N
    OBVIOUS
  <2> HIDE DEF h
  <2>2. \A k \in 1..0 : h[k] = g[<<k, h[k - 1]>>]
    OBVIOUS
  <2> QED
    BY <2>1, <2>2
<1>2. ASSUME NEW n \in 1..N, n - 1 \in S
      PROVE  n \in S
  <2>1. PICK h \in [0..N -> V] : Runs(h, n - 1)
    BY <1>2
  <2>2. n - 1 \in 0..N /\ h[n - 1] \in V /\ g[<<n, h[n - 1]>>] \in V
    OBVIOUS
  <2> DEFINE t == [k \in 0..N |-> IF k = n THEN g[<<n, h[n - 1]>>] ELSE h[k]]
  <2>3. t \in [0..N -> V]
    BY <2>2
  <2>4. t[n] = g[<<n, h[n - 1]>>] /\ \A k \in 0..N : k # n => t[k] = h[k]
    OBVIOUS
  <2>5. t[0] = a
    BY <2>1, <2>4
  <2>6. ASSUME NEW k \in 1..n
        PROVE  t[k] = g[<<k, t[k - 1]>>]
    <3>1. k \in 0..N /\ k - 1 \in 0..N /\ k - 1 # n
      OBVIOUS
    <3>2. t[k - 1] = h[k - 1]
      BY <2>4, <3>1
    <3>3. CASE k = n
      BY <2>4, <3>2, <3>3
    <3>4. CASE k # n
      <4>1. k \in 1..(n - 1)
        BY <3>4
      <4> QED
        BY <2>1, <2>4, <3>1, <3>2, <3>4, <4>1
    <3> QED
      BY <3>3, <3>4
  <2> HIDE DEF t
  <2> QED
    BY <2>3, <2>5, <2>6
<1>3. N \in S
  <2> HIDE DEF S
  <2>1. N \in 0..N
    OBVIOUS
  <2> QED
    BY <1>1, <1>2, <2>1, EveryTurn
<1> QED
  BY <1>3 DEF IsLoop

----------------------------------------------------------------------------
(* Who goes from text to text.                                             *)

LEMMA AtWithin ==
  ASSUME NEW S \in Seq(Int), NEW P, NEW k \in Nat, At(P, k, S),
         NEW s \in Seq(Int), NEW j \in Nat, At(S, j, s), j + Len(s) <= Len(S)
  PROVE  At(P, k + j, s)
<1>1. Len(S) \in Nat /\ Len(s) \in Nat
  OBVIOUS
<1>2. ASSUME NEW i \in 1..Len(s) PROVE P[(k + j) + i] = s[i]
  <2>1. j + i \in 1..Len(S) /\ k + (j + i) = (k + j) + i
    BY <1>1
  <2> QED
    BY <2>1 DEF At
<1> QED
  BY <1>2 DEF At

LEMMA PieceAt ==
  ASSUME NEW t \in Seq(Int), NEW b \in Seq(Int), NEW P, NEW k \in Nat, At(P, k, Piece(t, b))
  PROVE  /\ TwoAt(P, k + 1) = Len(t)
         /\ SubSeq(P, k + 3, k + 2 + Len(t) + Len(b)) = t \o b
<1>1. /\ Two(Len(t)) \in Seq(Int) /\ Len(Two(Len(t))) = 2 /\ t \o b \in Seq(Int)
      /\ Len(t) \in Nat /\ Len(b) \in Nat
  BY PieceIs, Zenon
<1>2. At(P, k, Two(Len(t))) /\ At(P, k + Len(Two(Len(t))), t \o b)
  <2>1. At(P, k, Two(Len(t)) \o (t \o b))
    BY DEF Piece
  <2> QED
    BY <1>1, <2>1, AtJoin, Zenon
<1>3. At(P, k + 2, t \o b) /\ k + 2 \in Nat
  BY <1>1, <1>2
<1>4. SubSeq(P, (k + 2) + 1, (k + 2) + Len(t \o b)) = t \o b
  BY <1>1, <1>3, SegmentIs, Zenon
<1>5. Len(t \o b) = Len(t) + Len(b)
  BY JoinIs
<1>6. (k + 2) + 1 = k + 3 /\ (k + 2) + (Len(t) + Len(b)) = k + 2 + Len(t) + Len(b)
  BY <1>1
<1>7. TwoAt(P, k + 1) = Len(t)
  BY <1>1, <1>2, TwoAtIs, Zenon
<1> QED
  BY <1>4, <1>5, <1>6, <1>7, Zenon

\* What the recursion of Starts says of a function.
Steps(f, P, k, b, n) ==
  f = [i \in 1..(n + 1) |-> IF i = 1 THEN k ELSE f[i - 1] + 2 + TwoAt(P, f[i - 1]) + Len(b)]

LEMMA StartsStep ==
  ASSUME NEW P, NEW k, NEW b, NEW n, NEW g, Steps(g, P, k, b, n)
  PROVE  Steps(Starts(P, k, b, n), P, k, b, n)
<1> DEFINE f == CHOOSE h : Steps(h, P, k, b, n)
<1>1. Steps(f, P, k, b, n)
  OBVIOUS
<1>2. Starts(P, k, b, n) = f
  BY Zenon DEF Starts, Steps
<1> QED
  BY <1>1, <1>2, Zenon

\* Nothing else does it.
LEMMA StepsAre ==
  ASSUME NEW n \in Nat, NEW P, NEW k, NEW b, NEW f, Steps(f, P, k, b, n), NEW g, Steps(g, P, k, b, n)
  PROVE  \A i \in 1..(n + 1) : f[i] = g[i]
<1> DEFINE T == {i \in 0..n : f[i + 1] = g[i + 1]}
<1>1. \A i \in 1..(n + 1) :
        /\ f[i] = IF i = 1 THEN k ELSE f[i - 1] + 2 + TwoAt(P, f[i - 1]) + Len(b)
        /\ g[i] = IF i = 1 THEN k ELSE g[i - 1] + 2 + TwoAt(P, g[i - 1]) + Len(b)
  BY DEF Steps
<1>2. 0 \in T
  <2>1. 1 \in 1..(n + 1) /\ 0 \in 0..n /\ 0 + 1 = 1
    OBVIOUS
  <2>2. f[1] = k /\ g[1] = k
    BY <1>1, <2>1
  <2> QED
    BY <2>1, <2>2
<1>3. ASSUME NEW i \in 1..n, i - 1 \in T PROVE i \in T
  <2>1. i + 1 \in 1..(n + 1) /\ i \in 0..n /\ (i + 1) - 1 = i /\ (i - 1) + 1 = i /\ i + 1 # 1
    OBVIOUS
  <2>2. f[i] = g[i]
    BY <1>3, <2>1
  <2>3. /\ f[i + 1] = f[i] + 2 + TwoAt(P, f[i]) + Len(b)
        /\ g[i + 1] = g[i] + 2 + TwoAt(P, g[i]) + Len(b)
    BY <1>1, <2>1
  <2>4. f[i + 1] = g[i + 1]
    BY <2>2, <2>3
  <2> QED
    BY <2>1, <2>4
<1>4. \A i \in 0..n : i \in T
  <2> HIDE DEF T
  <2> QED
    BY <1>2, <1>3, EveryTurn
<1>5. ASSUME NEW i \in 1..(n + 1) PROVE f[i] = g[i]
  <2>1. i - 1 \in 0..n /\ (i - 1) + 1 = i
    OBVIOUS
  <2>2. i - 1 \in T
    BY <1>4, <2>1
  <2> QED
    BY <2>1, <2>2
<1> QED
  BY <1>5

LEMMA TextsFollow ==
  ASSUME NEW S \in Seq(Int), NEW b \in Seq(Int), NEW ts \in Texts, Holds(S, b, ts),
         NEW P, NEW k \in Nat, At(P, k, S), Len(P) = k + Len(S)
  PROVE  AreTexts(P, k + 1, b, ts)
<1> DEFINE n == Len(ts)
           at == Starts(P, k + 1, b, n)
<1>1. PICK q \in [1..(n + 1) -> Nat] : Places(q, S, b, ts)
  BY DEF Holds
<1>2. /\ n \in Nat /\ Len(b) \in Nat /\ Len(S) \in Nat
      /\ \A i \in 1..n : ts[i] \in Seq(Int) /\ Len(ts[i]) \in Nat
  BY DEF Texts
<1>3. /\ q[1] = 0 /\ q[n + 1] = Len(S)
      /\ \A i \in 1..n : /\ q[i + 1] = q[i] + 2 + Len(ts[i]) + Len(b)
                         /\ q[i + 1] <= Len(S) /\ At(S, q[i], Piece(ts[i], b))
  BY <1>1 DEF Places
<1> DEFINE g == [i \in 1..(n + 1) |-> (k + q[i]) + 1]
<1> HIDE DEF n
<1>4. ASSUME NEW i \in 1..n
      PROVE  /\ TwoAt(P, (k + q[i]) + 1) = Len(ts[i])
             /\ SubSeq(P, (k + q[i]) + 3, (k + q[i]) + 2 + Len(ts[i]) + Len(b)) = ts[i] \o b
  <2>1. q[i] \in Nat /\ ts[i] \in Seq(Int)
    BY <1>2
  <2>2. Piece(ts[i], b) \in Seq(Int) /\ q[i] + Len(Piece(ts[i], b)) = q[i] + 2 + Len(ts[i]) + Len(b)
    BY <2>1, PieceEnds, Zenon
  <2>3. q[i] + Len(Piece(ts[i], b)) <= Len(S) /\ At(S, q[i], Piece(ts[i], b))
    BY <1>3, <2>2
  <2>4. At(P, k + q[i], Piece(ts[i], b))
    BY <2>1, <2>2, <2>3, AtWithin, Zenon
  <2>5. k + q[i] \in Nat
    BY <2>1
  <2> QED
    BY <2>1, <2>4, <2>5, PieceAt, Zenon
<1>5. Steps(g, P, k + 1, b, n)
  <2>1. ASSUME NEW i \in 1..(n + 1)
        PROVE  (k + q[i]) + 1 = IF i = 1 THEN k + 1 ELSE g[i - 1] + 2 + TwoAt(P, g[i - 1]) + Len(b)
    <3>1. CASE i = 1
      BY <1>3, <3>1
    <3>2. CASE i # 1
      <4>1. PICK j \in 1..n : i = j + 1
        <5>1. i - 1 \in 1..n /\ i = (i - 1) + 1
          BY <1>2, <3>2
        <5> QED
          BY <5>1
      <4>2. j \in 1..(n + 1) /\ i - 1 = j
        BY <1>2, <4>1
      <4>3. g[i - 1] = (k + q[j]) + 1 /\ q[j] \in Nat
        BY <4>2
      <4>4. TwoAt(P, g[i - 1]) = Len(ts[j])
        BY <1>4, <4>3
      <4>5. q[i] = q[j] + 2 + Len(ts[j]) + Len(b)
        BY <1>3, <4>1
      <4>6. Summed(k, q[j], Len(ts[j]), Len(b))
        BY <1>2, <4>3, Sums, Zenon
      <4>7. (k + (q[j] + 2 + Len(ts[j]) + Len(b))) + 1 = (k + q[j]) + 1 + 2 + Len(ts[j]) + Len(b)
        BY <4>6, Zenon DEF Summed
      <4> HIDE DEF g
      <4> QED
        BY <3>2, <4>3, <4>4, <4>5, <4>7, Zenon
    <3> QED
      BY <3>1, <3>2
  <2> HIDE DEF g
  <2>2. g = [i \in 1..(n + 1) |-> IF i = 1 THEN k + 1 ELSE g[i - 1] + 2 + TwoAt(P, g[i - 1]) + Len(b)]
    <3>1. g = [i \in 1..(n + 1) |-> (k + q[i]) + 1]
      BY DEF g
    <3> QED
      BY <2>1, <3>1, Zenon
  <2> QED
    BY <2>2 DEF Steps
<1>6. \A i \in 1..(n + 1) : at[i] = g[i]
  <2> HIDE DEF g
  <2>1. Steps(at, P, k + 1, b, n)
    BY <1>5, StartsStep, Zenon
  <2> HIDE DEF at
  <2> QED
    BY <1>2, <1>5, <2>1, StepsAre
<1> HIDE DEF at
<1>7. \A i \in 1..(n + 1) : at[i] = (k + q[i]) + 1
  BY <1>6
<1>8. at[n + 1] = Len(P) + 1
  BY <1>2, <1>3, <1>7
<1>9. ASSUME NEW i \in 1..n PROVE SubSeq(P, at[i] + 2, at[i + 1] - 1) = ts[i] \o b
  <2>1. i \in 1..(n + 1) /\ i + 1 \in 1..(n + 1)
    BY <1>2
  <2>2. at[i] = (k + q[i]) + 1 /\ at[i + 1] = (k + q[i + 1]) + 1 /\ q[i] \in Nat /\ q[i + 1] \in Nat
    BY <1>7, <2>1
  <2>3. at[i] + 2 = (k + q[i]) + 3 /\ at[i + 1] - 1 = k + q[i + 1]
    <3>1. Ended(k, q[i]) /\ Ended(k, q[i + 1])
      BY <2>2, Sums, Zenon
    <3> QED
      BY <2>2, <3>1, Zenon DEF Ended
  <2>4. k + q[i + 1] = (k + q[i]) + 2 + Len(ts[i]) + Len(b)
    <3>1. Summed(k, q[i], Len(ts[i]), Len(b))
      BY <1>2, <2>2, Sums, Zenon
    <3>2. k + (q[i] + 2 + Len(ts[i]) + Len(b)) = (k + q[i]) + 2 + Len(ts[i]) + Len(b)
      BY <3>1, Zenon DEF Summed
    <3>3. q[i + 1] = q[i] + 2 + Len(ts[i]) + Len(b)
      BY <1>3
    <3> QED
      BY <3>2, <3>3, Zenon
  <2> QED
    BY <1>4, <2>3, <2>4, Zenon
<1> QED
  BY <1>8, <1>9 DEF AreTexts, at, n


----------------------------------------------------------------------------
(* The bodies.                                                             *)

LEMMA HoldsOptional ==
  ASSUME NEW c, NEW S \in Seq(Int), NEW b \in Seq(Int), NEW ts \in Texts, c => Holds(S, b, ts)
  PROVE  /\ Optional(c, S) \in Seq(Int) /\ Optional(c, ts) \in Texts
         /\ Holds(Optional(c, S), b, Optional(c, ts))
<1>1. CASE c
  BY <1>1 DEF Optional
<1>2. CASE ~c
  <2>1. <<>> \in Seq(Int) /\ <<>> \in Texts
    BY DEF Texts
  <2> QED
    BY <1>2, <2>1, HoldsNone DEF Optional
<1> QED
  BY <1>1, <1>2

LEMMA StringIsPiece ==
  ASSUME NEW n \in Nat, NEW b \in Seq(Int)
  PROVE  String(n) = Piece(Text(n), <<>>) /\ String(n) \o b = Piece(Text(n), b)
<1>1. Two(n) \in Seq(Int) /\ Text(n) \in Seq(Int) /\ Len(Text(n)) = n
  BY TwoIs, TextIs
<1>2. Text(n) \o <<>> = Text(n)
  BY <1>1, ConcatEmptySeq
<1>3. Regrouped(Two(n), Text(n), b)
  BY <1>1, Associative, Zenon
<1>4. String(n) \o b = Two(n) \o (Text(n) \o b)
  BY <1>3, Zenon DEF Regrouped, String
<1> QED
  BY <1>1, <1>2, <1>4, Zenon DEF Piece, String

LEMMA TextTyped == \A t \in Seq(Int) : <<t>> \in Texts
BY DEF Texts

LEMMA HoldsString ==
  ASSUME NEW n \in Nat, NEW b \in Seq(Int)
  PROVE  /\ String(n) \in Seq(Int) /\ String(n) \o b \in Seq(Int)
         /\ Text(n) \in Seq(Int) /\ <<Text(n)>> \in Texts
         /\ Holds(String(n), <<>>, <<Text(n)>>)
         /\ Holds(String(n) \o b, b, <<Text(n)>>)
<1>1. Text(n) \in Seq(Int) /\ <<>> \in Seq(Int) /\ String(n) \in Seq(Int)
  <2>1. <<>> \in Seq(Int)
    OBVIOUS
  <2> QED
    BY <2>1, TextIs, StringIs, Zenon
<1>2. Holds(Piece(Text(n), <<>>), <<>>, <<Text(n)>>) /\ Holds(Piece(Text(n), b), b, <<Text(n)>>)
  BY <1>1, HoldsOne, Zenon
<1>3. String(n) \o b \in Seq(Int)
  BY <1>1, Associative, Zenon
<1> QED
  BY <1>1, <1>2, <1>3, StringIsPiece, TextTyped, Zenon

LEMMA TextsJoin ==
  ASSUME NEW ts \in Texts, NEW us \in Texts
  PROVE  ts \o us \in Texts
BY DEF Texts

\* HoldsJoin and the types of what it joins.
Held(S, b, ts) == S \in Seq(Int) /\ ts \in Texts /\ Holds(S, b, ts)

LEMMA HeldJoin ==
  ASSUME NEW S, NEW T, NEW b \in Seq(Int), NEW ts, NEW us, Held(S, b, ts), Held(T, b, us)
  PROVE  Held(S \o T, b, ts \o us)
<1>1. S \in Seq(Int) /\ T \in Seq(Int) /\ ts \in Texts /\ us \in Texts
  BY DEF Held
<1>2. Holds(S \o T, b, ts \o us)
  BY <1>1, HoldsJoin, Zenon DEF Held
<1>3. S \o T \in Seq(Int)
  BY <1>1, JoinIs, Zenon
<1> QED
  BY <1>1, <1>2, <1>3, TextsJoin, Zenon DEF Held

LEMMA HeldOptional ==
  ASSUME NEW c, NEW S, NEW b \in Seq(Int), NEW ts, Held(S, b, ts)
  PROVE  Held(Optional(c, S), b, Optional(c, ts))
BY HoldsOptional, Zenon DEF Held

LEMMA HeldString ==
  ASSUME NEW n \in Nat, NEW b \in Seq(Int)
  PROVE  Held(String(n), <<>>, <<Text(n)>>) /\ Held(String(n) \o b, b, <<Text(n)>>)
BY HoldsString, Zenon DEF Held

\* The topics of a Subscribe.
LEMMA PrefixIs ==
  ASSUME NEW N \in Nat, NEW ts \in Texts, Len(ts) = N
  PROVE  /\ [j \in 1..0 |-> ts[j]] = <<>> /\ [j \in 1..N |-> ts[j]] = ts
         /\ \A i \in 1..N : /\ [j \in 1..i |-> ts[j]] = [j \in 1..(i - 1) |-> ts[j]] \o <<ts[i]>>
                            /\ ts[i] \in Seq(Int)
<1>1. ts \in [1..N -> Seq(Int)] /\ \A i \in 1..N : ts[i] \in Seq(Int)
  BY DEF Texts
<1>2. [j \in 1..0 |-> ts[j]] = <<>> /\ [j \in 1..N |-> ts[j]] = ts
  BY <1>1
<1>3. ASSUME NEW i \in 1..N
      PROVE  [j \in 1..i |-> ts[j]] = [j \in 1..(i - 1) |-> ts[j]] \o <<ts[i]>>
  <2> DEFINE p == [j \in 1..(i - 1) |-> ts[j]]
             w == [j \in 1..i |-> ts[j]]
  <2>1. p \in [1..(i - 1) -> Seq(Int)] /\ w \in [1..i -> Seq(Int)] /\ i - 1 \in Nat
    BY <1>1
  <2>2. p \in Seq(Seq(Int)) /\ w \in Seq(Seq(Int))
    BY <2>1, SeqDef
  <2>3. Len(p) = i - 1 /\ Len(w) = i
    BY <2>1, <2>2, LenProperties
  <2>4. \A j \in 1..(i - 1) : p[j] = ts[j]
    OBVIOUS
  <2>5. \A j \in 1..i : w[j] = ts[j]
    OBVIOUS
  <2> HIDE DEF p, w
  <2>6. <<ts[i]>> \in Seq(Seq(Int)) /\ Len(<<ts[i]>>) = 1 /\ <<ts[i]>>[1] = ts[i]
    BY <1>1
  <2>7. PICK u \in Seq(Seq(Int)) : u = <<ts[i]>>
    BY <2>6
  <2>8. p \o u \in Seq(Seq(Int)) /\ Len(p \o u) = i
    BY <2>2, <2>3, <2>6, <2>7
  <2>9. ASSUME NEW j \in 1..i PROVE (p \o u)[j] = w[j]
    <3>1. CASE j = i
      BY <2>2, <2>3, <2>5, <2>6, <2>7, <3>1
    <3>2. CASE j # i
      <4>1. j \in 1..(i - 1)
        BY <3>2
      <4> QED
        BY <2>2, <2>3, <2>4, <2>5, <2>7, <4>1
    <3> QED
      BY <3>1, <3>2
  <2>10. w = p \o u
    BY <2>2, <2>3, <2>8, <2>9, SeqEqual
  <2> QED
    BY <2>7, <2>10 DEF p, w
<1> QED
  BY <1>1, <1>2, <1>3


\* What the recursion of FlattenSeq says of a function.
Flattens(f, ss) ==
  f = [i \in 1..Len(ss) |-> IF i = 1 THEN ss[i] ELSE f[i - 1] \o ss[i]]

LEMMA FlattenIs ==
  ASSUME NEW ss \in Texts, Len(ss) # 0
  PROVE  \E f : Flattens(f, ss) /\ FlattenSeq(ss) = f[Len(ss)]
<1> DEFINE N == Len(ss)
           V == Seq(Int)
           g == [p \in (1..N) \X V |-> p[2] \o ss[p[1]]]
<1>1. N \in Nat /\ <<>> \in V /\ \A i \in 1..N : ss[i] \in V
  BY DEF Texts
<1>2. g \in [(1..N) \X V -> V]
  <2>1. \A i \in 1..N, v \in V : v \o ss[i] \in V
    BY <1>1, JoinIs
  <2>2. \A p \in (1..N) \X V : p[1] \in 1..N /\ p[2] \in V
    OBVIOUS
  <2> HIDE DEF N, V
  <2> QED
    BY <2>1, <2>2
<1>3. \A i \in 1..N, v \in V : g[<<i, v>>] = v \o ss[i]
  OBVIOUS
<1> HIDE DEF N, V, g
<1>4. PICK h : IsLoop(h, N, V, <<>>, g)
  BY <1>1, <1>2, LoopExists, Zenon
<1>5. /\ h \in [0..N -> V] /\ h[0] = <<>>
      /\ \A i \in 1..N : h[i] = g[<<i, h[i - 1]>>]
  BY <1>4 DEF IsLoop
<1>6. ASSUME NEW i \in 1..N PROVE h[i] = h[i - 1] \o ss[i]
  <2>1. i - 1 \in 0..N
    BY <1>1
  <2>2. h[i - 1] \in V
    BY <1>5, <2>1
  <2> QED
    BY <1>3, <1>5, <2>2, Zenon
<1> DEFINE t == [i \in 1..N |-> h[i]]
<1>7. ASSUME NEW i \in 1..N PROVE h[i] = IF i = 1 THEN ss[i] ELSE t[i - 1] \o ss[i]
  <2>1. CASE i = 1
    <3>1. h[i - 1] = <<>>
      BY <1>5, <2>1
    <3>2. ss[i] \in Seq(Int)
      BY <1>1 DEF V
    <3>3. <<>> \o ss[i] = ss[i]
      BY <3>2, ConcatEmptySeq
    <3> QED
      BY <1>6, <2>1, <3>1, <3>3, Zenon
  <2>2. CASE i # 1
    <3>1. i - 1 \in 1..N
      BY <1>1, <2>2
    <3>2. t[i - 1] = h[i - 1]
      BY <3>1
    <3> HIDE DEF t
    <3> QED
      BY <1>6, <2>2, <3>2, Zenon
  <2> QED
    BY <2>1, <2>2
<1>8. Flattens(t, ss)
  <2>1. t = [i \in 1..N |-> h[i]]
    OBVIOUS
  <2> HIDE DEF t
  <2>2. t = [i \in 1..N |-> IF i = 1 THEN ss[i] ELSE t[i - 1] \o ss[i]]
    BY <1>7, <2>1, Zenon
  <2> QED
    BY <2>2 DEF Flattens, N
<1> HIDE DEF t
<1> DEFINE f == CHOOSE x : Flattens(x, ss)
<1>9. Flattens(f, ss)
  BY <1>8, Zenon
<1>10. FlattenSeq(ss) = f[Len(ss)]
  BY Zenon DEF FlattenSeq, Flattens
<1> QED
  BY <1>9, <1>10, Zenon

LEMMA FlattenHeld ==
  ASSUME NEW ss \in Texts, NEW b \in Seq(Int), NEW ts \in Texts, Len(ts) = Len(ss),
         \A i \in 1..Len(ss) : Held(ss[i], b, <<ts[i]>>)
  PROVE  Held(FlattenSeq(ss), b, ts)
<1> DEFINE N == Len(ss)
           p(i) == [j \in 1..i |-> ts[j]]
<1>1. N \in Nat
  BY DEF Texts
<1>2. CASE N = 0
  <2>1. ss = <<>> /\ ts = <<>>
    BY <1>2 DEF Texts
  <2>2. FlattenSeq(ss) = ss
    BY <1>2, Zenon DEF FlattenSeq
  <2>3. <<>> \in Seq(Int) /\ <<>> \in Texts
    BY DEF Texts
  <2> QED
    BY <2>1, <2>2, <2>3, HoldsNone, Zenon DEF Held
<1>3. CASE N # 0
  <2>1. PICK f : Flattens(f, ss) /\ FlattenSeq(ss) = f[N]
    BY <1>3, FlattenIs, Zenon
  <2>2. \A i \in 1..N : f[i] = IF i = 1 THEN ss[i] ELSE f[i - 1] \o ss[i]
    BY <2>1 DEF Flattens
  <2>3. /\ p(0) = <<>> /\ p(N) = ts
        /\ \A i \in 1..N : p(i) = p(i - 1) \o <<ts[i]>> /\ ts[i] \in Seq(Int)
    BY <1>1, PrefixIs
  <2> HIDE DEF N, p
  <2> DEFINE T == {i \in 0..N : i > 0 => Held(f[i], b, p(i))}
  <2>4. 0 \in T
    BY <1>1
  <2>5. ASSUME NEW i \in 1..N, i - 1 \in T PROVE i \in T
    <3>1. i \in 0..N
      BY <1>1
    <3>2. Held(ss[i], b, <<ts[i]>>)
      BY DEF N
    <3>3. CASE i = 1
      <4>1. p(i) = <<>> \o <<ts[i]>>
        <5>1. i - 1 = 0
          BY <3>3
        <5>2. p(i - 1) = <<>>
          BY <2>3, <5>1, Zenon
        <5> QED
          BY <2>3, <5>2, Zenon
      <4>2. <<>> \o <<ts[i]>> = <<ts[i]>>
        <5>1. <<ts[i]>> \in Seq(Seq(Int))
          BY <2>3, TextTyped, Zenon DEF Texts
        <5> QED
          BY <5>1, ConcatEmptySeq
      <4>3. f[i] = ss[i]
        BY <2>2, <3>3
      <4>4. Held(f[i], b, p(i))
        BY <3>2, <4>1, <4>2, <4>3, Zenon
      <4> QED
        BY <3>1, <4>4
    <3>4. CASE i # 1
      <4>1. i - 1 > 0
        BY <1>1, <3>4
      <4>2. Held(f[i - 1], b, p(i - 1))
        BY <2>5, <4>1
      <4>3. f[i] = f[i - 1] \o ss[i] /\ p(i) = p(i - 1) \o <<ts[i]>>
        BY <2>2, <2>3, <3>4
      <4>4. Held(f[i], b, p(i))
        BY <3>2, <4>2, <4>3, HeldJoin, Zenon
      <4> QED
        BY <3>1, <4>4
    <3> QED
      BY <3>3, <3>4
  <2>6. N \in T
    <3> HIDE DEF T
    <3>1. N \in 0..N
      BY <1>1
    <3> QED
      BY <1>1, <2>4, <2>5, <3>1, EveryTurn
  <2>7. Held(f[N], b, p(N))
    BY <1>1, <1>3, <2>6 DEF N
  <2> QED
    BY <2>1, <2>3, <2>7, Zenon
<1> QED
  BY <1>2, <1>3


LEMMA OutFields ==
  ASSUME NEW m \in OutTypes
  PROVE  /\ m.class \in Classes /\ (m.class = "PUBLISH" => m \in Publications)
         /\ m.class = "CONNECT" =>
              /\ m.clientid \in Nat /\ m.will \in Nat /\ m.message \in Nat
              /\ m.user \in Nat /\ m.password \in Nat /\ m.keepalive \in Nat
         /\ m.class \in {"PUBREC", "PUBREL"} => m.id \in Nat
         /\ m.class = "SUBSCRIBE" => m.id \in Nat /\ m.qos \in 0..2 /\ m.topics \in Seq(Nat)
<1>1. \A k \in 0..(Byte * Byte - 1) : k \in Nat
  OBVIOUS
<1>2. m.class \in Classes /\ (m.class = "PUBLISH" => m \in Publications)
  BY DEF OutTypes, Publications, Classes
<1>3. m.class = "CONNECT" =>
              /\ m.clientid \in Nat /\ m.will \in Nat /\ m.message \in Nat
              /\ m.user \in Nat /\ m.password \in Nat /\ m.keepalive \in Nat
  BY <1>1 DEF OutTypes, Publications, Ids
<1>4. m.class \in {"PUBREC", "PUBREL"} => m.id \in Nat
  BY <1>1 DEF OutTypes, Publications, Ids
<1>5. m.class = "SUBSCRIBE" => m.id \in Nat /\ m.qos \in 0..2 /\ m.topics \in Seq(Nat)
  BY <1>1 DEF OutTypes, Publications, Ids
<1> QED
  BY <1>2, <1>3, <1>4, <1>5

LEMMA TopicsHeld ==
  ASSUME NEW m \in OutTypes, m.class = "SUBSCRIBE"
  PROVE  Held(TopicsBody(m), <<m.qos>>, [i \in 1..Len(m.topics) |-> Text(m.topics[i])])
<1> DEFINE N == Len(m.topics)
           b == <<m.qos>>
           ss == [i \in 1..N |-> String(m.topics[i]) \o Optional(m.class = "SUBSCRIBE", b)]
           ts == [i \in 1..N |-> Text(m.topics[i])]
<1>1. N \in Nat /\ b \in Seq(Int) /\ \A i \in 1..N : m.topics[i] \in Nat
  BY OutFields
<1>2. \A i \in 1..N : Held(String(m.topics[i]) \o b, b, <<Text(m.topics[i])>>)
  BY <1>1, HeldString, Zenon
<1>3. Optional(m.class = "SUBSCRIBE", b) = b
  BY DEF Optional
<1> HIDE DEF N, b
<1>4. \A i \in 1..N : /\ String(m.topics[i]) \o Optional(m.class = "SUBSCRIBE", b) \in Seq(Int)
                      /\ Text(m.topics[i]) \in Seq(Int)
                      /\ Held(String(m.topics[i]) \o Optional(m.class = "SUBSCRIBE", b), b,
                              <<Text(m.topics[i])>>)
  BY <1>1, <1>2, <1>3, HoldsString, Zenon
<1>5. ss \in [1..N -> Seq(Int)] /\ ts \in [1..N -> Seq(Int)]
  BY <1>4, Zenon
<1>6. \A i \in 1..N : Held(ss[i], b, <<ts[i]>>)
  BY <1>4, Zenon
<1>7. TopicsBody(m) = FlattenSeq(ss)
  BY Zenon DEF TopicsBody, N, b
<1> HIDE DEF ss, ts
<1>8. ss \in Texts /\ Len(ss) = N /\ ts \in Texts /\ Len(ts) = N
  <2>1. ss \in Texts /\ ts \in Texts
    BY <1>1, <1>5, SeqDef DEF Texts
  <2> QED
    BY <1>1, <1>5, <2>1, LenProperties DEF Texts
<1>9. Held(FlattenSeq(ss), b, ts)
  BY <1>1, <1>6, <1>8, FlattenHeld, Zenon
<1> QED
  BY <1>7, <1>9, Zenon DEF ts, N, b

LEMMA SubscribeUnderstood ==
  ASSUME NEW m \in OutTypes, m.class = "SUBSCRIBE", NEW qos
  PROVE  Body(m) \in Seq(Int) /\ Understood(m, qos, Body(m))
<1> DEFINE T == TopicsBody(m)
           P == Two(m.id) \o T
           ts == [i \in 1..Len(m.topics) |-> Text(m.topics[i])]
<1>1. m.id \in Nat /\ <<m.qos>> \in Seq(Int) /\ T \in Seq(Int) /\ ts \in Texts
      /\ Holds(T, <<m.qos>>, ts)
  <2>1. m.id \in Nat /\ <<m.qos>> \in Seq(Int)
    BY OutFields
  <2> QED
    BY <2>1, TopicsHeld, Zenon DEF Held
<1>2. Two(m.id) \in Seq(Int) /\ Len(Two(m.id)) = 2
  BY <1>1, TwoIs
<1> HIDE DEF T, ts
<1>3. P \in Seq(Int) /\ Len(P) = Len(Two(m.id)) + Len(T)
  BY <1>1, <1>2, JoinIs, Zenon
<1>4. Body(m) = P
  BY Zenon DEF Body, T
<1>5. At(P, 0, Two(m.id)) /\ At(P, 0 + Len(Two(m.id)), T)
  BY <1>1, <1>2, <1>3, AtItself, AtJoin
<1> HIDE DEF P
<1>6. TwoAt(P, 0 + 1) = m.id
  BY <1>1, <1>5, TwoAtIs
<1>7. AreTexts(P, 2 + 1, <<m.qos>>, ts)
  <2>1. At(P, 2, T) /\ 2 \in Nat /\ Len(P) = 2 + Len(T)
    BY <1>2, <1>3, <1>5
  <2> QED
    BY <1>1, <2>1, TextsFollow, Zenon
<1>8. TwoAt(P, 1) = m.id /\ AreTexts(P, 3, <<m.qos>>, ts)
  BY <1>6, <1>7
<1>9. Understood(m, qos, P)
  BY <1>8 DEF Understood, ts
<1> QED
  BY <1>3, <1>4, <1>9, Zenon

LEMMA PublishUnderstood ==
  ASSUME NEW m \in OutTypes, m.class = "PUBLISH"
  PROVE  Body(m) \in Seq(Int) /\ Understood(m, m.qos, Body(m))
<1> DEFINE P == PublishBody(m)
           pos == Behind(m.topic, m.qos)
<1>1. m \in Publications
  BY OutFields
<1>2. /\ P \in Seq(Int) /\ pos \in Nat /\ Len(P) = pos + m.payload
      /\ TwoAt(P, 1) = m.topic /\ SubSeq(P, 3, m.topic + 2) = Text(m.topic)
      /\ m.qos > 0 => TwoAt(P, m.topic + 3) = m.id
      /\ \A n \in 0..m.payload : SubSeq(P, pos + 1, pos + n) = Text(n)
  BY <1>1, PublicationIs, Zenon
<1>3. m.topic \in Nat /\ m.payload \in Nat /\ m.qos \in Nat
  BY <1>1 DEF Publications
<1>4. Body(m) = P
  BY DEF Body
<1>5. pos + 1 = m.topic + 3 + IF m.qos > 0 THEN 2 ELSE 0
  BY <1>3, BehindIs, Zenon
<1> HIDE DEF P, pos
<1>6. SubSeq(P, pos + 1, Len(P)) = Text(m.payload)
  <2>1. m.payload \in 0..m.payload
    BY <1>3
  <2> QED
    BY <1>2, <2>1, Zenon
<1>7. Understood(m, m.qos, P)
  BY <1>2, <1>5, <1>6, Zenon DEF Understood
<1> QED
  BY <1>2, <1>4, <1>7, Zenon

LEMMA IdUnderstood ==
  ASSUME NEW m \in OutTypes, m.class \in {"PUBREC", "PUBREL", "PINGREQ", "DISCONNECT"}, NEW qos
  PROVE  Body(m) \in Seq(Int) /\ Understood(m, qos, Body(m))
<1>1. CASE m.class \in {"PUBREC", "PUBREL"}
  <2>1. m.id \in Nat /\ Body(m) = Two(m.id)
    BY <1>1, OutFields DEF Body
  <2>2. Two(m.id) \in Seq(Int) /\ At(Two(m.id), 0, Two(m.id))
    BY <2>1, TwoIs, AtItself
  <2>3. TwoAt(Two(m.id), 0 + 1) = m.id
    BY <2>1, <2>2, TwoAtIs
  <2>4. TwoAt(Body(m), 1) = m.id
    BY <2>1, <2>3
  <2>5. Understood(m, qos, Body(m))
    BY <1>1, <2>4 DEF Understood
  <2> QED
    BY <2>1, <2>2, <2>5
<1>2. CASE m.class \in {"PINGREQ", "DISCONNECT"}
  <2>1. Body(m) = <<>>
    BY <1>2 DEF Body
  <2>2. Understood(m, qos, Body(m))
    BY <1>2, <2>1 DEF Understood
  <2> QED
    BY <2>1, <2>2
<1> QED
  BY <1>1, <1>2


LEMMA FlagsTell ==
  ASSUME NEW m
  PROVE  /\ IsSet(ConnectFlags(m), Will) <=> m.will > 0
         /\ IsSet(ConnectFlags(m), User) <=> m.user > 0
         /\ IsSet(ConnectFlags(m), Password) <=> m.user > 0 /\ m.password > 0
         /\ ConnectFlags(m) \in Int
<1>1. \A w \in {0, 4}, u \in {0, 128}, p \in {0, 64} :
        /\ ((w + u + p) \div 4) % 2 = 1 <=> w = 4
        /\ ((w + u + p) \div 128) % 2 = 1 <=> u = 128
        /\ ((w + u + p) \div 64) % 2 = 1 <=> p = 64
  OBVIOUS
<1> DEFINE w == IF HasWill(m) THEN Will ELSE 0
           u == IF HasUser(m) THEN User ELSE 0
           p == IF HasPassword(m) THEN Password ELSE 0
<1>2. /\ w \in {0, 4} /\ (w = 4 <=> m.will > 0) /\ u \in {0, 128} /\ (u = 128 <=> m.user > 0)
      /\ p \in {0, 64} /\ (p = 64 <=> m.user > 0 /\ m.password > 0)
  BY DEF HasWill, HasUser, HasPassword, Will, User, Password
<1>3. ConnectFlags(m) = w + u + p
  BY DEF ConnectFlags
<1> HIDE DEF w, u, p
<1>4. w + u + p \in Int
  BY <1>2
<1>5. /\ ((w + u + p) \div 4) % 2 = 1 <=> w = 4
      /\ ((w + u + p) \div 128) % 2 = 1 <=> u = 128
      /\ ((w + u + p) \div 64) % 2 = 1 <=> p = 64
  <2>1. w \in {0, 4} /\ u \in {0, 128} /\ p \in {0, 64}
    BY <1>2
  <2> QED
    BY <1>1, <2>1
<1> DEFINE F == ConnectFlags(m)
<1>6. (F \div 4) % 2 = 1 <=> w = 4
  BY <1>3, <1>5
<1>7. (F \div 128) % 2 = 1 <=> u = 128
  BY <1>3, <1>5
<1>8. (F \div 64) % 2 = 1 <=> p = 64
  BY <1>3, <1>5
<1>9. IsSet(F, Will) <=> m.will > 0
  <2>1. w = 4 <=> m.will > 0
    BY <1>2
  <2> QED
    BY <1>6, <2>1, Zenon DEF IsSet, Will
<1>10. IsSet(F, User) <=> m.user > 0
  <2>1. u = 128 <=> m.user > 0
    BY <1>2
  <2> QED
    BY <1>7, <2>1, Zenon DEF IsSet, User
<1>11. IsSet(F, Password) <=> m.user > 0 /\ m.password > 0
  <2>1. p = 64 <=> m.user > 0 /\ m.password > 0
    BY <1>2
  <2> QED
    BY <1>8, <2>1, Zenon DEF IsSet, Password
<1> QED
  BY <1>3, <1>4, <1>9, <1>10, <1>11, Zenon

\* The texts of a CONNECT, as they are written and as the flags tell.
WillTexts(m) == Optional(m.will > 0, <<Text(m.will), Text(m.message)>>)
UserTexts(m) ==
  Optional(m.user > 0, <<Text(m.user)>> \o Optional(m.password > 0, <<Text(m.password)>>))
WillBytes(m) == Optional(HasWill(m), String(m.will) \o String(m.message))
UserBytes(m) ==
  Optional(HasUser(m), String(m.user) \o Optional(HasPassword(m), String(m.password)))

LEMMA PairJoined ==
  ASSUME NEW s \in Seq(Int), NEW t \in Seq(Int)
  PROVE  <<s>> \o <<t>> = <<s, t>>
<1>1. <<s>> \in Texts /\ <<t>> \in Texts /\ <<s, t>> \in Texts
  BY DEF Texts
<1>2. /\ Len(<<s>>) = 1 /\ <<s>>[1] = s /\ Len(<<t>>) = 1 /\ <<t>>[1] = t
      /\ Len(<<s, t>>) = 2 /\ <<s, t>>[1] = s /\ <<s, t>>[2] = t
  OBVIOUS
<1>3. PICK x \in Texts, y \in Texts, z \in Texts : x = <<s>> /\ y = <<t>> /\ z = <<s, t>>
  BY <1>1
<1>4. x \o y \in Texts /\ Len(x \o y) = 2 /\ (x \o y)[1] = s /\ (x \o y)[2] = t
  BY <1>2, <1>3 DEF Texts
<1>5. x \o y = z
  <2>1. Len(z) = 2 /\ z[1] = s /\ z[2] = t
    BY <1>2, <1>3
  <2>2. \A i \in 1..2 : (x \o y)[i] = z[i]
    BY <1>4, <2>1
  <2>3. x \o y \in Seq(Seq(Int)) /\ z \in Seq(Seq(Int)) /\ Len(x \o y) = Len(z)
    BY <1>3, <1>4, <2>1 DEF Texts
  <2>4. \A i \in 1..Len(x \o y) : (x \o y)[i] = z[i]
    BY <1>4, <2>2
  <2> QED
    BY <2>3, <2>4, SeqEqual
<1> QED
  BY <1>3, <1>5

LEMMA ConnectHeld ==
  ASSUME NEW m \in OutTypes, m.class = "CONNECT"
  PROVE  /\ Held(String(m.clientid), <<>>, <<Text(m.clientid)>>)
         /\ Held(WillBytes(m), <<>>, WillTexts(m)) /\ Held(UserBytes(m), <<>>, UserTexts(m))
<1>1. /\ m.clientid \in Nat /\ m.will \in Nat /\ m.message \in Nat
      /\ m.user \in Nat /\ m.password \in Nat
  BY OutFields
<1>2. <<>> \in Seq(Int)
  OBVIOUS
<1>3. \A n \in Nat : Held(String(n), <<>>, <<Text(n)>>)
  BY <1>2, HeldString, Zenon
<1>4. Held(WillBytes(m), <<>>, WillTexts(m))
  <2>1. Held(String(m.will) \o String(m.message), <<>>, <<Text(m.will)>> \o <<Text(m.message)>>)
    BY <1>1, <1>2, <1>3, HeldJoin, Zenon
  <2>2. <<Text(m.will)>> \o <<Text(m.message)>> = <<Text(m.will), Text(m.message)>>
    BY <1>1, TextIs, PairJoined, Zenon
  <2>3. Held(String(m.will) \o String(m.message), <<>>, <<Text(m.will), Text(m.message)>>)
    BY <2>1, <2>2, Zenon
  <2> QED
    BY <1>2, <2>3, HeldOptional, Zenon DEF WillBytes, WillTexts, HasWill
<1>5. Held(UserBytes(m), <<>>, UserTexts(m))
  <2> DEFINE S == String(m.user) \o Optional(m.password > 0, String(m.password))
             ts == <<Text(m.user)>> \o Optional(m.password > 0, <<Text(m.password)>>)
  <2>1. Held(S, <<>>, ts)
    <3>1. Held(Optional(m.password > 0, String(m.password)), <<>>,
               Optional(m.password > 0, <<Text(m.password)>>))
      BY <1>1, <1>2, <1>3, HeldOptional, Zenon
    <3> QED
      BY <1>1, <1>2, <1>3, <3>1, HeldJoin, Zenon
  <2>2. UserBytes(m) = Optional(m.user > 0, S)
    <3>1. CASE m.user > 0
      <4>1. HasUser(m) /\ (HasPassword(m) <=> m.password > 0)
        BY <3>1, Zenon DEF HasUser, HasPassword
      <4>2. UserBytes(m) = String(m.user) \o Optional(HasPassword(m), String(m.password))
        BY <4>1, Zenon DEF UserBytes, Optional
      <4>3. Optional(HasPassword(m), String(m.password)) = Optional(m.password > 0, String(m.password))
        BY <4>1, Zenon DEF Optional
      <4> QED
        BY <3>1, <4>2, <4>3, Zenon DEF Optional
    <3>2. CASE ~(m.user > 0)
      BY <3>2, Zenon DEF UserBytes, HasUser, Optional
    <3> QED
      BY <3>1, <3>2
  <2> HIDE DEF S, ts
  <2>3. Held(Optional(m.user > 0, S), <<>>, Optional(m.user > 0, ts))
    BY <1>2, <2>1, HeldOptional, Zenon
  <2> QED
    BY <2>2, <2>3, Zenon DEF UserTexts, ts
<1> QED
  BY <1>1, <1>3, <1>4, <1>5, Zenon

LEMMA ConnectUnderstood ==
  ASSUME NEW m \in OutTypes, m.class = "CONNECT", NEW qos
  PROVE  Body(m) \in Seq(Int) /\ Understood(m, qos, Body(m))
<1> DEFINE a == String(4)
           p == <<4, ConnectFlags(m)>>
           c == Two(m.keepalive)
           h == (a \o p) \o c
           d == String(m.clientid)
           w == WillBytes(m)
           u == UserBytes(m)
           S == (d \o w) \o u
           ts == (<<Text(m.clientid)>> \o WillTexts(m)) \o UserTexts(m)
           P == Body(m)
<1>1. m.keepalive \in Nat /\ <<>> \in Seq(Int)
  BY OutFields
<1>2. /\ a \in Seq(Int) /\ Len(a) = 6 /\ c \in Seq(Int) /\ Len(c) = 2
      /\ p \in Seq(Int) /\ Len(p) = 2 /\ p[2] = ConnectFlags(m)
  <2>1. a \in Seq(Int) /\ Len(a) = 6
    <3>1. a \in Seq(Int) /\ Len(a) = 2 + 4
      <4>1. 4 \in Nat
        OBVIOUS
      <4> QED
        BY <4>1, StringIs, Zenon
    <3>2. 2 + 4 = 6
      OBVIOUS
    <3> QED
      BY <3>1, <3>2, Zenon
  <2>2. c \in Seq(Int) /\ Len(c) = 2
    BY <1>1, TwoIs
  <2>3. p \in Seq(Int) /\ Len(p) = 2 /\ p[2] = ConnectFlags(m)
    <3>1. ConnectFlags(m) \in Int /\ 4 \in Int
      BY FlagsTell
    <3> QED
      BY <3>1, PairIs, Zenon
  <2> QED
    BY <2>1, <2>2, <2>3, Zenon
<1>3. Held(S, <<>>, ts)
  BY <1>1, ConnectHeld, HeldJoin, Zenon
<1>4. d \in Seq(Int) /\ w \in Seq(Int) /\ u \in Seq(Int) /\ S \in Seq(Int) /\ ts \in Texts
      /\ Holds(S, <<>>, ts)
  BY <1>3, ConnectHeld, Zenon DEF Held
<1>5. P = ((h \o d) \o w) \o u
  BY Zenon DEF Body, ConnectBody, WillBytes, UserBytes
<1> HIDE DEF a, p, c, d, w, u, ts
<1>6. a \o p \in Seq(Int) /\ Len(a \o p) = Len(a) + Len(p)
  BY <1>2, JoinIs, Zenon
<1>7. h \in Seq(Int) /\ Len(h) = Len(a \o p) + Len(c)
  BY <1>2, <1>6, JoinIs, Zenon
<1> HIDE DEF h
<1>8. P = h \o S
  <2>1. ((h \o d) \o w) \o u = h \o (d \o (w \o u))
    <3>1. Together(h, d, w, u)
      BY <1>4, <1>7, FourJoin, Zenon
    <3> QED
      BY <3>1, Zenon DEF Together
  <2>2. Regrouped(d, w, u)
    BY <1>4, Associative, Zenon
  <2> QED
    BY <1>5, <2>1, <2>2, Zenon DEF Regrouped
<1> HIDE DEF S, P
<1>9. P \in Seq(Int) /\ Len(P) = Len(h) + Len(S) /\ At(P, 0, h \o S)
  <2>1. h \o S \in Seq(Int) /\ Len(h \o S) = Len(h) + Len(S)
    BY <1>4, <1>7, JoinIs, Zenon
  <2> QED
    BY <1>8, <2>1, AtItself, Zenon
<1>10. At(P, 0, h) /\ At(P, 0 + Len(h), S)
  BY <1>4, <1>7, <1>9, AtJoin
<1>11. At(P, 0, a \o p) /\ At(P, 0 + Len(a \o p), c)
  <2>1. At(P, 0, (a \o p) \o c)
    BY <1>10, Zenon DEF h
  <2> QED
    BY <1>2, <1>6, <2>1, AtJoin
<1>12. At(P, 0 + Len(a), p)
  BY <1>2, <1>11, AtJoin
<1>13. At(P, 6, p) /\ At(P, 8, c) /\ At(P, 10, S) /\ Len(P) = 10 + Len(S)
  BY <1>2, <1>6, <1>7, <1>9, <1>10, <1>11, <1>12
<1>14. P[8] = ConnectFlags(m)
  <2>1. P[6 + 2] = p[2]
    BY <1>2, <1>13 DEF At
  <2> QED
    BY <1>2, <2>1
<1>15. TwoAt(P, 9) = m.keepalive
  <2>1. At(P, 8, Two(m.keepalive)) /\ 8 \in Nat /\ 8 + 1 = 9
    BY <1>13 DEF c
  <2>2. TwoAt(P, 8 + 1) = m.keepalive
    BY <1>1, <2>1, TwoAtIs
  <2> QED
    BY <2>1, <2>2
<1>16. AreTexts(P, 11, <<>>, ts)
  <2>1. 10 \in Nat /\ 10 + 1 = 11
    OBVIOUS
  <2>2. AreTexts(P, 10 + 1, <<>>, ts)
    BY <1>1, <1>4, <1>13, <2>1, TextsFollow, Zenon
  <2> QED
    BY <2>1, <2>2
<1>17. /\ IsSet(P[8], Will) <=> m.will > 0
       /\ IsSet(P[8], User) <=> m.user > 0
       /\ IsSet(P[8], Password) <=> m.user > 0 /\ m.password > 0
  BY <1>14, FlagsTell, Zenon
<1>18. Understood(m, qos, P)
  BY <1>15, <1>16, <1>17, Zenon DEF Understood, ts, WillTexts, UserTexts
<1> QED
  BY <1>9, <1>18, Zenon DEF P

----------------------------------------------------------------------------
(* Every step.                                                             *)

\* The message in out is one of the application's, and its bytes are those of send().
OutInv ==
  \/ out = NoMessage
  \/ /\ out.message \in OutMessages /\ Len(Body(out.message)) <= Room
     /\ out.bytes = FixedHeader(Type(out.message), out.message, Len(Body(out.message)))
                      \o Body(out.message)

LEMMA BodyUnderstood ==
  ASSUME NEW m \in OutTypes, m.class \notin {"UNSUBSCRIBE", "PUBCOMP", "PUBACK"}, NEW qos,
         m.class = "PUBLISH" => qos = m.qos
  PROVE  Body(m) \in Seq(Int) /\ Understood(m, qos, Body(m))
<1>1. m.class \in {"CONNECT", "PUBLISH", "PUBREC", "PUBREL", "SUBSCRIBE", "PINGREQ", "DISCONNECT"}
  BY DEF OutTypes, Publications
<1> QED
  BY <1>1, ConnectUnderstood, PublishUnderstood, SubscribeUnderstood, IdUnderstood, Zenon

LEMMA OutUnderstood == OutInv => SentIsUnderstood
<1> SUFFICES ASSUME OutInv PROVE SentIsUnderstood
  OBVIOUS
<1> DEFINE m == out.message
           B == Body(m)
           bytes == out.bytes
<1>1. CASE out = NoMessage
  BY <1>1 DEF SentIsUnderstood, NoMessage
<1>2. CASE out # NoMessage /\ m.class \in {"UNSUBSCRIBE", "PUBCOMP", "PUBACK"}
  BY <1>2 DEF SentIsUnderstood
<1>3. CASE out # NoMessage /\ m.class \notin {"UNSUBSCRIBE", "PUBCOMP", "PUBACK"}
  <2>1. /\ m \in OutMessages /\ Len(B) <= Room
        /\ bytes = FixedHeader(Type(m), m, Len(B)) \o B
    BY <1>3 DEF OutInv
  <2>2. m \in OutTypes
    BY <2>1, OutAssumption DEF OutAssumption
  <2>3. m.class \in Classes /\ (m.class = "PUBLISH" => m.qos \in 0..2)
    BY <2>2, OutFields DEF Publications
  <2>4. /\ First(m) \in Int /\ TypeIn(First(m)) = m.class
        /\ m.class = "PUBLISH" => QosIn(First(m)) = m.qos
    BY <2>3, ClassRead
  <2>5. B \in Seq(Int) /\ Understood(m, QosIn(First(m)), B)
    BY <1>3, <2>2, <2>4, BodyUnderstood, Zenon
  <2>6. Len(B) < Digit * Digit
    <3>1. Len(B) \in Nat /\ Len(B) < Byte
      BY <2>1, <2>5, WireAssumption DEF WireAssumption
    <3>2. Byte = 2 * Digit /\ Digit \in Nat /\ Digit > 2
      BY Constants
    <3>3. (Digit - 2) * Digit >= Digit
      <4>1. Digit - 2 \in Int /\ Digit - 2 >= 1
        BY <3>2
      <4> QED
        BY <3>2, <4>1, TimesGrows
    <3>4. Digit * Digit = (Digit - 2) * Digit + 2 * Digit
      BY <3>2
    <3> QED
      BY <3>1, <3>2, <3>3, <3>4
  <2>7. Type(m) = m.class
    BY <1>3 DEF Type
  <2>8. bytes = (One(First(m)) \o Digits(Len(B))) \o B
    BY <2>1, <2>7, Zenon DEF FixedHeader, First, One
  <2> HIDE DEF m, B, bytes
  <2>9. Heads(bytes, First(m), B)
    BY <2>4, <2>5, <2>6, <2>8, HeaderIs, Zenon
  <2>10. bytes[1] = First(m) /\ Rest(bytes) = B /\ LengthSent(bytes) = Len(B)
    BY <2>9 DEF Heads
  <2>11. /\ TypeIn(bytes[1]) = m.class /\ LengthSent(bytes) = Len(Rest(bytes))
         /\ Understood(m, QosIn(bytes[1]), Rest(bytes))
    BY <2>4, <2>5, <2>10, Zenon
  <2> QED
    BY <2>11, Zenon DEF SentIsUnderstood, m, bytes
<1> QED
  BY <1>1, <1>2, <1>3

LEMMA OutHolds == Spec => []OutInv
<1>1. Init => OutInv
  BY DEF Init, OutInv
<1>2. OutInv /\ [Next]_vars => OutInv'
  <2> SUFFICES ASSUME OutInv, [Next]_vars PROVE OutInv'
    OBVIOUS
  <2>1. CASE Send
    <3>1. PICK m \in OutMessages :
            /\ Len(Body(m)) <= Room
            /\ out' = [message |-> m, bytes |-> FixedHeader(Type(m), m, Len(Body(m))) \o Body(m)]
      BY <2>1 DEF Send
    <3>2. out'.message = m /\ out'.bytes = FixedHeader(Type(m), m, Len(Body(m))) \o Body(m)
      BY <3>1
    <3> QED
      BY <3>1, <3>2, Zenon DEF OutInv
  <2>2. CASE BrokerSends
    BY <2>2 DEF BrokerSends, OutInv
  <2>3. CASE Arrives \/ Read \/ UNCHANGED vars
    <3>1. UNCHANGED out
      BY <2>3 DEF Arrives, Read, ReadType, ReadDigit, ReadBody, ReadEnds, vars
    <3> QED
      BY <3>1, Zenon DEF OutInv
  <2> QED
    BY <2>1, <2>2, <2>3 DEF Next
<1> QED
  BY <1>1, <1>2, PTL DEF Spec

\* A broker that reads a message of this client as MQTT tells it to finds in it what
\* the application put in, and all of it, whatever fits in the buffer.
THEOREM SentMessagesAreUnderstood == Spec => []SentIsUnderstood
BY OutHolds, OutUnderstood, PTL
=============================================================================
