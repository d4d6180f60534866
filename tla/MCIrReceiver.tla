---------------------------- MODULE MCIrReceiver ----------------------------
(* An instance of IrReceiver for TLC: words and codes. *)
EXTENDS IrReceiver, TLC

\* Words by their nibbles; Word(<<>>) is the empty one.
Nibble == [n \in 0..15 |-> <<n \div 8, (n \div 4) % 2, (n \div 2) % 2, n % 2>>]
Word(nibbles) == FlattenSeq([i \in DOMAIN nibbles |-> Nibble[nibbles[i]]])
Zeros(n) == [i \in 1..n |-> 0]
Ones(n) == [i \in 1..n |-> 1]
Mixed(n) == [i \in 1..n |-> IF i % 3 = 0 \/ i % 7 = 1 THEN 1 ELSE 0]

\* What is sent, and the protocol and word expected of it.
Code(n, signal, type, word) == [name |-> n, signal |-> signal, type |-> type, word |-> word]

Words == { <<"a", Zeros(32)>>, <<"b", Ones(32)>>, <<"c", Mixed(32)>> }

\* Codes of the protocols that have a sender and a decoder.
Decodable ==
  UNION { { Code("NEC" \o k, sendNEC(w), "NEC", w),
            Code("SAMSUNG" \o k, sendSAMSUNG(w), "SAMSUNG", w),
            Code("WHYNTER" \o k, sendWhynter(w), "WHYNTER", w),
            Code("LG" \o k, sendLG(SubSeq(w, 1, 28)), "LG", SubSeq(w, 1, 28)),
            Code("JVC" \o k, sendJVC(SubSeq(w, 1, 16), FALSE), "JVC", SubSeq(w, 1, 16)),
            Code("SONY" \o k, sendSony(SubSeq(w, 1, 12)), "SONY", SubSeq(w, 1, 12)),
            Code("SONY20" \o k, sendSony(SubSeq(w, 1, 20)), "SONY", SubSeq(w, 1, 20)),
            Code("RC5" \o k, sendRC5(SubSeq(w, 1, 12)), "RC5", SubSeq(w, 1, 12)),
            Code("RC6" \o k, sendRC6(SubSeq(w, 1, 20)), "RC6", SubSeq(w, 1, 20)),
            Code("PANASONIC" \o k, sendPanasonic(SubSeq(w, 5, 20), w), "PANASONIC",
                 SubSeq(w, 5, 20) \o w)
          } : <<k, w>> \in Words }

\* The same frame as raw durations and in periods of its carrier, a repetition as the
\* JVC example sends it, 50 microseconds after the code.
Raw == <<9000, 4500>> \o FlattenSeq([i \in 1..32 |-> <<560, IF i % 2 = 1 THEN 1690 ELSE 560>>]) \o <<560>>
Alternating == [i \in 1..32 |-> i % 2]
JVCWord == SubSeq(Mixed(32), 1, 16)
Others ==
  { Code("RAW", sendRaw(Raw, 38), "NEC", Alternating),
    Code("GC", sendGC(38, 1, 1, [i \in DOMAIN Raw |-> Raw[i] \div 26]), "NEC", Alternating),
    Code("JVCtwice", sendJVC(JVCWord, FALSE) \o <<-50>> \o sendJVC(JVCWord, TRUE), "JVC", JVCWord) }

\* A repetition of NEC and one of JVC, codes that have no decoder, and a spike.
Odd == [ NECrepeat |-> sendRaw(<<9000, 2250, 560>>, 38),
         JVCrepeat |-> sendJVC(JVCWord, TRUE),
         DISH |-> sendDISH(JVCWord),
         COOLIX |-> sendCOOLIX(SubSeq(Mixed(32), 1, 24)),
         SHARP |-> sendSharp(<<0, 1, 1, 0, 1>>, <<1, 0, 0, 1, 1, 0, 1, 0>>),
         SPIKE |-> <<>> ]

Named(codes) == [n \in {c.name : c \in codes} |-> CHOOSE c \in codes : c.name = n]
Table == Named(Decodable \cup Others)
MCSignals == Odd @@ [n \in DOMAIN Table |-> Table[n].signal]
MCExpected == [n \in DOMAIN Table |-> Decoded(Table[n].type, Table[n].word)]
                @@ ("NECrepeat" :> REPEAT("NEC")) @@ ("JVCrepeat" :> REPEAT("JVC"))
\* Every code meets an empty buffer; some also one that another code has filled.
Fillers == {"NECc", "SAMSUNGc", "JVCtwice", "RC6c", "SONY20c", "PANASONICc", "DISH"}
MCLater == [n \in DOMAIN MCSignals |->
              IF n \in Fillers THEN {"NECb", "SAMSUNGb", "JVCb", "SPIKE"} ELSE {}]

\* The receiver may be turned on in the middle of a code that is sent once.  One that is
\* repeated after a time of quiet is met in its middle when the sketch is late.
MCEntered == {n \in DOMAIN MCSignals : \A d \in Range(MCSignals[n]) : -d < Quiet}
=============================================================================
