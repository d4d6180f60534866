---------------------------- MODULE IrProtocols ----------------------------
(***************************************************************************)
(* The infrared protocols of libraries/IRremoteESP8266 as pure functions:  *)
(* what the senders put on the air and what the decoders make of a buffer  *)
(* of measured durations.                                                  *)
(*                                                                         *)
(* A signal is a sequence of durations in microseconds, a mark positive    *)
(* and a space negative.  A word is a sequence of bits, the first bit sent *)
(* first.  rawbuf is a function from 0 to ticks of 50 microseconds; its    *)
(* odd entries are marks.                                                  *)
(***************************************************************************)
EXTENDS Integers, Sequences, SequencesExt

USECPERTICK == 50
MARK_EXCESS == 100    (* marks are received that much too long, spaces too short *)
RAWBUF == 100

----------------------------------------------------------------------------
(* Durations of the protocols                                              *)

COOLIX == [HDR |-> 4480, BIT_MARK |-> 560, ONE |-> 1680, ZERO |-> 560]
WHYNTER == [HDR |-> 2850, BIT_MARK |-> 750, ONE |-> 2150, ZERO |-> 750]
NEC == [HDR_MARK |-> 9000, HDR_SPACE |-> 4500, BIT_MARK |-> 560, ONE |-> 1690, ZERO |-> 560,
        RPT_SPACE |-> 2250]
SONY == [HDR_MARK |-> 2400, HDR_SPACE |-> 600, ONE_MARK |-> 1200, ZERO_MARK |-> 600]
MITSUBISHI == [HDR_SPACE |-> 350, ONE_MARK |-> 1950, ZERO_MARK |-> 750]
RC5_T1 == 889
RC6 == [HDR_MARK |-> 2666, HDR_SPACE |-> 889, T1 |-> 444]
SHARP == [BIT_MARK |-> 245, ONE |-> 1805, ZERO |-> 795]
DISH == [HDR_MARK |-> 400, HDR_SPACE |-> 6100, BIT_MARK |-> 400, ONE |-> 1700, ZERO |-> 2800]
PANASONIC == [HDR_MARK |-> 3502, HDR_SPACE |-> 1750, BIT_MARK |-> 502, ONE |-> 1244, ZERO |-> 400]
JVC == [HDR_MARK |-> 8000, HDR_SPACE |-> 4000, BIT_MARK |-> 600, ONE |-> 1600, ZERO |-> 550]
LG == [HDR_MARK |-> 8000, HDR_SPACE |-> 4000, BIT_MARK |-> 600, ONE |-> 1600, ZERO |-> 550]
SAMSUNG == [HDR_MARK |-> 4500, HDR_SPACE |-> 4500, BIT_MARK |-> 590, ONE |-> 1690, ZERO |-> 590,
            RPT_SPACE |-> 2250]

----------------------------------------------------------------------------
(* IRsend                                                                  *)

\* mark() toggles the pin in whole periods of 2 * (500 / khz) microseconds
\* until the time is over; space() waits for the time itself.
Period(khz) == 2 * (500 \div khz)
OnAir(khz, signal) ==
  [i \in DOMAIN signal |->
     IF signal[i] <= 0 THEN signal[i]
     ELSE Period(khz) * ((signal[i] + Period(khz) - 1) \div Period(khz))]

\* Each bit is sent as one of two short signals.
Coded(word, one, zero) ==
  FlattenSeq([i \in DOMAIN word |-> IF word[i] = 1 THEN one ELSE zero])

SpaceCoded(word, p) == Coded(word, <<p.BIT_MARK, -p.ONE>>, <<p.BIT_MARK, -p.ZERO>>)

Complement(word) == [i \in DOMAIN word |-> 1 - word[i]]

sendNEC(word) ==
  OnAir(38, <<NEC.HDR_MARK, -NEC.HDR_SPACE>> \o SpaceCoded(word, NEC) \o <<NEC.BIT_MARK>>)

sendLG(word) ==
  OnAir(38, <<LG.HDR_MARK, -LG.HDR_SPACE, LG.BIT_MARK>>
            \o Coded(word, <<-LG.ONE, LG.BIT_MARK>>, <<-LG.ZERO, LG.BIT_MARK>>))

sendWhynter(word) ==
  OnAir(38, <<WHYNTER.BIT_MARK, -WHYNTER.ZERO, WHYNTER.HDR, -WHYNTER.HDR>>
            \o SpaceCoded(word, WHYNTER) \o <<WHYNTER.BIT_MARK, -WHYNTER.ZERO>>)

sendSony(word) ==
  OnAir(40, <<SONY.HDR_MARK, -SONY.HDR_SPACE>>
            \o Coded(word, <<SONY.ONE_MARK, -SONY.HDR_SPACE>>, <<SONY.ZERO_MARK, -SONY.HDR_SPACE>>))

sendRC5(word) ==
  OnAir(36, <<RC5_T1, -RC5_T1, RC5_T1>>
            \o Coded(word, <<-RC5_T1, RC5_T1>>, <<RC5_T1, -RC5_T1>>))

\* The fourth bit, the trailer, is twice as long as the others.
sendRC6(word) ==
  OnAir(36, <<RC6.HDR_MARK, -RC6.HDR_SPACE, RC6.T1, -RC6.T1>> \o
    FlattenSeq([i \in DOMAIN word |->
      LET t == IF i = 4 THEN 2 * RC6.T1 ELSE RC6.T1
      IN  IF word[i] = 1 THEN <<t, -t>> ELSE <<-t, t>>]))

sendPanasonic(address, data) ==
  OnAir(35, <<PANASONIC.HDR_MARK, -PANASONIC.HDR_SPACE>>
            \o SpaceCoded(address \o data, PANASONIC) \o <<PANASONIC.BIT_MARK>>)

sendJVC(word, repeat) ==
  OnAir(38, (IF repeat THEN <<>> ELSE <<JVC.HDR_MARK, -JVC.HDR_SPACE>>)
            \o SpaceCoded(word, JVC) \o <<JVC.BIT_MARK>>)

sendSAMSUNG(word) ==
  OnAir(38, <<SAMSUNG.HDR_MARK, -SAMSUNG.HDR_SPACE>>
            \o SpaceCoded(word, SAMSUNG) \o <<SAMSUNG.BIT_MARK>>)

sendDISH(word) ==
  OnAir(56, <<DISH.HDR_MARK, -DISH.HDR_SPACE>> \o SpaceCoded(word, DISH))

\* Three bytes, each followed by its complement.
sendCOOLIX(word) ==
  LET byte(j) == SubSeq(word, 8 * j + 1, 8 * j + 8)
      bytes == FlattenSeq([j \in 1..3 |-> byte(j - 1) \o Complement(byte(j - 1))])
  IN  OnAir(38, <<COOLIX.HDR, -COOLIX.HDR>> \o SpaceCoded(bytes, COOLIX)
                \o <<COOLIX.BIT_MARK, -COOLIX.ZERO, -COOLIX.HDR>>)

\* The word three times, 40 ms apart, its last ten bits inverted in the second.
sendSharpRaw(word) ==
  LET toggled == SubSeq(word, 1, Len(word) - 10)
                   \o Complement(SubSeq(word, Len(word) - 9, Len(word)))
      burst(w) == SpaceCoded(w, SHARP) \o <<SHARP.BIT_MARK, -SHARP.ZERO, -40000>>
  IN  OnAir(38, burst(word) \o burst(toggled) \o burst(word))

sendSharp(address, command) == sendSharpRaw(address \o command \o <<1, 0>>)

\* Durations alternate, beginning with a mark.
sendRaw(buf, khz) ==
  OnAir(khz, [i \in DOMAIN buf |-> IF i % 2 = 1 THEN buf[i] ELSE -buf[i]])

\* Global Cache: count times, the repetitions from the offset on (an odd number);
\* the durations are in periods of the carrier.
sendGC(khz, count, offset, code) ==
  LET us == [i \in DOMAIN code |-> IF i % 2 = 1 THEN code[i] * (1000 \div khz)
                                   ELSE -(code[i] * (1000 \div khz))]
  IN  OnAir(khz, us \o FlattenSeq([i \in 1..(count - 1) |-> SubSeq(us, offset, Len(us))]))

\* What the detector sees of a signal: marks and spaces alternate, and it drops
\* out of nothing: an empty space is no space.
Merged(signal) ==
  LET joined[i \in 0..Len(signal)] ==
        IF i = 0 THEN <<>>
        ELSE LET before == joined[i - 1]
                 d == signal[i]
             IN  IF d = 0 THEN before
                 ELSE IF before # <<>> /\ (Last(before) > 0) = (d > 0)
                      THEN [before EXCEPT ![Len(before)] = @ + d]
                      ELSE Append(before, d)
  IN  joined[Len(signal)]

----------------------------------------------------------------------------
(* Matching of a measured duration, within 25 percent                      *)

TICKS_LOW(us) == (us * 75) \div (100 * USECPERTICK)

\* Seeded fault: rounded down.
TICKS_HIGH_NotRounded(us) == (us * 125) \div (100 * USECPERTICK)

TICKS_HIGH(us) == (us * 125) \div (100 * USECPERTICK) + 1

MATCH(ticks, us) == ticks \in TICKS_LOW(us)..TICKS_HIGH(us)
MATCH_MARK(ticks, us) == MATCH(ticks, us + MARK_EXCESS)
MATCH_SPACE(ticks, us) == MATCH(ticks, us - MARK_EXCESS)

ERR == [type |-> "ERR"]
Decoded(type, word) == [type |-> type, value |-> word, bits |-> Len(word)]
REPEAT(type) == [type |-> type, value |-> <<"REPEAT">>, bits |-> 0]

\* value is 32 bits wide: of a longer word the first bits are shifted out.
Value32(word) == IF Len(word) <= 32 THEN word ELSE SubSeq(word, Len(word) - 31, Len(word))

\* n marks of one length, each with one of two spaces, from offset on; a space
\* that could be either is a one.
AreSpaceBits(buf, offset, n, p) ==
  \A i \in 0..(n - 1) :
    /\ MATCH_MARK(buf[offset + 2 * i], p.BIT_MARK)
    /\ \/ MATCH_SPACE(buf[offset + 2 * i + 1], p.ONE)
       \/ MATCH_SPACE(buf[offset + 2 * i + 1], p.ZERO)
SpaceBits(buf, offset, n, p) ==
  [i \in 1..n |-> IF MATCH_SPACE(buf[offset + 2 * i - 1], p.ONE) THEN 1 ELSE 0]

\* Marks of one of two lengths, two entries apart.
AreMarkBits(buf, offset, n, one, zero) ==
  \A i \in 0..(n - 1) :
    MATCH_MARK(buf[offset + 2 * i], one) \/ MATCH_MARK(buf[offset + 2 * i], zero)
MarkBits(buf, offset, n, one) ==
  [i \in 1..n |-> IF MATCH_MARK(buf[offset + 2 * i - 2], one) THEN 1 ELSE 0]

\* How many of max spaces, two entries apart, have the length.
SpaceRun(buf, offset, max, us) ==
  LET ok(i) == MATCH_SPACE(buf[offset + 2 * i], us)
  IN  CHOOSE k \in 0..max : (k = max \/ ~ok(k)) /\ \A i \in 0..(k - 1) : ok(i)

----------------------------------------------------------------------------
(* IRrecv: one decoder per protocol.  Only some look at rawlen, and those   *)
(* that do may still read a few entries beyond it.                          *)

IsRepeat(buf, rawlen, p) ==
  rawlen = 4 /\ MATCH_SPACE(buf[2], p.RPT_SPACE) /\ MATCH_MARK(buf[3], p.BIT_MARK)

\* Seeded fault: the last bit may be missing.
decodeNEC_ShortLength(buf, rawlen) ==
  IF ~MATCH_MARK(buf[1], NEC.HDR_MARK) THEN ERR
  ELSE IF IsRepeat(buf, rawlen, NEC) THEN REPEAT("NEC")
  ELSE IF /\ rawlen >= 66
          /\ MATCH_SPACE(buf[2], NEC.HDR_SPACE)
          /\ AreSpaceBits(buf, 3, 32, NEC)
  THEN Decoded("NEC", SpaceBits(buf, 3, 32, NEC))
  ELSE ERR

decodeNEC(buf, rawlen) ==
  IF ~MATCH_MARK(buf[1], NEC.HDR_MARK) THEN ERR
  ELSE IF IsRepeat(buf, rawlen, NEC) THEN REPEAT("NEC")
  ELSE IF /\ rawlen >= 68
          /\ MATCH_SPACE(buf[2], NEC.HDR_SPACE)
          /\ AreSpaceBits(buf, 3, 32, NEC)
  THEN Decoded("NEC", SpaceBits(buf, 3, 32, NEC))
  ELSE ERR

\* As many bits as there are spaces of the right length, at least twelve.
decodeSony(buf, rawlen) ==
  LET n == SpaceRun(buf, 2, (rawlen - 2) \div 2, SONY.HDR_SPACE)
  IN  IF /\ rawlen >= 26
         /\ MATCH_MARK(buf[1], SONY.HDR_MARK)
         /\ AreMarkBits(buf, 3, n, SONY.ONE_MARK, SONY.ZERO_MARK)
         /\ n >= 12
      THEN Decoded("SONY", Value32(MarkBits(buf, 3, n, SONY.ONE_MARK)))
      ELSE ERR

\* A mark is followed by a space of one length; the bits end with the first that
\* is not, or with the buffer: then bits counts one more than value has.
decodeMitsubishi(buf, rawlen) ==
  LET max == (rawlen - 3) \div 2
      run == SpaceRun(buf, 4, max, MITSUBISHI.HDR_SPACE)
      n == IF run < max THEN run + 1 ELSE max
  IN  IF /\ rawlen >= 34
         /\ MATCH_MARK(buf[2], MITSUBISHI.HDR_SPACE)
         /\ AreMarkBits(buf, 3, n, MITSUBISHI.ONE_MARK, MITSUBISHI.ZERO_MARK)
         /\ run + 1 >= 16
      THEN [type |-> "MITSUBISHI", value |-> Value32(MarkBits(buf, 3, n, MITSUBISHI.ONE_MARK)),
            bits |-> run + 1]
      ELSE ERR

\* getRClevel(): the buffer from offset on as levels of length t1, an entry of one
\* to three lengths being as many levels.  An entry of another length is an
\* error, and nobody gets beyond it; after the end all is space.
RCLevels(buf, rawlen, offset, t1) ==
  LET level(i) == IF i % 2 = 1 THEN "MARK" ELSE "SPACE"
      lag(i) == IF i % 2 = 1 THEN MARK_EXCESS ELSE -MARK_EXCESS
      avail(i) == IF \E k \in 1..3 : MATCH(buf[i], k * t1 + lag(i))
                  THEN CHOOSE k \in 1..3 :
                         /\ MATCH(buf[i], k * t1 + lag(i))
                         /\ \A j \in 1..(k - 1) : ~MATCH(buf[i], j * t1 + lag(i))
                  ELSE 0
      entry(i) == IF avail(i) = 0 THEN <<"error">> ELSE [k \in 1..avail(i) |-> level(i)]
  IN  FlattenSeq([k \in 1..(rawlen - offset) |-> entry(offset + k - 1)])
getRClevel(levels, k) == IF k <= Len(levels) THEN levels[k] ELSE "SPACE"

\* n bits of two levels each; bit k begins at level start[k], its levels last width[k].
AreRCBits(levels, n, start, width) ==
  \A k \in 1..n : LET a == getRClevel(levels, start[k])
                       b == getRClevel(levels, start[k] + width[k])
                   IN  /\ {a, b} = {"MARK", "SPACE"}
                       /\ \A j \in 1..(width[k] - 1) :
                            /\ getRClevel(levels, start[k] + j) = a
                            /\ getRClevel(levels, start[k] + width[k] + j) = b
RCBits(levels, n, start, one) ==
  [k \in 1..n |-> IF getRClevel(levels, start[k]) = one THEN 1 ELSE 0]

decodeRC5(buf, rawlen) ==
  LET levels == RCLevels(buf, rawlen, 1, RC5_T1)
      start == [k \in Nat |-> 2 * k + 2]
      width == [k \in Nat |-> 1]
      n == (Len(levels) - 2) \div 2
  IN  IF /\ rawlen >= 13
         /\ \A k \in 1..3 : getRClevel(levels, k) = <<"MARK", "SPACE", "MARK">>[k]
         /\ AreRCBits(levels, n, start, width)
      THEN Decoded("RC5", Value32(RCBits(levels, n, start, "SPACE")))
      ELSE ERR

decodeRC6(buf, rawlen) ==
  LET levels == RCLevels(buf, rawlen, 3, RC6.T1)
      width == [k \in Nat |-> IF k = 4 THEN 2 ELSE 1]
      start == [k \in Nat |-> IF k <= 4 THEN 2 * k + 1 ELSE 2 * k + 3]
      n == CHOOSE k \in 0..(Len(levels) \div 2) :
             start[k + 1] > Len(levels) /\ \A j \in 1..k : start[j] <= Len(levels)
  IN  IF rawlen < 1 \/ ~MATCH_MARK(buf[1], RC6.HDR_MARK) \/ ~MATCH_SPACE(buf[2], RC6.HDR_SPACE) THEN ERR
      ELSE IF /\ getRClevel(levels, 1) = "MARK" /\ getRClevel(levels, 2) = "SPACE"
              /\ AreRCBits(levels, n, start, width)
      THEN Decoded("RC6", Value32(RCBits(levels, n, start, "MARK")))
      ELSE ERR

\* The bits are matched without the lag.  The result has an address beside the
\* value: here they are one word of 48 bits.
decodePanasonic(buf, rawlen) ==
  LET space(i) == buf[2 * i + 2]
  IN  IF /\ MATCH_MARK(buf[1], PANASONIC.HDR_MARK) /\ MATCH_MARK(buf[2], PANASONIC.HDR_SPACE)
         /\ \A i \in 1..48 : /\ MATCH(buf[2 * i + 1], PANASONIC.BIT_MARK)
                             /\ MATCH(space(i), PANASONIC.ONE) \/ MATCH(space(i), PANASONIC.ZERO)
      THEN Decoded("PANASONIC", [i \in 1..48 |-> IF MATCH(space(i), PANASONIC.ONE) THEN 1 ELSE 0])
      ELSE ERR

decodeLG(buf, rawlen) ==
  IF /\ MATCH_MARK(buf[1], LG.HDR_MARK)
     /\ rawlen >= 57
     /\ MATCH_SPACE(buf[2], LG.HDR_SPACE)
     /\ AreSpaceBits(buf, 3, 28, LG)
     /\ MATCH_MARK(buf[59], LG.BIT_MARK)
  THEN Decoded("LG", SpaceBits(buf, 3, 28, LG))
  ELSE ERR

\* A repetition has no header: 33 entries that begin and end with a bit's mark.
decodeJVC(buf, rawlen) ==
  IF rawlen = 34 /\ MATCH_MARK(buf[1], JVC.BIT_MARK) /\ MATCH_MARK(buf[33], JVC.BIT_MARK)
  THEN REPEAT("JVC")
  ELSE IF /\ MATCH_MARK(buf[1], JVC.HDR_MARK)
          /\ rawlen >= 33
          /\ MATCH_SPACE(buf[2], JVC.HDR_SPACE)
          /\ AreSpaceBits(buf, 3, 16, JVC)
          /\ MATCH_MARK(buf[35], JVC.BIT_MARK)
  THEN Decoded("JVC", SpaceBits(buf, 3, 16, JVC))
  ELSE ERR

decodeSAMSUNG(buf, rawlen) ==
  IF ~MATCH_MARK(buf[1], SAMSUNG.HDR_MARK) THEN ERR
  ELSE IF IsRepeat(buf, rawlen, SAMSUNG) THEN REPEAT("SAMSUNG")
  ELSE IF /\ rawlen >= 66
          /\ MATCH_SPACE(buf[2], SAMSUNG.HDR_SPACE)
          /\ AreSpaceBits(buf, 3, 32, SAMSUNG)
  THEN Decoded("SAMSUNG", SpaceBits(buf, 3, 32, SAMSUNG))
  ELSE ERR

decodeWhynter(buf, rawlen) ==
  IF /\ rawlen >= 70
     /\ MATCH_MARK(buf[1], WHYNTER.BIT_MARK) /\ MATCH_SPACE(buf[2], WHYNTER.ZERO)
     /\ MATCH_MARK(buf[3], WHYNTER.HDR) /\ MATCH_SPACE(buf[4], WHYNTER.HDR)
     /\ AreSpaceBits(buf, 5, 32, WHYNTER)
     /\ MATCH_MARK(buf[69], WHYNTER.BIT_MARK)
  THEN Decoded("WHYNTER", SpaceBits(buf, 5, 32, WHYNTER))
  ELSE ERR

\* Shorter (0), about equal (1) or longer (2).
compare(oldval, newval) ==
  IF 10 * newval < 8 * oldval THEN 0 ELSE IF 10 * oldval < 8 * newval THEN 2 ELSE 1

\* Anything else of at least six entries is hashed; value is what is hashed.
decodeHash(buf, rawlen) ==
  IF rawlen < 6 THEN ERR
  ELSE [type |-> "UNKNOWN", value |-> [i \in 1..(rawlen - 3) |-> compare(buf[i], buf[i + 2])],
        bits |-> 32]

\* decode() tries the decoders one after the other; the first to succeed wins.
decodeFrame(buf, rawlen) ==
  LET tried == << decodeNEC(buf, rawlen), decodeSony(buf, rawlen), decodeMitsubishi(buf, rawlen),
                  decodeRC5(buf, rawlen), decodeRC6(buf, rawlen), decodePanasonic(buf, rawlen),
                  decodeLG(buf, rawlen), decodeJVC(buf, rawlen), decodeSAMSUNG(buf, rawlen),
                  decodeWhynter(buf, rawlen), decodeHash(buf, rawlen) >>
      ok == SelectInSeq(tried, LAMBDA r : r # ERR)
  IN  IF ok = 0 THEN ERR ELSE tried[ok]
=============================================================================
