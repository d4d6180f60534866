----------------------------- MODULE IrReceiver -----------------------------
(***************************************************************************)
(* The receiver of libraries/IRremoteESP8266: the interrupt handler that   *)
(* measures every edge of the detector, the timer that ends a frame after  *)
(* 15 ms of quiet, and the sketch that polls decode() and calls resume().  *)
(* Interrupts come between any two steps of the sketch.                    *)
(*                                                                         *)
(* The air is what a sender of IrProtocols emits; the detector lengthens   *)
(* marks and shortens spaces by Lag.  A transmission may be cut short at   *)
(* any edge: something comes between, or it was noise.  Transmissions do   *)
(* not overlap, and 15 ms of quiet lie between them.                       *)
(***************************************************************************)
EXTENDS IrProtocols

CONSTANTS
  Signals,      (* what is sent: a function from names to signals *)
  Later,        (* a function from names to those that may follow *)
  Entered,      (* names of those in the middle of which the receiver may be turned on *)
  MaxSent,      (* bound on transmissions *)
  Expected,     (* a function from some of the names to the results that they are to give *)
  Lags          (* by how many microseconds a detector may be late *)

ASSUME LagAssumption == Lags \subseteq Nat

Quiet == 15000    (* os_timer_arm(&timer, 15, 0) *)

VARIABLES
  rcvstate, rawlen, rawbuf,   (* irparams *)
  timer,      (* whether the timer is armed *)
  name,       (* what is or was last sent *)
  edge,       (* the next edge of it to come; 0 when there is none *)
  app,        (* the sketch polls, holds a result, or is in the middle of resume() *)
  result,     (* decode_results of the last successful decode() *)
  lag,        (* of this detector *)
  sent,       (* history: the number of transmissions *)
  heard       (* history: how the frame in rawbuf came about *)

receiver == <<rcvstate, rawlen, rawbuf, timer>>
air == <<name, edge, lag, sent>>
sketch == <<app, result>>
vars == <<receiver, air, sketch, heard>>

\* heard.name is what the frame is from, heard.from the edge it begins with, heard.cut
\* whether that was cut short.
Frame == [name : DOMAIN Signals, from : Nat, cut : BOOLEAN]
FrameFromHere == [name |-> name, from |-> edge, cut |-> FALSE]

TypeOK ==
  /\ rcvstate \in {"IDLE", "MARK", "STOP"}
  /\ rawlen \in 0..(RAWBUF + 1)
  /\ rawlen > RAWBUF => app = "resumes"
  /\ DOMAIN rawbuf = 0..(RAWBUF - 1)
  /\ timer \in BOOLEAN
  /\ name \in DOMAIN Signals /\ edge \in Nat /\ lag \in Lags /\ sent \in 0..MaxSent
  /\ app \in {"polls", "holds", "resumes"}
  /\ rcvstate = "STOP" => rawlen > 0 /\ app # "resumes"
  /\ app = "holds" => result # ERR
  /\ heard \in Frame

----------------------------------------------------------------------------
(* The air                                                                 *)

\* A space that is over before a late detector would pass it on is part of a mark.
IsMissed(duration, late) == -duration \in 1..late
Missed ==
  LET missed(signals, late) == {n \in DOMAIN signals : \E d \in Range(signals[n]) : IsMissed(d, late)}
  IN  [late \in Lags |-> missed(Signals, late)]

Seen(signal, late) ==
  Merged([i \in DOMAIN signal |-> IF IsMissed(signal[i], late) THEN -signal[i] ELSE signal[i]])

\* The time before each edge, as the detector passes it on.  Before the first it was
\* quiet.
EdgesOf(signal, late) ==
  LET seen == Seen(signal, late)
      marks == IF seen # <<>> /\ Last(seen) < 0 THEN Front(seen) ELSE seen
  IN  <<Quiet>> \o [i \in DOMAIN marks |-> IF marks[i] > 0 THEN marks[i] + late ELSE -marks[i] - late]
EdgesAt ==
  LET edges(signals, late) == [n \in DOMAIN signals |-> EdgesOf(signals[n], late)]
  IN  [late \in Lags |-> edges(Signals, late)]
Edges == EdgesAt[lag]

\* enableIRIn(), before a transmission or in the middle of it; the latter is the last
\* (a bound).
Init ==
  /\ rcvstate = "IDLE" /\ rawlen = 0
  /\ rawbuf = [i \in 0..(RAWBUF - 1) |-> 0]
  /\ timer = FALSE
  /\ name \in DOMAIN Signals /\ lag \in Lags
  /\ edge \in IF name \in Entered THEN 1..Len(Edges[name]) ELSE {1}
  /\ sent = IF edge = 1 THEN 1 ELSE MaxSent
  /\ app = "polls" /\ result = ERR
  /\ heard = FrameFromHere

\* 15 ms without an edge have passed or will pass before the next one.
IsQuiet == edge # 0 => Edges[name][edge] >= Quiet

Transmit(n) ==
  /\ edge = 0 /\ ~timer
  /\ sent < MaxSent
  /\ name' = n /\ edge' = 1 /\ sent' = sent + 1
  /\ UNCHANGED <<receiver, lag, sketch, heard>>

\* Only the last transmission is cut short, after some of its marks.
Cut ==
  /\ sent = MaxSent
  /\ edge > 2 /\ edge % 2 = 1
  /\ edge' = 0
  /\ heard' = [heard EXCEPT !.cut = @ \/ rcvstate = "MARK"]
  /\ UNCHANGED <<receiver, name, lag, sent, sketch>>

----------------------------------------------------------------------------
(* gpio_intr() and read_timeout()                                          *)

\* The first entry of a frame is written without looking at rawlen.  With a full
\* buffer it falls on rawlen itself, before or after rawlen is incremented.
FirstEdge ==
  /\ rcvstate = "IDLE"
  /\ rcvstate' = "MARK"
  /\ IF rawlen < RAWBUF
     THEN rawbuf' = [rawbuf EXCEPT ![rawlen] = 20] /\ rawlen' = rawlen + 1
     ELSE rawbuf' = rawbuf /\ rawlen' \in {20, RAWBUF + 1}
  /\ timer' = TRUE
  /\ heard' = FrameFromHere

NextEdge ==
  /\ rcvstate = "MARK"
  /\ IF rawlen < RAWBUF
     THEN /\ rawbuf' = [rawbuf EXCEPT ![rawlen] = Edges[name][edge] \div USECPERTICK + 1]
          /\ rawlen' = rawlen + 1
     ELSE UNCHANGED <<rawbuf, rawlen>>
  /\ timer' = TRUE
  /\ heard' = IF rawlen = 0 THEN FrameFromHere ELSE heard
  /\ UNCHANGED rcvstate

IgnoredEdge ==
  /\ rcvstate = "STOP"
  /\ UNCHANGED <<receiver, heard>>

\* resume() takes less than the time between two edges.
Edge ==
  /\ edge # 0
  /\ IsQuiet => ~timer
  /\ app = "resumes" => rcvstate = "IDLE"
  /\ FirstEdge \/ NextEdge \/ IgnoredEdge
  /\ edge' = IF edge = Len(Edges[name]) THEN 0 ELSE edge + 1
  /\ UNCHANGED <<name, lag, sent, sketch>>

Timeout ==
  /\ timer /\ IsQuiet /\ app # "resumes"
  /\ timer' = FALSE
  /\ rcvstate' = IF rawlen # 0 THEN "STOP" ELSE rcvstate
  /\ UNCHANGED <<rawlen, rawbuf, air, sketch, heard>>

----------------------------------------------------------------------------
(* The sketch: decode(), and resume() when it has used the result           *)

\* Without a frame decode() fails and changes nothing.
DecodeFindsNothing == app = "polls" /\ rcvstate # "STOP" /\ UNCHANGED vars

\* A frame that nothing can be made of is thrown away.
Decode ==
  /\ app = "polls" /\ rcvstate = "STOP"
  /\ LET r == decodeFrame(rawbuf, rawlen)
     IN  IF r # ERR
         THEN /\ result' = r /\ app' = "holds"
              /\ UNCHANGED rcvstate
         ELSE /\ rcvstate' = "IDLE" /\ app' = "resumes"
              /\ UNCHANGED result
  /\ UNCHANGED <<rawlen, rawbuf, timer, air, heard>>

Resume ==
  /\ app = "holds"
  /\ rcvstate' = "IDLE" /\ app' = "resumes"
  /\ UNCHANGED <<rawlen, rawbuf, timer, air, result, heard>>

ResumeEnds ==
  /\ app = "resumes"
  /\ rawlen' = 0 /\ app' = "polls"
  /\ UNCHANGED <<rcvstate, rawbuf, timer, air, result, heard>>

Next ==
  \/ \E n \in Later[name] : Transmit(n)
  \/ Cut \/ Edge \/ Timeout
  \/ DecodeFindsNothing \/ Decode \/ Resume \/ ResumeEnds

Spec == Init /\ [][Next]_vars

----------------------------------------------------------------------------
(* Properties                                                              *)

Whole == heard.from = 1 /\ ~heard.cut

\* A frame received from its first edge to its last gives the protocol and the word
\* that was sent, for every protocol that has both a sender and a decoder: no decoder
\* that is tried earlier takes it, whatever the buffer held before, whether the sketch
\* was late for the frame before it, and although an edge may have fallen into resume().
\* A detector that is later than a space of it is long misses the space.
SentIsDecoded ==
  [][app = "polls" /\ rcvstate = "STOP" /\ app' # app
     /\ Whole /\ heard.name \in DOMAIN Expected \ Missed[lag] =>
       app' = "holds" /\ result' = Expected[heard.name]]_vars

\* A frame whose beginning or end was missed is never taken for a code of NEC or
\* Whynter: of the other decoders some read beyond rawlen what an earlier frame has
\* left there, and some, Mitsubishi's too, take any number of bits.
PartIsNoCode ==
  [][app = "polls" /\ app' = "holds" /\ ~Whole =>
       result'.type \notin {"NEC", "WHYNTER"} \/ result'.bits = 0]_vars
=============================================================================
