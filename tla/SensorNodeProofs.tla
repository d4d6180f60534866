-------------------------- MODULE SensorNodeProofs --------------------------
(* What TLAPS proves of the devices, for every set of sketches and all      *)
(* bounds of the clock and the sensor: what the program says of the relay,  *)
(* and that the clock is right unless a reply was late.  RelayInv adds      *)
(* to RelayKnown that a pin is high only in a pulse, and what the values    *)
(* are; setRTC() does not return into one.  SyncInv is described below.     *)
EXTENDS SensorNode, TLAPS

RelayInv ==
  /\ RelayTypeOK /\ RelayKnown
  /\ pc = "pulsing" <=> pin # "none"

\* What the steps of the thread do, seen from the relay.
LEMMA OthersStay ==
  ASSUME RelayInv, relay' = relay, pc' # "pulsing", pc # "pulsing"
  PROVE  RelayInv'
BY DEF RelayInv, RelayTypeOK, RelayKnown, relay

LEMMA SameRelay ==
  ASSUME RelayInv, relay' = relay, pc' = pc
  PROVE  RelayInv'
BY DEF RelayInv, RelayTypeOK, RelayKnown, relay

AfterInv == after \in {"age", "connect", "loop"}

LEMMA AfterStays ==
  ASSUME AfterInv, Next
  PROVE  AfterInv'
<1>1. CASE Start \/ DhtStep \/ RelayStep \/ LedStep \/ Session
  BY <1>1 DEF Start, DhtStep, RelayStep, LedStep, Session, parts, clock, AfterInv
<1>2. CASE Setup
  BY <1>2 DEF Setup, SetupClock, SetupAge, KeepsClock, Request, SetsCompiled, parts, clock, AfterInv
<1>3. CASE ClockStep \/ Timer
  BY <1>3 DEF ClockStep, Timer, CommandSets, AnswersTime, SetRTC, TimerSets, Request, clock, AfterInv
<1>4. CASE Net \/ Battery
  BY <1>4 DEF Net, Battery, ReplyComes, ReplyLost, BatteryFails, AfterInv
<1>5. CASE PowerFails
  BY <1>5 DEF PowerFails, ClockLosesPower, AfterInv
<1>6. CASE Tick
  BY <1>6 DEF Tick, ClockTicks, clock, AfterInv
<1> QED
  BY <1>1, <1>2, <1>3, <1>4, <1>5, <1>6 DEF Next

LEMMA InitRelay == Init => RelayInv /\ AfterInv
BY DEF Init, ThreadInit, ClockInit, AfterInv, RelayInit, RelayInv, RelayTypeOK, RelayKnown

\* setup() does not touch the relay.
LEMMA SetupRelay ==
  ASSUME RelayInv, Start \/ Setup
  PROVE  RelayInv'
<1>1. CASE Start
  BY <1>1, OthersStay DEF Start, parts, Boots, At, GoTo
<1>2. CASE Setup
  <2>1. relay' = relay
    BY <1>2 DEF Setup, parts
  <2>2. pc # "pulsing" /\ pc' # "pulsing"
    BY <1>2 DEF Setup, WifiJoined, SetupClock, SetupAge, Connects, KeepsClock, Request,
                SetsCompiled, At, GoTo
  <2> QED
    BY <2>1, <2>2, OthersStay
<1> QED
  BY <1>1, <1>2

\* Neither do the clock and the sensor.
LEMMA ClockRelay ==
  ASSUME RelayInv, AfterInv, ClockStep \/ Timer \/ DhtStep \/ LedStep
  PROVE  RelayInv'
<1>1. CASE ClockStep \/ Timer
  <2>1. relay' = relay
    BY <1>1 DEF ClockStep, Timer
  <2>2. CASE AnswersTime
    BY <2>1, <2>2, SameRelay DEF AnswersTime, Serves
  <2>3. CASE CommandSets \/ TimerSets
    BY <2>1, <2>3, OthersStay DEF CommandSets, TimerSets, Request, At, GoTo
  <2>4. CASE SetRTC
    <3>1. pc = "syncing" /\ pc' = after
      BY <2>4 DEF SetRTC, At, GoTo
    <3> QED
      BY <2>1, <3>1, OthersStay DEF AfterInv
  <2> QED
    BY <1>1, <2>2, <2>3, <2>4 DEF ClockStep, Timer
<1>2. CASE DhtStep
  <2>1. relay' = relay
    BY <1>2 DEF DhtStep
  <2>2. CASE AnswersOldReading
    BY <2>1, <2>2, SameRelay DEF AnswersOldReading, Serves
  <2>3. CASE StartsReading \/ readHumidity \/ readTemperature
    BY <2>1, <2>3, OthersStay DEF StartsReading, readHumidity, readTemperature, Starts, Replies, At, GoTo
  <2> QED
    BY <1>2, <2>2, <2>3 DEF DhtStep
<1>3. CASE LedStep
  BY <1>3, SameRelay DEF LedStep, Serves
<1> QED
  BY <1>1, <1>2, <1>3

\* A pulse ends with the contact where relayState says.
LEMMA PulseRelay ==
  ASSUME RelayInv, RelayStep
  PROVE  RelayInv'
<1>1. CASE PulseStarts
  <2>1. PICK c \in {"relay on", "relay off"} :
          /\ Starts(c, "pulsing")
          /\ pin' = IF c = "relay on" THEN "on" ELSE "off"
          /\ UNCHANGED <<relayState, contact, pulsed>>
    BY <1>1 DEF PulseStarts
  <2>2. pc' = "pulsing" /\ pin' \in {"on", "off"}
    BY <2>1 DEF Starts, GoTo
  <2> QED
    BY <2>1, <2>2 DEF RelayInv, RelayTypeOK, RelayKnown
<1>2. CASE PulseEnds
  BY <1>2 DEF PulseEnds, Replies, At, GoTo, RelayInv, RelayTypeOK, RelayKnown
<1>3. CASE AnswersRelay
  BY <1>3, SameRelay DEF AnswersRelay, Serves
<1> QED
  BY <1>1, <1>2, <1>3 DEF RelayStep

\* The world: without power the program's belief is gone, and "off" is not wrong
\* of a relay it has not pulsed.
LEMMA WorldRelay ==
  ASSUME RelayInv, Net \/ Session \/ PowerFails \/ Battery \/ Tick
  PROVE  RelayInv'
<1>1. CASE Net \/ Session \/ Battery \/ Tick
  BY <1>1, SameRelay DEF Net, Session, Battery, Tick, thread, parts, SessionLost
<1>2. CASE PowerFails
  BY <1>2 DEF PowerFails, PowerLost, RelayLosesPower, RelayInv, RelayTypeOK, RelayKnown
<1> QED
  BY <1>1, <1>2

\* Once it has pulsed the relay the program knows where it is, and before that
\* it is at least not wrong in saying that it is on.
THEOREM RelayIsKnown == Spec => []RelayKnown
<1>1. Init => RelayInv /\ AfterInv
  BY InitRelay
<1>2. (RelayInv /\ AfterInv) /\ [Next]_vars => (RelayInv /\ AfterInv)'
  <2> SUFFICES ASSUME RelayInv, AfterInv, [Next]_vars PROVE RelayInv' /\ AfterInv'
    OBVIOUS
  <2>1. CASE Next
    BY <2>1, AfterStays, SetupRelay, ClockRelay, PulseRelay, WorldRelay DEF Next
  <2>2. CASE UNCHANGED vars
    BY <2>2, SameRelay DEF vars, thread, parts, clock, AfterInv
  <2> QED
    BY <2>1, <2>2
<1>3. RelayInv => RelayKnown
  BY DEF RelayInv
<1> QED
  BY <1>1, <1>2, <1>3, PTL DEF Spec

----------------------------------------------------------------------------
(* The clock.  While no reply was late the socket is empty but for the     *)
(* reply to the request that is waited for: there is at most one, because  *)
(* every other request is older than the wait.                             *)

OneReply ==
  IF At("syncing")
  THEN socket = <<>> \/ (waited \notin flying /\ \E x \in 0..waited : socket = <<x>>)
  ELSE socket = <<>>

SyncInv ==
  /\ waited \in 0..1 /\ flying \subseteq 0..Forever
  /\ At("syncing") => \A a \in flying : a >= waited
  /\ ~late => OneReply
  /\ At("off") => ~late
  /\ set => ~At("off") /\ ~At("wifi")
  /\ sketch # "http_node" => /\ set => ~At("clock") /\ ~At("age")
                             /\ At("syncing") => after = "loop"
  /\ OnTimeMeansRight

NodeInv == AfterInv /\ (HasClock => SyncInv)

LEMMA OneElement ==
  ASSUME NEW x
  PROVE  /\ <<x>> # <<>> /\ Head(<<x>>) = x /\ Tail(<<x>>) = <<>>
         /\ Append(<<>>, x) = <<x>>
         /\ [i \in DOMAIN <<x>> |-> Older(<<x>>[i])] = <<Older(x)>>
         /\ [i \in DOMAIN <<>> |-> Older(<<>>[i])] = <<>>
OBVIOUS

LEMMA Ages ==
  /\ Forever \in Nat /\ Forever >= 2
  /\ \A a \in 0..Forever : Older(a) \in 1..Forever /\ (a >= 1 => Older(a) >= 2)
  /\ Older(0) = 1
BY ClockAssumption DEF ClockAssumption, Older

LEMMA SketchStays == Next => UNCHANGED sketch
<1> USE DEF GoTo, Serves, Starts, Replies
<1>1. Start \/ Setup => UNCHANGED sketch
  BY DEF Start, Boots, Setup, WifiJoined, SetupClock, SetupAge, Connects, KeepsClock, Request,
         SetsCompiled
<1>2. ClockStep \/ Timer => UNCHANGED sketch
  BY DEF ClockStep, Timer, CommandSets, AnswersTime, SetRTC, TimerSets, Request
<1>3. DhtStep \/ RelayStep \/ LedStep => UNCHANGED sketch
  BY DEF DhtStep, AnswersOldReading, StartsReading, readHumidity, readTemperature,
         RelayStep, PulseStarts, PulseEnds, AnswersRelay, LedStep
<1>4. Net \/ Session \/ PowerFails \/ Battery \/ Tick => UNCHANGED sketch
  BY DEF Net, thread, Session, SessionLost, PowerFails, PowerLost, Battery, Tick
<1> QED
  BY <1>1, <1>2, <1>3, <1>4 DEF Next

LEMMA InitSync == Init => NodeInv
<1> SUFFICES ASSUME Init PROVE NodeInv
  OBVIOUS
<1>1. waited = 0 /\ flying = {} /\ socket = <<>> /\ pc = "off" /\ set = FALSE /\ late = FALSE /\ after = "loop"
  BY DEF Init, ThreadInit, ClockInit
<1> QED
  BY <1>1 DEF NodeInv, AfterInv, SyncInv, OneReply, OnTimeMeansRight, At

\* Steps that change nothing of the clock, between places that are none of setRTC()
\* and setup().
LEMMA Elsewhere ==
  ASSUME SyncInv, UNCHANGED <<sketch, clock>>, waited' \in 0..1, pc \notin {"syncing", "off", "wifi", "clock", "age"},
         pc' \notin {"syncing", "off", "wifi", "clock", "age"}
  PROVE  SyncInv'
BY DEF SyncInv, OneReply, OnTimeMeansRight, HasClock, At, clock, chip, udp

LEMMA SameSync ==
  ASSUME SyncInv, UNCHANGED <<sketch, clock, pc, waited>>
  PROVE  SyncInv'
BY DEF SyncInv, OneReply, OnTimeMeansRight, HasClock, At, clock, chip, udp

\* A request of setRTC() is the youngest one.
LEMMA RequestSync ==
  ASSUME NEW next \in {"age", "connect", "loop"}, SyncInv, Request(next),
         ~At("off"), ~At("syncing"),
         sketch # "http_node" => next = "loop" /\ ~At("wifi")
  PROVE  SyncInv'
<1>1. /\ pc' = "syncing" /\ waited' = 0 /\ after' = next
      /\ UNCHANGED <<sketch, chip, socket, set, late>>
      /\ flying' \in {flying, flying \cup {0}}
  BY DEF Request, GoTo
<1>2. flying' \subseteq 0..Forever
  BY <1>1, Ages DEF SyncInv
<1> QED
  BY <1>1, <1>2 DEF SyncInv, OneReply, OnTimeMeansRight, HasClock, At, chip

LEMMA SetupSync ==
  ASSUME SyncInv, Start \/ Setup
  PROVE  SyncInv'
<1> USE DEF SyncInv, OneReply, OnTimeMeansRight, HasClock, At, clock, chip, udp
<1>1. CASE Start
  BY <1>1 DEF Start, parts, Boots, GoTo
<1>2. CASE WifiJoined /\ UNCHANGED parts
  BY <1>2 DEF WifiJoined, parts, GoTo
<1>3. CASE Connects /\ UNCHANGED parts
  BY <1>3 DEF Connects, parts
<1>4. CASE SetupClock \/ SetupAge
  <2>1. pc \in {"clock", "age"}
    BY <1>4 DEF SetupClock, SetupAge
  <2>2. CASE KeepsClock("age") \/ KeepsClock("connect")
    <3>1. pc' \in {"age", "connect"} /\ waited' = 0
          /\ UNCHANGED <<sketch, after, valid, behind, flying, socket, set, late>>
      BY <2>2 DEF KeepsClock, GoTo
    <3> QED
      BY <2>1, <3>1
  <2>3. CASE sketch = "http_node" /\ (Request("age") \/ Request("connect"))
    BY <2>1, <2>3, RequestSync
  <2>4. CASE sketch # "http_node" /\ (SetsCompiled("age") \/ SetsCompiled("connect"))
    <3>1. pc' \in {"age", "connect"} /\ waited' = 0
          /\ UNCHANGED <<sketch, after, flying, socket, set, late>>
      BY <2>4 DEF SetsCompiled, GoTo
    <3>2. ~set
      BY <2>1, <2>4
    <3> QED
      BY <2>1, <3>1, <3>2
  <2> QED
    BY <1>4, <2>2, <2>3, <2>4 DEF SetupClock, SetupAge
<1> QED
  BY <1>1, <1>2, <1>3, <1>4 DEF Setup

\* What setRTC() reads, when no reply was late, is the reply to its own request: it
\* is at most a second old, and the correction makes it at most two seconds fast.
LEMMA SetRTCSync ==
  ASSUME SyncInv, AfterInv, SetRTC
  PROVE  SyncInv'
<1>1. /\ pc = "syncing" /\ waited = 1 /\ pc' = after /\ waited' = 0
      /\ UNCHANGED <<sketch, flying, late>>
  BY DEF SetRTC, At, GoTo
<1>2. CASE socket = <<>>
  BY <1>1, <1>2 DEF SetRTC, SyncInv, AfterInv, OneReply, OnTimeMeansRight, HasClock, At, chip
<1>3. CASE socket # <<>>
  <2>1. PICK up \in {0, 1} : SetTo(Adjusted(Head(socket), up))
    BY <1>3 DEF SetRTC
  <2>2. ~late => /\ socket' = <<>>
                 /\ Head(socket) \in 0..1
    <3>1. SUFFICES ASSUME ~late PROVE socket' = <<>> /\ Head(socket) \in 0..1
      OBVIOUS
    <3>2. PICK x \in 0..1 : socket = <<x>>
      BY <1>1, <1>3, <3>1 DEF SyncInv, OneReply, At
    <3> QED
      BY <1>3, <3>2, OneElement DEF SetRTC
  <2>3. ~late => behind' \in (-2)..0
    BY <2>1, <2>2, Ages DEF SetTo, Adjusted
  <2> QED
    BY <1>1, <2>2, <2>3 DEF SyncInv, AfterInv, OneReply, OnTimeMeansRight, HasClock, At
<1> QED
  BY <1>2, <1>3

LEMMA LoopSync ==
  ASSUME SyncInv, AfterInv, ClockStep \/ Timer \/ DhtStep \/ RelayStep \/ LedStep
  PROVE  SyncInv'
<1>1. CASE CommandSets \/ TimerSets
  BY <1>1, RequestSync DEF CommandSets, TimerSets, At
<1>2. CASE SetRTC
  BY <1>2, SetRTCSync
<1>3. CASE AnswersTime
  BY <1>3, SameSync DEF AnswersTime, Serves
<1>4. CASE DhtStep
  <2>1. UNCHANGED <<sketch, clock>>
    BY <1>4 DEF DhtStep, AnswersOldReading, StartsReading, readHumidity, readTemperature, Serves,
                Starts, Replies, GoTo
  <2>2. waited' \in {0, waited} /\ pc \in {"loop", "humidity", "temperature"}
        /\ pc' \in {"loop", "humidity", "temperature"}
    BY <1>4 DEF DhtStep, AnswersOldReading, StartsReading, readHumidity, readTemperature, Serves,
                Starts, Replies, GoTo, At
  <2> QED
    BY <2>1, <2>2, Elsewhere DEF SyncInv
<1>5. CASE RelayStep
  <2>1. UNCHANGED <<sketch, clock>>
    BY <1>5 DEF RelayStep, PulseStarts, PulseEnds, AnswersRelay, Serves, Starts, Replies, GoTo
  <2>2. waited' \in {0, waited} /\ pc \in {"loop", "pulsing"} /\ pc' \in {"loop", "pulsing"}
    BY <1>5 DEF RelayStep, PulseStarts, PulseEnds, AnswersRelay, Serves, Starts, Replies, GoTo, At
  <2> QED
    BY <2>1, <2>2, Elsewhere DEF SyncInv
<1>6. CASE LedStep
  BY <1>6, SameSync DEF LedStep, Serves
<1> QED
  BY <1>1, <1>2, <1>3, <1>4, <1>5, <1>6 DEF ClockStep, Timer

\* A reply that is not late is one to the request that is waited for.
LEMMA NetSync ==
  ASSUME SyncInv, Net
  PROVE  SyncInv'
<1>1. CASE ReplyComes /\ UNCHANGED thread
  <2>0. PICK a \in flying :
          \E stamp \in 0..a :
            /\ flying' = flying \ {a}
            /\ socket' = IF At("off") \/ At("wifi") \/ Len(socket) = MaxSocket THEN socket
                         ELSE Append(socket, stamp)
            /\ late' = (~At("off") /\ (late \/ ~At("syncing") \/ a > waited))
            /\ UNCHANGED <<timer, after, chip, set>>
    BY <1>1 DEF ReplyComes
  <2>1. PICK stamp \in 0..a :
          /\ flying' = flying \ {a}
          /\ socket' = IF At("off") \/ At("wifi") \/ Len(socket) = MaxSocket THEN socket
                       ELSE Append(socket, stamp)
          /\ late' = (~At("off") /\ (late \/ ~At("syncing") \/ a > waited))
          /\ UNCHANGED <<timer, after, chip, set>>
    BY <2>0
  <2>2. UNCHANGED <<sketch, pc, waited>>
    BY <1>1 DEF thread
  <2>3. ~late' => OneReply'
    <3>1. CASE At("off")
      BY <2>1, <2>2, <3>1 DEF SyncInv, OneReply, At
    <3>2. CASE At("syncing") /\ ~late /\ ~(a > waited)
      <4>1. a = waited /\ socket = <<>>
        BY <3>2, Ages DEF SyncInv, OneReply
      <4>2. socket' \in {<<>>, <<stamp>>}
        BY <2>1, <3>2, <4>1, OneElement
      <4>3. waited' \notin flying' /\ stamp \in 0..waited'
        BY <2>1, <2>2, <4>1
      <4> QED
        BY <2>2, <3>2, <4>2, <4>3 DEF OneReply, At
    <3> QED
      BY <2>1, <3>1, <3>2
  <2> QED
    BY <2>1, <2>2, <2>3 DEF SyncInv, OnTimeMeansRight, HasClock, At, chip
<1>2. CASE ReplyLost /\ UNCHANGED thread
  BY <1>2 DEF ReplyLost, thread, SyncInv, OneReply, OnTimeMeansRight, HasClock, At, chip
<1> QED
  BY <1>1, <1>2 DEF Net, thread

LEMMA PowerSync ==
  ASSUME SyncInv, PowerFails \/ Battery \/ Session
  PROVE  SyncInv'
<1>1. CASE PowerFails
  BY <1>1 DEF PowerFails, PowerLost, ClockLosesPower, chip, SyncInv, OneReply, OnTimeMeansRight,
              HasClock, At
<1>2. CASE Battery
  BY <1>2 DEF Battery, BatteryFails, thread, udp, SyncInv, OneReply, OnTimeMeansRight, HasClock, At
<1>3. CASE Session
  BY <1>3, SameSync DEF Session, SessionLost, parts
<1> QED
  BY <1>1, <1>2, <1>3

\* With time the request that is waited for stays the youngest.
LEMMA TickSync ==
  ASSUME SyncInv, HasClock, Tick
  PROVE  SyncInv'
<1>1. /\ UNCHANGED <<sketch, pc, after, set, late, valid>> /\ waited' \in 0..1
      /\ At("syncing") => waited = 0 /\ waited' = 1
      /\ flying' = {Older(a) : a \in flying}
      /\ socket' = [i \in DOMAIN socket |-> Older(socket[i])]
      /\ valid \/ sketch = "http_node" => behind' = behind
  BY DEF Tick, ClockTicks, Busy, At
<1>2. flying' \subseteq 1..Forever
  BY <1>1, Ages DEF SyncInv
<1>3. ~late => OneReply'
  <2>1. SUFFICES ASSUME ~late PROVE OneReply'
    OBVIOUS
  <2>2. CASE socket = <<>>
    <3>1. socket' = <<>>
      BY <1>1, <2>2, OneElement
    <3> QED
      BY <3>1 DEF OneReply
  <2>3. CASE socket # <<>>
    <3>1. At("syncing") /\ waited \notin flying
      BY <2>1, <2>3 DEF SyncInv, OneReply
    <3>2. PICK x \in 0..waited : socket = <<x>>
      BY <2>1, <2>3 DEF SyncInv, OneReply
    <3>3. x = 0 /\ waited' = 1
      BY <1>1, <3>1, <3>2
    <3>4. socket' = <<1>>
      BY <1>1, <3>2, <3>3, OneElement, Ages
    <3>5. 1 \notin flying'
      BY <1>1, <3>1, Ages DEF SyncInv
    <3>6. \E y \in 0..waited' : socket' = <<y>>
      <4>1. 1 \in 0..waited'
        BY <3>3
      <4> QED
        BY <3>4, <4>1
    <3> QED
      BY <1>1, <3>1, <3>3, <3>5, <3>6 DEF OneReply, At
  <2> QED
    BY <2>2, <2>3
<1> QED
  BY <1>1, <1>2, <1>3 DEF SyncInv, OnTimeMeansRight, HasClock, At

\* A running clock that was set from a reply since the start is right, unless one
\* was late: then that is taken for the next one.
THEOREM ClockIsRight == Spec => []OnTimeMeansRight
<1>1. Init => NodeInv
  BY InitSync
<1>2. NodeInv /\ [Next]_vars => NodeInv'
  <2> SUFFICES ASSUME NodeInv, [Next]_vars PROVE NodeInv'
    OBVIOUS
  <2>1. CASE Next
    <3>1. AfterInv'
      BY <2>1, AfterStays DEF NodeInv
    <3>2. HasClock' => HasClock
      BY <2>1, SketchStays DEF HasClock
    <3>3. HasClock => SyncInv'
      BY <2>1, SetupSync, LoopSync, NetSync, PowerSync, TickSync DEF Next, NodeInv
    <3> QED
      BY <3>1, <3>2, <3>3 DEF NodeInv
  <2>2. CASE UNCHANGED vars
    BY <2>2, SameSync DEF vars, thread, parts, NodeInv, AfterInv, HasClock, clock
  <2> QED
    BY <2>1, <2>2
<1>3. NodeInv => OnTimeMeansRight
  BY DEF NodeInv, SyncInv, OnTimeMeansRight
<1> QED
  BY <1>1, <1>2, <1>3, PTL DEF Spec

----------------------------------------------------------------------------
(* The sensor.  What data[] holds of a failure is told as a temperature    *)
(* only while that failure is the last of the readings, and what is told   *)
(* of the humidity is as old as the two caches allow.                      *)

GarbageInv ==
  /\ data = "garbage" /\ ~firstreading => failed
  /\ temp_f = "garbage" /\ pc # "temperature" => failed

FreshInv ==
  /\ waited \in 0..1 /\ lastRead \in Nat /\ previous \in 0..Interval /\ age \in Nat
  /\ pc \in {"humidity", "temperature"} => HasDht
  /\ pc = "temperature" =>
       waited <= previous /\ (humidity \in Readings => age <= Interval - 1 + waited)
  /\ pc # "humidity" /\ humidity \in Readings /\ previous < Interval =>
       age <= previous + Interval - 1

DhtInv == AfterInv /\ GarbageInv /\ FreshInv

LEMMA Intervals ==
  /\ Interval \in Nat /\ Interval >= 2 /\ MaxAge \in Nat
  /\ "garbage" \notin Readings /\ "nan" \notin Readings /\ "zero" \notin Readings
BY DhtAssumption DEF DhtAssumption, MaxAge

\* Steps of the other parts, between places that are none of the sensor's.
LEMMA OthersDht ==
  ASSUME GarbageInv, FreshInv, UNCHANGED dht, waited' \in 0..1,
         pc \notin {"humidity", "temperature"}, pc' \notin {"humidity", "temperature"}
  PROVE  GarbageInv' /\ FreshInv'
<1>1. GarbageInv'
  BY DEF GarbageInv, dht, driver
<1>2. FreshInv'
  BY DEF FreshInv, dht, driver
<1> QED
  BY <1>1, <1>2

LEMMA SameDht ==
  ASSUME GarbageInv, FreshInv, UNCHANGED <<sketch, dht, pc, waited>>
  PROVE  GarbageInv' /\ FreshInv'
<1>1. GarbageInv'
  BY DEF GarbageInv, dht, driver
<1>2. FreshInv'
  BY DEF FreshInv, dht, driver, HasDht
<1> QED
  BY <1>1, <1>2

LEMMA PartsDht ==
  ASSUME DhtInv, Start \/ Setup \/ ClockStep \/ RelayStep \/ LedStep \/ Timer
  PROVE  GarbageInv' /\ FreshInv'
<1>1. CASE Start \/ Setup
  <2>1. UNCHANGED dht
    BY <1>1 DEF Start, Setup, parts
  <2>2. /\ pc \notin {"humidity", "temperature"} /\ pc' \notin {"humidity", "temperature"}
        /\ waited' = 0
    BY <1>1 DEF Start, Boots, Setup, WifiJoined, SetupClock, SetupAge, Connects, KeepsClock, Request,
                SetsCompiled, At, GoTo
  <2> QED
    BY <2>1, <2>2, OthersDht DEF DhtInv
<1>2. CASE ClockStep \/ Timer
  <2>1. UNCHANGED dht
    BY <1>2 DEF ClockStep, Timer
  <2>2. CASE AnswersTime
    BY <2>1, <2>2, SameDht DEF AnswersTime, Serves, DhtInv
  <2>3. CASE CommandSets \/ TimerSets
    <3>1. pc = "loop" /\ pc' = "syncing" /\ waited' = 0
      BY <2>3 DEF CommandSets, TimerSets, Request, At, GoTo
    <3> QED
      BY <2>1, <3>1, OthersDht DEF DhtInv
  <2>4. CASE SetRTC
    <3>1. pc = "syncing" /\ pc' = after /\ waited' = 0
      BY <2>4 DEF SetRTC, At, GoTo
    <3> QED
      BY <2>1, <3>1, OthersDht DEF DhtInv, AfterInv
  <2> QED
    BY <1>2, <2>2, <2>3, <2>4 DEF ClockStep, Timer
<1>3. CASE RelayStep
  <2>1. UNCHANGED dht
    BY <1>3 DEF RelayStep
  <2>2. CASE PulseStarts \/ PulseEnds
    <3>1. /\ pc \notin {"humidity", "temperature"} /\ pc' \notin {"humidity", "temperature"}
          /\ waited' = 0
      BY <2>2 DEF PulseStarts, PulseEnds, Starts, Replies, At, GoTo
    <3> QED
      BY <2>1, <3>1, OthersDht DEF DhtInv
  <2>3. CASE AnswersRelay
    BY <2>1, <2>3, SameDht DEF AnswersRelay, Serves, DhtInv
  <2> QED
    BY <1>3, <2>2, <2>3 DEF RelayStep
<1>4. CASE LedStep
  BY <1>4, SameDht DEF LedStep, Serves, DhtInv
<1> QED
  BY <1>1, <1>2, <1>3, <1>4

\* A reading: garbage comes from data[] only, and from there only of a failure.
LEMMA ReadsGarbage ==
  ASSUME GarbageInv, NEW result \in Values, Read(result)
  PROVE  /\ data' = "garbage" /\ ~firstreading' => failed'
         /\ result = "garbage" => failed'
<1>1. CASE Cached
  BY <1>1 DEF Read, Cached, GarbageInv, driver
<1>2. CASE ~Cached
  BY <1>2, Intervals DEF Read
<1> QED
  BY <1>1, <1>2

LEMMA ReadsGarbageInv ==
  ASSUME GarbageInv, DhtStep
  PROVE  GarbageInv'
<1>1. CASE AnswersOldReading
  BY <1>1 DEF AnswersOldReading, Serves, GarbageInv, dht, driver
<1>2. CASE StartsReading
  BY <1>2 DEF StartsReading, Starts, At, GoTo, GarbageInv, driver
<1>3. CASE readHumidity
  <2>1. PICK result \in Values : Read(result)
    BY <1>3 DEF readHumidity
  <2>2. pc' = "temperature"
    BY <1>3 DEF readHumidity, GoTo
  <2> QED
    BY <2>1, <2>2, ReadsGarbage DEF GarbageInv
<1>4. CASE readTemperature
  <2>1. PICK result \in Values : Read(result) /\ temp_f' = result
    BY <1>4 DEF readTemperature
  <2> QED
    BY <2>1, ReadsGarbage DEF GarbageInv
<1> QED
  BY <1>1, <1>2, <1>3, <1>4 DEF DhtStep

LEMMA ReadsFreshInv ==
  ASSUME FreshInv, DhtStep
  PROVE  FreshInv'
<1>1. CASE AnswersOldReading
  BY <1>1 DEF AnswersOldReading, Serves, FreshInv, dht, driver, HasDht
<1>2. CASE StartsReading
  BY <1>2, Intervals DEF StartsReading, Starts, At, GoTo, FreshInv, driver, HasDht
<1>3. ASSUME NEW result \in Values, Read(result)
      PROVE  lastRead' \in {0, lastRead}
  BY <1>3 DEF Read, driver
<1>4. CASE readHumidity
  <2>1. /\ pc = "humidity" /\ pc' = "temperature" /\ waited' = 0 /\ sketch' = sketch
        /\ previous' = previous /\ lastRead' \in {0, lastRead}
    BY <1>3, <1>4 DEF readHumidity, At, GoTo
  <2>2. age' \in Nat /\ age' <= Interval - 1
    <3>1. (age' = lastRead /\ lastRead < Interval) \/ age' = 0
      BY <1>4 DEF readHumidity, Cached
    <3> QED
      BY <3>1, Intervals DEF FreshInv
  <2> QED
    BY <2>1, <2>2, Intervals DEF FreshInv, HasDht
<1>5. CASE readTemperature
  <2>1. /\ pc = "temperature" /\ pc' = "loop" /\ waited' = 0 /\ sketch' = sketch
        /\ lastRead' \in {0, lastRead} /\ UNCHANGED <<previous, humidity, age>>
    BY <1>3, <1>5 DEF readTemperature, Replies, At, GoTo
  <2> QED
    BY <2>1, Intervals DEF FreshInv
<1> QED
  BY <1>1, <1>2, <1>4, <1>5 DEF DhtStep

LEMMA TickDht ==
  ASSUME GarbageInv, FreshInv, Tick
  PROVE  GarbageInv' /\ FreshInv'
<1>1. /\ UNCHANGED <<sketch, pc>>
      /\ pc \in Busy => waited = 0
      /\ waited' = IF pc \in Busy THEN 1 ELSE 0
      /\ IF HasDht /\ pc # "off" THEN DhtTicks ELSE UNCHANGED dht
  BY DEF Tick, At
<1>2. UNCHANGED <<data, firstreading, failed, humidity, temp_f>>
  BY <1>1 DEF DhtTicks, dht, driver
<1>3. GarbageInv'
  BY <1>1, <1>2 DEF GarbageInv
<1>4. waited' \in 0..1
  BY <1>1
<1>5. CASE HasDht /\ pc # "off"
  <2>1. /\ lastRead' \in Nat /\ previous' \in 0..Interval /\ age' \in Nat
        /\ previous' = (IF previous = Interval THEN Interval ELSE previous + 1)
        /\ age' \in {age, age + 1}
    BY <1>1, <1>5, Intervals DEF DhtTicks, FreshInv
  <2>2. pc = "temperature" => waited = 0 /\ waited' = 1
    BY <1>1 DEF Busy
  <2>3. pc = "temperature" => waited' <= previous'
    BY <2>1, <2>2, Intervals DEF FreshInv
  <2>4. pc = "temperature" /\ humidity \in Readings => age' <= Interval - 1 + waited'
    BY <2>1, <2>2, Intervals DEF FreshInv
  <2>5. pc # "humidity" /\ humidity \in Readings /\ previous' < Interval => age' <= previous' + Interval - 1
    BY <2>1, Intervals DEF FreshInv
  <2> QED
    BY <1>1, <1>2, <1>3, <1>4, <2>1, <2>3, <2>4, <2>5 DEF FreshInv, HasDht
<1>6. CASE ~HasDht \/ pc = "off"
  <2>1. UNCHANGED dht /\ pc \notin {"humidity", "temperature"}
    BY <1>1, <1>6 DEF FreshInv
  <2> QED
    BY <1>1, <1>4, <2>1, OthersDht
<1> QED
  BY <1>5, <1>6

LEMMA DhtInvariant == Spec => []DhtInv
<1>1. Init => DhtInv
  BY InitRelay, Intervals DEF Init, ThreadInit, DhtInit, DhtInv, GarbageInv, FreshInv
<1>2. DhtInv /\ [Next]_vars => DhtInv'
  <2> SUFFICES ASSUME DhtInv, [Next]_vars PROVE DhtInv'
    OBVIOUS
  <2>1. AfterInv'
    BY AfterStays DEF DhtInv, vars, parts, clock, AfterInv
  <2>2. CASE UNCHANGED vars
    BY <2>1, <2>2, SameDht DEF vars, thread, parts, DhtInv
  <2>3. CASE Net \/ Session \/ Battery
    BY <2>1, <2>3, SameDht DEF Net, Session, Battery, SessionLost, thread, parts, DhtInv
  <2>4. CASE PowerFails
    <3>1. /\ pc' = "off" /\ waited' = 0 /\ lastRead' = 0 /\ previous' = 0 /\ age' = 0
          /\ data' = "garbage" /\ firstreading' = TRUE /\ temp_f' = "zero" /\ humidity' = "zero"
      BY <2>4 DEF PowerFails, PowerLost, DhtLosesPower
    <3> QED
      BY <2>1, <3>1, Intervals DEF DhtInv, GarbageInv, FreshInv
  <2>5. CASE DhtStep
    BY <2>1, <2>5, ReadsGarbageInv, ReadsFreshInv DEF DhtInv
  <2>6. CASE Tick
    BY <2>1, <2>6, TickDht DEF DhtInv
  <2> QED
    BY <2>1, <2>2, <2>3, <2>4, <2>5, <2>6, PartsDht DEF Next, DhtInv
<1> QED
  BY <1>1, <1>2, PTL DEF Spec

\* Where what a failed reading left in data[] is told as a temperature, the last
\* transaction with the sensor has failed (read(), gettemperature()).
THEOREM GarbageIsOfAFailure == Spec => []GarbageMeansFailure
<1>1. DhtInv => GarbageMeansFailure
  BY DEF DhtInv, GarbageInv, GarbageMeansFailure, At
<1> QED
  BY <1>1, DhtInvariant, PTL

\* No answer tells a humidity older than twice the interval, whichever of the two
\* caches it comes from and whatever the program did meanwhile.
THEOREM AnswersAreFresh == Spec => FreshEnough
<1>1. DhtInv =>
       ((AnswersOldReading \/ readTemperature) /\ humidity \in Readings => age <= 2 * Interval)
  <2> SUFFICES ASSUME DhtInv, AnswersOldReading \/ readTemperature, humidity \in Readings
               PROVE  age <= 2 * Interval
    OBVIOUS
  <2>1. CASE AnswersOldReading
    <3>1. pc = "loop" /\ previous < Interval
      BY <2>1 DEF AnswersOldReading, Serves, At
    <3> QED
      BY <3>1, Intervals DEF DhtInv, FreshInv
  <2>2. CASE readTemperature
    <3>1. pc = "temperature"
      BY <2>2 DEF readTemperature, At
    <3> QED
      BY <3>1, Intervals DEF DhtInv, FreshInv
  <2> QED
    BY <2>1, <2>2
<1> QED
  BY <1>1, DhtInvariant, PTL DEF FreshEnough
=============================================================================
