------------------------------ MODULE NtpClock ------------------------------
(***************************************************************************)
(* A real time clock chip that is set from a time server: setRTC() of      *)
(* esp_mqtt_rtc (and, word for word, of esp_counter_clock), by a timer in  *)
(* loop() and by a command.                                                *)
(* Time is counted in seconds.  The chip is what its library promises of   *)
(* it (module Rtc): whether it is valid, and by how many seconds it is   *)
(* behind; the bound Forever stands for everything above.                  *)
(***************************************************************************)
EXTENDS Sketch

CONSTANTS
  Period,       (* rtc_time, 600 s                                           *)
  Forever,      (* bound on ages                                             *)
  MaxSocket,    (* bound on unread packets                                   *)
  MaxFlying     (* bound on requests and replies on their way                *)

ASSUME ClockAssumption ==
  /\ Period \in Nat \ {0} /\ Forever \in Nat /\ Forever > Period /\ MaxSocket \in Nat
  /\ MaxFlying \in Nat

VARIABLES
  timer,        (* current_time - rtc_start_time                             *)
  after,        (* where setRTC() returns to                                 *)
  valid,        (* Rtc.IsDateTimeValid()                                     *)
  behind,       (* how far the chip is behind                                *)
  flying,       (* ages of the requests on their way, there or back          *)
  socket,       (* ages of the time stamps in packets not read yet           *)
  set, late     (* history, since the start: the chip was set from a reply;  *)
                (* a reply came after the wait for it                        *)

chip  == <<valid, behind>>
udp   == <<flying, socket>>
clock == <<timer, after, chip, udp, set, late>>

Older(n) == IF n >= Forever THEN Forever ELSE n + 1

ClockTypeOK ==
  /\ timer \in 0..(Period + 1) /\ after \in {"age", "connect", "loop"}
  /\ valid \in BOOLEAN /\ behind \in (-2)..Forever
  /\ flying \subseteq 0..Forever /\ Len(socket) <= MaxSocket
  /\ \A i \in 1..Len(socket) : socket[i] \in 0..Forever
  /\ set \in BOOLEAN /\ late \in BOOLEAN

ClockInit ==
  /\ timer = 0 /\ after = "loop"
  /\ valid \in (IF HasClock THEN BOOLEAN ELSE {FALSE}) /\ behind = Forever
  /\ flying = {} /\ socket = <<>> /\ set = FALSE /\ late = FALSE

\* The globals and the socket are lost with the power; the chip lives on its battery.
ClockLosesPower ==
  /\ timer' = 0 /\ after' = "loop" /\ socket' = <<>> /\ set' = FALSE /\ late' = FALSE
  /\ UNCHANGED <<chip, flying>>

BatteryFails ==
  /\ At("off")
  /\ valid' = FALSE /\ behind' = Forever
  /\ UNCHANGED <<timer, after, udp, set, late>>

----------------------------------------------------------------------------
(* Rtc.SetDateTime(): the DS1307 keeps its clock stopped when it was, the  *)
(* DS3231 of esp_http_node clears its flag.                                *)

ValidAfterSet == IF sketch = "http_node" THEN TRUE ELSE valid

SetTo(lag) ==
  /\ behind' = IF lag > Forever THEN Forever ELSE lag
  /\ valid' = ValidAfterSet

\* setup(): a clock that is not valid, or older than the program, is set to the
\* time of compilation, which is long ago.
SetsCompiled(next) ==
  /\ SetTo(Forever)
  /\ GoTo(next) /\ UNCHANGED <<command, timer, after, udp, set, late>>

\* setRTC() up to its wait.  current_time, from which the timer counts, is the time
\* loop() looked at; setup() of esp_http_node has the one the program began with.
Request(next) ==
  /\ timer' = (IF next = "loop" THEN 0 ELSE timer) /\ after' = next
  /\ flying' = IF Cardinality(flying) < MaxFlying THEN flying \cup {0} ELSE flying
  /\ GoTo("syncing")
  /\ UNCHANGED <<chip, socket, set, late>>

KeepsClock(next) == GoTo(next) /\ UNCHANGED <<command, clock>>

SetupClock ==
  /\ At("clock")
  /\ IF valid THEN KeepsClock("age")
     ELSE IF sketch = "http_node" THEN Request("age") /\ UNCHANGED command
     ELSE SetsCompiled("age")

SetupAge ==
  /\ At("age")
  /\ IF behind < Forever THEN KeepsClock("connect")
     ELSE IF sketch = "http_node" THEN Request("connect") /\ UNCHANGED command
     ELSE SetsCompiled("connect")

----------------------------------------------------------------------------
(* loop(), the callback and setRTC()                                       *)

Due == timer > Period

TimerSets == At("loop") /\ HasClock /\ Due /\ Request("loop") /\ UNCHANGED command

CommandSets ==
  /\ HasClock /\ At("loop") /\ online
  /\ Request("loop") /\ command' = "rtc set"

AnswersTime == HasClock /\ Serves("rtc get") /\ UNCHANGED clock

\* Seeded fault: the second of waiting is not added.
Adjusted_NotAdjusted(age, up) == age - up

\* t4 plus one second for the wait, plus one when its fraction is above 0.4.
Adjusted(age, up) == age - 1 - up

\* After delay(1000): the oldest packet in the socket is taken for the reply.
SetRTC ==
  /\ At("syncing") /\ waited = 1
  /\ IF socket = <<>>
     THEN UNCHANGED <<chip, socket, set>>
     ELSE /\ \E up \in {0, 1} : SetTo(Adjusted(Head(socket), up))
          /\ socket' = Tail(socket) /\ set' = TRUE
  /\ GoTo(after) /\ after' = "loop"
  /\ command' = "none"
  /\ UNCHANGED <<timer, flying, late>>

----------------------------------------------------------------------------
(* The network and time                                                    *)

\* The reply to a request of some age, stamped at any moment since.
ReplyComes ==
  \E age \in flying :
    \E stamp \in 0..age :
      /\ flying' = flying \ {age}
      /\ socket' = IF At("off") \/ At("wifi") \/ Len(socket) = MaxSocket THEN socket
                   ELSE Append(socket, stamp)
      /\ late' = (~At("off") /\ (late \/ ~At("syncing") \/ age > waited))
      /\ UNCHANGED <<timer, after, chip, set>>

ReplyLost ==
  \E age \in flying :
    flying' = flying \ {age} /\ UNCHANGED <<timer, after, chip, socket, set, late>>

\* A stopped DS1307 falls further behind; the DS3231 runs whatever its flag says.
ClockTicks ==
  /\ timer' = IF At("off") \/ timer > Period THEN timer ELSE timer + 1
  /\ flying' = {Older(age) : age \in flying}
  /\ socket' = [i \in DOMAIN socket |-> Older(socket[i])]
  /\ behind' = IF valid \/ sketch = "http_node" THEN behind ELSE Older(behind)
  /\ UNCHANGED <<after, valid, set, late>>

----------------------------------------------------------------------------
\* A running clock that was set from a reply is right, and less than two seconds
\* fast, unless a reply came late since the start: then that one is taken for the
\* reply to the next request, and so on.
OnTimeMeansRight == HasClock /\ valid /\ set /\ ~late => behind \in (-2)..0
=============================================================================
