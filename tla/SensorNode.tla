----------------------------- MODULE SensorNode -----------------------------
(***************************************************************************)
(* The sketches esp_mqtt_node and esp_http_node: one device with a clock   *)
(* set by NTP, a bistable relay, a DHT sensor and an LED, asked over MQTT  *)
(* or by a web browser; and, with fewer parts, esp_mqtt_rtc,               *)
(* esp_counter_clock, esp_mqtt_relay and esp_mqtt_dht.                     *)
(* The parts share the program's one thread and its time: while one waits, *)
(* in delay() or for its sensor, the others are not served.                *)
(***************************************************************************)
EXTENDS NtpClock, DhtSensor, BistableRelay

VARIABLE led    (* the LED is on: its pin is low                             *)

parts == <<clock, dht, relay, led>>
vars  == <<thread, parts>>

TypeOK == ThreadTypeOK /\ ClockTypeOK /\ DhtTypeOK /\ RelayTypeOK /\ led \in BOOLEAN

Init == ThreadInit /\ ClockInit /\ DhtInit /\ RelayInit /\ led = FALSE

----------------------------------------------------------------------------
(* setup()                                                                 *)

Start == Boots /\ UNCHANGED parts

Setup ==
  \/ WifiJoined /\ UNCHANGED parts
  \/ (SetupClock \/ SetupAge) /\ UNCHANGED <<dht, relay, led>>
  \/ Connects /\ UNCHANGED parts

----------------------------------------------------------------------------
(* callback(), or the handlers of the web server                           *)

ClockStep == (CommandSets \/ AnswersTime \/ SetRTC) /\ UNCHANGED <<dht, relay, led>>

DhtStep ==
  /\ AnswersOldReading \/ StartsReading \/ readHumidity \/ readTemperature
  /\ UNCHANGED <<clock, relay, led>>

RelayStep == (PulseStarts \/ PulseEnds \/ AnswersRelay) /\ UNCHANGED <<clock, dht, led>>

LedStep ==
  \E c \in LedCommands :
    /\ sketch \in {"mqtt_node", "http_node"} /\ Serves(c)
    /\ led' = IF c = "led state" THEN led ELSE c = "led on"
    /\ UNCHANGED <<clock, dht, relay>>

Timer == TimerSets /\ UNCHANGED <<dht, relay, led>>

----------------------------------------------------------------------------
(* The world                                                               *)

Net ==
  /\ ReplyComes \/ ReplyLost
  /\ UNCHANGED <<thread, dht, relay, led>>

Session == SessionLost /\ UNCHANGED parts

PowerFails ==
  /\ PowerLost
  /\ ClockLosesPower /\ DhtLosesPower /\ RelayLosesPower /\ led' = FALSE

Battery == HasClock /\ BatteryFails /\ UNCHANGED <<thread, dht, relay, led>>

\* The waits of the program end in time.
Tick ==
  /\ pc \in Busy => waited = 0
  /\ waited' = IF pc \in Busy THEN 1 ELSE 0
  /\ IF HasClock THEN ClockTicks ELSE UNCHANGED clock
  /\ IF HasDht /\ ~At("off") THEN DhtTicks ELSE UNCHANGED dht
  /\ UNCHANGED <<sketch, pc, command, online, relay, led>>

Next ==
  \/ Start \/ Setup \/ ClockStep \/ DhtStep \/ RelayStep \/ LedStep \/ Timer
  \/ Net \/ Session \/ PowerFails \/ Battery \/ Tick

Spec == Init /\ [][Next]_vars
=============================================================================
