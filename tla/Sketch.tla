------------------------------- MODULE Sketch -------------------------------
(***************************************************************************)
(* What the MQTT sketches with the old client have in common: power, the   *)
(* waiting for the network in setup(), one connect() at its end, and a     *)
(* loop() that serves one command at a time and does not connect again.    *)
(* One thread: pc says where it is, and the modules that extend this one   *)
(* add the places where it may be busy:                                    *)
(*   "off"     without power                                               *)
(*   "wifi"    the waiting loop of setup()                                 *)
(*   "clock"   setup() looks whether its clock is valid (NtpClock)         *)
(*   "age"     setup() compares its clock with the time of compilation     *)
(*   "connect" client.connect() at the end of setup()                      *)
(*   "loop"    between two rounds of loop()                                *)
(***************************************************************************)
EXTENDS Integers, Sequences, FiniteSets

CONSTANT Sketches    (* which sketches the device may run                    *)

ASSUME SketchAssumption ==
  Sketches \subseteq {"rtc", "relay", "dht", "mqtt_node", "http_node"}

VARIABLES
  sketch,       (* the sketch the device runs                                *)
  pc,
  command,      (* what the callback or web handler serves, or "none"        *)
  waited,       (* time spent in the current delay() or reading              *)
  online        (* connected and subscribed                                  *)

thread == <<sketch, pc, command, waited, online>>

HasClock  == sketch \in {"rtc", "mqtt_node", "http_node"}
HasDht    == sketch \in {"dht", "mqtt_node", "http_node"}
HasRelay  == sketch \in {"relay", "mqtt_node", "http_node"}

ClockCommands == {"rtc set", "rtc get"}
DhtCommands   == {"temp", "hum"}
RelayCommands == {"relay on", "relay off", "relay state"}
LedCommands   == {"led on", "led off", "led state"}
Commands      == ClockCommands \cup DhtCommands \cup RelayCommands \cup LedCommands

Busy == {"syncing", "humidity", "temperature", "pulsing"}

ThreadTypeOK ==
  /\ sketch \in Sketches
  /\ pc \in {"off", "wifi", "clock", "age", "connect", "loop"} \cup Busy
  /\ command \in Commands \cup {"none"}
  /\ waited \in 0..1 /\ online \in BOOLEAN

ThreadInit ==
  /\ sketch \in Sketches /\ pc = "off" /\ command = "none" /\ waited = 0 /\ online = FALSE

At(place)   == pc = place
GoTo(place) == pc' = place /\ waited' = 0 /\ UNCHANGED <<sketch, online>>

\* Power comes; loop() has nothing to do until the network has been joined.
Boots ==
  /\ At("off") /\ GoTo("wifi") /\ UNCHANGED command

WifiJoined ==
  /\ At("wifi")
  /\ GoTo(IF HasClock THEN "clock" ELSE "connect")
  /\ UNCHANGED command

\* connect() and subscribe() are tried once; the web server needs no session.
Connects ==
  /\ At("connect")
  /\ pc' = "loop" /\ waited' = 0
  /\ online' \in IF sketch = "http_node" THEN {TRUE} ELSE BOOLEAN
  /\ UNCHANGED <<sketch, command>>

SessionLost ==
  /\ online /\ sketch # "http_node"
  /\ online' = FALSE
  /\ UNCHANGED <<sketch, pc, command, waited>>

PowerLost ==
  /\ ~At("off")
  /\ pc' = "off" /\ command' = "none" /\ waited' = 0 /\ online' = FALSE
  /\ UNCHANGED sketch

\* A command is served where the program is in loop(); one that takes no time
\* leaves it there.
Serves(c)     == At("loop") /\ online /\ command' = "none" /\ UNCHANGED <<sketch, pc, waited, online>>
Starts(c, place) == At("loop") /\ online /\ command' = c /\ GoTo(place)
Replies       == command' = "none" /\ GoTo("loop")
=============================================================================
