----------------------------- MODULE RtcSettings -----------------------------
(***************************************************************************)
(* What the settings of the DS3231 promise their user: four of them, each  *)
(* changed by its own call alone, to what the call asks for, by the time   *)
(* it returns.  When the power fails the call has done nothing.  A battery *)
(* that fails puts all of them back.                                       *)
(***************************************************************************)

CONSTANTS
  Modes, Frequencies, NewFrequency,
  Idle, Off     (* values of call: there is none; there is no power          *)

VARIABLES
  running, mode, frequency, pin32kHz,
  call          (* the call in progress, [name, arg]                         *)

settings == <<running, mode, frequency, pin32kHz>>
vars == <<settings, call>>

Calls ==
  [name : {"SetIsRunning", "Enable32kHzPin"}, arg : BOOLEAN]
  \cup [name : {"SetSquareWavePin"}, arg : Modes]
  \cup [name : {"SetSquareWavePinClockFrequency"}, arg : Frequencies]

Init ==
  /\ running \in BOOLEAN /\ mode \in Modes
  /\ frequency \in Frequencies /\ pin32kHz \in BOOLEAN
  /\ call = Idle

Begins == call = Idle /\ call' \in Calls /\ UNCHANGED settings

Returns(name) == call.name = name /\ call' = Idle

SetIsRunning ==
  /\ Returns("SetIsRunning")
  /\ running' = call.arg /\ UNCHANGED <<mode, frequency, pin32kHz>>

SetSquareWavePin ==
  /\ Returns("SetSquareWavePin")
  /\ mode' = call.arg /\ UNCHANGED <<running, frequency, pin32kHz>>

SetSquareWavePinClockFrequency ==
  /\ Returns("SetSquareWavePinClockFrequency")
  /\ frequency' = call.arg /\ UNCHANGED <<running, mode, pin32kHz>>

Enable32kHzPin ==
  /\ Returns("Enable32kHzPin")
  /\ pin32kHz' = call.arg /\ UNCHANGED <<running, mode, frequency>>

PowerFails == call # Off /\ call' = Off /\ UNCHANGED settings

PowerReturns == call = Off /\ call' = Idle /\ UNCHANGED settings

\* All of them are as in a new chip.
BatteryFails ==
  /\ call = Off /\ UNCHANGED call
  /\ running' = TRUE /\ mode' = "None" /\ frequency' = NewFrequency /\ pin32kHz' = TRUE

Next ==
  \/ Begins
  \/ SetIsRunning \/ SetSquareWavePin \/ SetSquareWavePinClockFrequency \/ Enable32kHzPin
  \/ PowerFails \/ PowerReturns \/ BatteryFails

Spec == Init /\ [][Next]_vars
=============================================================================
