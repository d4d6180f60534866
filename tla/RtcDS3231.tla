------------------------------ MODULE RtcDS3231 ------------------------------
(***************************************************************************)
(* RtcDS3231.cpp: the calls that change the control and status registers   *)
(* of the chip.  Each reads a register, changes bits of what it read and   *)
(* writes it back, in two transactions on the bus; between them the chip   *)
(* goes on, an alarm may fire, and the power may fail.                     *)
(* A register is the set of its bits that are 1.                           *)
(***************************************************************************)
EXTENDS Integers

CONSTANT Frequencies    (* DS3231SquareWaveClock: sets of the bits RS1, RS2   *)

VARIABLES
  control, status,      (* registers 0x0E and 0x0F                           *)
  call,                 (* what the program is doing, [name, arg]            *)
  value,                (* what it has read                                  *)
  timeSet,              (* the time was written since the oscillator stopped *)
  torn,                 (* history: the power failed before it was           *)
  unreported            (* history: alarms that fired, not while a call had
                           read the status and not written it, and that were
                           not reported since                                *)

ds3231 == <<control, status, call, value, timeSet, torn, unreported>>

AIEMASK == {"A1IE", "A2IE"}
AIFMASK == {"A1F", "A2F"}
RSMASK  == {"RS1", "RS2"}

\* The frequency of a new chip is one of them.
ASSUME FrequencyAssumption == Frequencies \subseteq SUBSET RSMASK /\ RSMASK \in Frequencies

ControlBits == AIEMASK \cup RSMASK \cup {"INTCN", "CONV", "BBSQW", "EOSC"}
StatusBits  == AIFMASK \cup {"EN32KHZ", "OSF"}

Modes == {"None", "BatteryBackup", "Clock", "AlarmOne", "AlarmTwo", "AlarmBoth"}

Call(name, arg) == [name |-> name, arg |-> arg]
Idle == Call("none", TRUE)
Off  == Call("off", TRUE)

OnStatus  == [name : {"Enable32kHzPin"}, arg : BOOLEAN]
             \cup [name : {"LatchAlarmsTriggeredFlags", "SetDateTime"}, arg : {TRUE}]
OnControl == [name : {"SetIsRunning", "ForceTemperatureCompensationUpdate"}, arg : BOOLEAN]
             \cup [name : {"SetSquareWavePin"}, arg : Modes]
             \cup [name : {"SetSquareWavePinClockFrequency"}, arg : Frequencies]

DS3231TypeOK ==
  /\ control \subseteq ControlBits /\ status \subseteq StatusBits
  /\ \/ call.name \in {"none", "off", "time", "converting"}
     \/ call.name \in {"Enable32kHzPin", "LatchAlarmsTriggeredFlags", "SetDateTime"}
        /\ value \subseteq StatusBits
     \/ call.name \in {"SetIsRunning", "ForceTemperatureCompensationUpdate",
                       "SetSquareWavePin", "SetSquareWavePinClockFrequency"}
        /\ value \subseteq ControlBits
  /\ timeSet \in BOOLEAN /\ torn \in BOOLEAN /\ unreported \subseteq AIFMASK

\* The chip with a new battery.
NewControl == {"INTCN", "RS1", "RS2"}
NewStatus  == {"OSF", "EN32KHZ"}

DS3231Init ==
  /\ control = NewControl /\ status = NewStatus
  /\ call = Idle /\ value = {} /\ timeSet = FALSE /\ torn = FALSE /\ unreported = {}

----------------------------------------------------------------------------
(* The calls                                                               *)

With(bits, bit, on) == IF on THEN bits \cup {bit} ELSE bits \ {bit}

\* Seeded fault: the frequency is cleared with the mode.
ModeBits_ClearsAll(mode, creg) ==
  (creg \ (AIEMASK \cup RSMASK \cup {"BBSQW", "INTCN"}))
    \cup CASE mode = "None" -> {"INTCN"} [] mode = "BatteryBackup" -> {"BBSQW"}
           [] mode = "Clock" -> {} [] mode = "AlarmOne" -> {"INTCN", "A1IE"}
           [] mode = "AlarmTwo" -> {"INTCN", "A2IE"} [] mode = "AlarmBoth" -> {"INTCN"} \cup AIEMASK

\* The switch of SetSquareWavePin().
ModeBits(mode, creg) ==
  (creg \ (AIEMASK \cup {"BBSQW", "INTCN"}))
    \cup CASE mode = "None" -> {"INTCN"} [] mode = "BatteryBackup" -> {"BBSQW"}
           [] mode = "Clock" -> {} [] mode = "AlarmOne" -> {"INTCN", "A1IE"}
           [] mode = "AlarmTwo" -> {"INTCN", "A2IE"} [] mode = "AlarmBoth" -> {"INTCN"} \cup AIEMASK

\* Seeded fault: the flags of the alarms are the ones that are kept.
Latched_Inverted(sreg) == sreg \cap AIFMASK

Latched(sreg) == sreg \ AIFMASK

\* Seeded fault: the flags of the alarms are cleared with it.
Enabled_Latches(sreg, enable) == With(sreg \ AIFMASK, "EN32KHZ", enable)

Enabled(sreg, enable) == With(sreg, "EN32KHZ", enable)

\* What a call writes back.
Changed ==
  CASE call.name = "Enable32kHzPin" -> Enabled(value, call.arg)
    [] call.name = "LatchAlarmsTriggeredFlags" -> Latched(value)
    [] call.name = "SetDateTime" -> value \ {"OSF"}
    [] call.name = "SetIsRunning" -> With(value, "EOSC", ~call.arg)
    [] call.name = "SetSquareWavePin" -> ModeBits(call.arg, value)
    [] call.name = "SetSquareWavePinClockFrequency" -> (value \ RSMASK) \cup call.arg
    [] call.name = "ForceTemperatureCompensationUpdate" -> value \cup {"CONV"}

\* getReg()
Reads ==
  /\ call = Idle
  /\ \/ call' \in OnStatus /\ value' = status
     \/ call' \in OnControl /\ value' = control
  /\ UNCHANGED <<control, status, timeSet, torn, unreported>>

\* setReg() of the status: the program can clear the flags of the chip, not set
\* them.  SetDateTime() goes on to write the time.
WritesStatus ==
  /\ call \in OnStatus
  /\ status' = {b \in Changed : b = "EN32KHZ" \/ b \in status}
  /\ unreported' = IF call.name = "LatchAlarmsTriggeredFlags" THEN unreported \ value
                   ELSE unreported
  /\ call' = IF call.name = "SetDateTime" THEN Call("time", TRUE) ELSE Idle
  /\ value' = {}
  /\ UNCHANGED <<control, timeSet, torn>>

WritesTime ==
  /\ call.name = "time"
  /\ timeSet' = TRUE /\ torn' = FALSE /\ call' = Idle
  /\ UNCHANGED <<control, status, value, unreported>>

\* setReg() of the control register: CONV stays until the chip has converted.
WritesControl ==
  /\ call \in OnControl
  /\ control' = Changed \cup (control \cap {"CONV"})
  /\ call' = IF call = Call("ForceTemperatureCompensationUpdate", TRUE)
             THEN Call("converting", TRUE) ELSE Idle
  /\ value' = {}
  /\ UNCHANGED <<status, timeSet, torn, unreported>>

\* The loop of a blocking ForceTemperatureCompensationUpdate().
SeesConverted ==
  /\ call.name = "converting" /\ "CONV" \notin control
  /\ call' = Idle
  /\ UNCHANGED <<control, status, value, timeSet, torn, unreported>>

----------------------------------------------------------------------------
(* The chip, its power and its battery                                     *)

AlarmFires ==
  \E a \in AIFMASK :
    /\ status' = status \cup {a}
    /\ unreported' = IF call \in OnStatus /\ a \notin value THEN unreported \ {a}
                     ELSE unreported \cup {a}
    /\ UNCHANGED <<control, call, value, timeSet, torn>>

Converts ==
  /\ "CONV" \in control
  /\ control' = control \ {"CONV"}
  /\ UNCHANGED <<status, call, value, timeSet, torn, unreported>>

\* On the battery the oscillator runs unless EOSC is set.
PowerFails ==
  /\ call # Off
  /\ call' = Off /\ value' = {}
  /\ IF "EOSC" \in control
     THEN status' = status \cup {"OSF"} /\ timeSet' = FALSE /\ torn' = FALSE
     ELSE UNCHANGED <<status, timeSet>> /\ torn' = (torn \/ call.name = "time")
  /\ UNCHANGED <<control, unreported>>

PowerReturns ==
  /\ call = Off /\ call' = Idle
  /\ UNCHANGED <<control, status, value, timeSet, torn, unreported>>

BatteryFails ==
  /\ call = Off
  /\ control' = NewControl /\ status' = NewStatus
  /\ timeSet' = FALSE /\ torn' = FALSE /\ unreported' = {}
  /\ UNCHANGED <<call, value>>

DS3231Next ==
  \/ Reads \/ WritesStatus \/ WritesTime \/ WritesControl \/ SeesConverted
  \/ AlarmFires \/ Converts \/ PowerFails \/ PowerReturns \/ BatteryFails

----------------------------------------------------------------------------
\* IsDateTimeValid()
IsDateTimeValid == "OSF" \notin status

\* A valid time was set, unless the power failed in SetDateTime() between the two
\* writes: the flag is cleared before the time is written.
ValidMeansSet == IsDateTimeValid => timeSet \/ call.name = "time" \/ torn

\* An alarm stays in the register until it is reported; one that fires while a
\* call holds an older copy of the register may be lost.
AlarmsStay == unreported \subseteq status

\* The settings as the control register shows them.
ModeShown ==
  CASE "INTCN" \notin control -> (IF "BBSQW" \in control THEN "BatteryBackup" ELSE "Clock")
    [] "INTCN" \in control    -> (CASE AIEMASK \subseteq control -> "AlarmBoth"
                                    [] control \cap AIEMASK = {"A1IE"} -> "AlarmOne"
                                    [] control \cap AIEMASK = {"A2IE"} -> "AlarmTwo"
                                    [] control \cap AIEMASK = {} -> "None")

\* The call in progress, if it is for a setting.
SettingCalls ==
  {"SetIsRunning", "SetSquareWavePin", "SetSquareWavePinClockFrequency", "Enable32kHzPin"}
Pending == IF call.name \in SettingCalls \cup {"off"} THEN call ELSE Idle

Settings == INSTANCE RtcSettings WITH
  running <- "EOSC" \notin control, mode <- ModeShown,
  frequency <- control \cap RSMASK, NewFrequency <- RSMASK, pin32kHz <- "EN32KHZ" \in status,
  call <- Pending

\* A call that sets one of the settings has set that one to its argument when it
\* returns; no other setting is changed by it, and none by any other call or by what
\* the chip does between the reading and the writing of a register.
SettingsImplemented == Settings!Spec
=============================================================================
