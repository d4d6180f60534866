------------------------------ MODULE RtcProofs ------------------------------
(* What TLAPS proves of the Rtc library: that the registers of a DS3231 keep *)
(* their promises and implement the settings; that the memory of a DS1307    *)
(* and its clock do not reach each other; what a date written to either chip *)
(* is read as; that the loops over years and months give the date the chip   *)
(* counts to, on every day that a uint32_t of seconds holds; and when an     *)
(* alarm fires.                                                              *)
EXTENDS Rtc, TLAPS, WellFoundedInduction

----------------------------------------------------------------------------
(* The registers of the DS3231, for every set of frequencies: ValidMeansSet  *)
(* and AlarmsStay, by what a call in progress has read, and the settings.     *)

\* What a call that is going to write a register has read: of the status the flags
\* that were set before and EN32KHZ as it is now, of the control register all but CONV
\* as it is now.
ReadInv ==
  /\ call \in OnStatus => /\ "OSF" \in status => "OSF" \in value
                          /\ unreported \subseteq value
                          /\ "EN32KHZ" \in value <=> "EN32KHZ" \in status
  /\ call \in OnControl => value \ {"CONV"} = control \ {"CONV"}

DS3231Inv == DS3231TypeOK /\ ReadInv /\ ValidMeansSet /\ AlarmsStay

\* A call writes the register it has read, and no other.
LEMMA CallKinds ==
  /\ \A c \in OnStatus : c.name \in {"Enable32kHzPin", "LatchAlarmsTriggeredFlags", "SetDateTime"}
  /\ \A c \in OnControl : c.name \in {"SetIsRunning", "ForceTemperatureCompensationUpdate",
                                      "SetSquareWavePin", "SetSquareWavePinClockFrequency"}
  /\ Idle.name = "none" /\ Off.name = "off"
  /\ Call("time", TRUE).name = "time" /\ Call("converting", TRUE).name = "converting"
BY DEF OnStatus, OnControl, Idle, Off, Call

LEMMA NotReading ==
  /\ Idle \notin OnStatus \cup OnControl /\ Off \notin OnStatus \cup OnControl
  /\ Call("time", TRUE) \notin OnStatus \cup OnControl
  /\ Call("converting", TRUE) \notin OnStatus \cup OnControl
  /\ OnStatus \cap OnControl = {}
BY CallKinds

LEMMA InitDS3231 == DS3231Init => DS3231Inv
<1> SUFFICES ASSUME DS3231Init PROVE DS3231Inv
  OBVIOUS
<1>1. DS3231TypeOK
  BY CallKinds DEF DS3231Init, DS3231TypeOK, NewControl, NewStatus, ControlBits, StatusBits,
                   AIEMASK, AIFMASK, RSMASK
<1>2. ReadInv
  BY NotReading DEF DS3231Init, ReadInv
<1>3. ValidMeansSet /\ AlarmsStay
  BY DEF DS3231Init, ValidMeansSet, IsDateTimeValid, AlarmsStay, NewStatus
<1> QED
  BY <1>1, <1>2, <1>3 DEF DS3231Inv

LEMMA ReadsInv ==
  ASSUME DS3231Inv, Reads
  PROVE  DS3231Inv'
<1>1. CASE call' \in OnStatus /\ value' = status
  <2>1. DS3231TypeOK'
    BY <1>1, CallKinds DEF Reads, DS3231Inv, DS3231TypeOK
  <2>2. ReadInv'
    BY <1>1, NotReading DEF Reads, DS3231Inv, ReadInv, AlarmsStay
  <2> QED
    BY <1>1, <2>1, <2>2, CallKinds DEF Reads, DS3231Inv, ValidMeansSet, IsDateTimeValid, AlarmsStay
<1>2. CASE call' \in OnControl /\ value' = control
  <2>1. DS3231TypeOK'
    BY <1>2, CallKinds DEF Reads, DS3231Inv, DS3231TypeOK
  <2>2. ReadInv'
    BY <1>2, NotReading DEF Reads, DS3231Inv, ReadInv
  <2> QED
    BY <1>2, <2>1, <2>2, CallKinds DEF Reads, DS3231Inv, ValidMeansSet, IsDateTimeValid, AlarmsStay
<1> QED
  BY <1>1, <1>2 DEF Reads

\* What is written to the status.
LEMMA StatusChanged ==
  ASSUME DS3231Inv, call \in OnStatus
  PROVE  /\ Changed \subseteq StatusBits
         /\ call.name # "LatchAlarmsTriggeredFlags" => value \cap AIFMASK \subseteq Changed
         /\ call.name # "SetDateTime" /\ "OSF" \in value => "OSF" \in Changed
<1>1. value \subseteq StatusBits
  BY CallKinds DEF DS3231Inv, DS3231TypeOK
<1>2. CASE call.name = "Enable32kHzPin"
  BY <1>1, <1>2 DEF Changed, Enabled, With, StatusBits, AIFMASK
<1>3. CASE call.name = "LatchAlarmsTriggeredFlags"
  BY <1>1, <1>3 DEF Changed, Latched, AIFMASK
<1>4. CASE call.name = "SetDateTime"
  BY <1>1, <1>4 DEF Changed, AIFMASK
<1> QED
  BY <1>2, <1>3, <1>4, CallKinds

LEMMA WritesStatusInv ==
  ASSUME DS3231Inv, WritesStatus
  PROVE  DS3231Inv'
<1>1. call \in OnStatus /\ call' \in {Idle, Call("time", TRUE)}
      /\ (call.name = "SetDateTime" => call'.name = "time")
  BY CallKinds DEF WritesStatus
<1>2. status' = {b \in Changed : b = "EN32KHZ" \/ b \in status}
  BY DEF WritesStatus
<1>3. unreported' = IF call.name = "LatchAlarmsTriggeredFlags" THEN unreported \ value ELSE unreported
  BY DEF WritesStatus
<1>4. DS3231TypeOK'
  BY <1>1, <1>2, <1>3, CallKinds, StatusChanged DEF WritesStatus, DS3231Inv, DS3231TypeOK
<1>5. ReadInv'
  BY <1>1, NotReading DEF ReadInv
<1>6. ValidMeansSet'
  <2>1. CASE "OSF" \notin status
    BY <1>1, <2>1, CallKinds DEF WritesStatus, DS3231Inv, ValidMeansSet, IsDateTimeValid
  <2>2. CASE "OSF" \in status
    BY <1>1, <1>2, <2>2, StatusChanged DEF DS3231Inv, ReadInv, ValidMeansSet, IsDateTimeValid
  <2> QED
    BY <2>1, <2>2
<1>7. AlarmsStay'
  BY <1>1, <1>2, <1>3, StatusChanged DEF DS3231Inv, DS3231TypeOK, ReadInv, AlarmsStay
<1> QED
  BY <1>4, <1>5, <1>6, <1>7 DEF DS3231Inv

LEMMA ControlChanged ==
  ASSUME DS3231Inv, call \in OnControl
  PROVE  Changed \subseteq ControlBits
<1>1. value \subseteq ControlBits
  BY CallKinds DEF DS3231Inv, DS3231TypeOK
<1>2. CASE call.name = "SetIsRunning"
  BY <1>1, <1>2 DEF Changed, With, ControlBits
<1>3. CASE call.name = "ForceTemperatureCompensationUpdate"
  BY <1>1, <1>3 DEF Changed, ControlBits
<1>4. CASE call.name = "SetSquareWavePin"
  <2>1. call.arg \in Modes
    BY <1>4 DEF OnControl
  <2> QED
    BY <1>1, <1>4, <2>1 DEF Changed, ModeBits, Modes, AIEMASK, ControlBits
<1>5. CASE call.name = "SetSquareWavePinClockFrequency"
  <2>1. call.arg \in Frequencies
    BY <1>5 DEF OnControl
  <2> QED
    BY <1>1, <1>5, <2>1, FrequencyAssumption DEF FrequencyAssumption, Changed, ControlBits
<1> QED
  BY <1>2, <1>3, <1>4, <1>5, CallKinds

LEMMA WritesControlInv ==
  ASSUME DS3231Inv, WritesControl
  PROVE  DS3231Inv'
<1>1. call \in OnControl /\ call' \in {Idle, Call("converting", TRUE)}
  BY DEF WritesControl
<1>2. DS3231TypeOK'
  BY <1>1, CallKinds, ControlChanged DEF WritesControl, DS3231Inv, DS3231TypeOK
<1>3. ReadInv'
  BY <1>1, NotReading DEF ReadInv
<1> QED
  BY <1>1, <1>2, <1>3, CallKinds
     DEF WritesControl, DS3231Inv, ValidMeansSet, IsDateTimeValid, AlarmsStay

LEMMA WritesTimeInv ==
  ASSUME DS3231Inv, WritesTime \/ SeesConverted
  PROVE  DS3231Inv'
<1>1. call' = Idle /\ call.name \in {"time", "converting"}
  BY DEF WritesTime, SeesConverted
<1>2. DS3231TypeOK'
  BY <1>1, CallKinds DEF WritesTime, SeesConverted, DS3231Inv, DS3231TypeOK
<1>3. ReadInv'
  BY <1>1, NotReading DEF ReadInv
<1> QED
  BY <1>1, <1>2, <1>3, CallKinds
     DEF WritesTime, SeesConverted, DS3231Inv, ValidMeansSet, IsDateTimeValid, AlarmsStay

\* An alarm that fires while a call holds an older copy of the status may be lost,
\* and is then not counted.
LEMMA AlarmFiresInv ==
  ASSUME DS3231Inv, AlarmFires
  PROVE  DS3231Inv'
<1>1. PICK a \in AIFMASK :
        /\ status' = status \cup {a}
        /\ unreported' = IF call \in OnStatus /\ a \notin value THEN unreported \ {a}
                         ELSE unreported \cup {a}
        /\ UNCHANGED <<control, call, value, timeSet, torn>>
  BY DEF AlarmFires
<1>2. a # "OSF" /\ a # "EN32KHZ" /\ a \in StatusBits
  BY DEF AIFMASK, StatusBits
<1>3. DS3231TypeOK'
  BY <1>1, <1>2 DEF DS3231Inv, DS3231TypeOK
<1>4. ReadInv'
  BY <1>1, <1>2 DEF DS3231Inv, ReadInv
<1> QED
  BY <1>1, <1>2, <1>3, <1>4 DEF DS3231Inv, ValidMeansSet, IsDateTimeValid, AlarmsStay

LEMMA ConvertsInv ==
  ASSUME DS3231Inv, Converts
  PROVE  DS3231Inv'
<1>1. DS3231TypeOK' /\ ReadInv'
  BY DEF Converts, DS3231Inv, DS3231TypeOK, ReadInv
<1> QED
  BY <1>1 DEF Converts, DS3231Inv, ValidMeansSet, IsDateTimeValid, AlarmsStay

\* Without a call in progress the time is valid when it was written, or when the
\* power failed in SetDateTime() itself.
LEMMA PowerInv ==
  ASSUME DS3231Inv, PowerFails \/ PowerReturns \/ BatteryFails
  PROVE  DS3231Inv'
<1>1. call' \in {Idle, Off}
  BY DEF PowerFails, PowerReturns, BatteryFails
<1>2. DS3231TypeOK'
  BY <1>1, CallKinds DEF PowerFails, PowerReturns, BatteryFails, DS3231Inv, DS3231TypeOK,
     NewControl, NewStatus, ControlBits, StatusBits, AIEMASK, AIFMASK, RSMASK
<1>3. ReadInv'
  BY <1>1, NotReading DEF ReadInv
<1>4. ValidMeansSet' /\ AlarmsStay'
  <2>1. CASE PowerFails
    BY <2>1 DEF PowerFails, DS3231Inv, ValidMeansSet, IsDateTimeValid, AlarmsStay
  <2>2. CASE PowerReturns
    BY <2>2, CallKinds DEF PowerReturns, DS3231Inv, ValidMeansSet, IsDateTimeValid, AlarmsStay
  <2>3. CASE BatteryFails
    BY <2>3 DEF BatteryFails, NewStatus, ValidMeansSet, IsDateTimeValid, AlarmsStay
  <2> QED
    BY <2>1, <2>2, <2>3
<1> QED
  BY <1>2, <1>3, <1>4 DEF DS3231Inv

LEMMA StepInv ==
  ASSUME DS3231Inv, DS3231Next
  PROVE  DS3231Inv'
BY ReadsInv, WritesStatusInv, WritesControlInv, WritesTimeInv, AlarmFiresInv, ConvertsInv, PowerInv
   DEF DS3231Next

LEMMA SameInv ==
  ASSUME DS3231Inv, UNCHANGED ds3231
  PROVE  DS3231Inv'
BY DEF ds3231, DS3231Inv, DS3231TypeOK, ReadInv, ValidMeansSet, IsDateTimeValid, AlarmsStay

LEMMA RegistersCorrect == Spec => []DS3231Inv
<1>1. Init => DS3231Inv
  BY InitDS3231 DEF Init
<1>2. DS3231Inv /\ [Next]_vars => DS3231Inv'
  BY StepInv, SameInv DEF Next, vars
<1> QED
  BY <1>1, <1>2, PTL DEF Spec

\* A valid time was set, unless the power failed between the two writes of
\* SetDateTime().
THEOREM ValidTimeWasSet == Spec => []ValidMeansSet
BY RegistersCorrect, PTL DEF DS3231Inv

\* An alarm stays in the register until LatchAlarmsTriggeredFlags() reports it,
\* whatever calls come between, unless it fires while one of them is writing.
THEOREM AlarmsAreNotLost == Spec => []AlarmsStay
BY RegistersCorrect, PTL DEF DS3231Inv

----------------------------------------------------------------------------
(* The registers implement the settings.                                   *)

LEMMA ModeIsShown == ModeShown \in Modes
<1>1. CASE "INTCN" \notin control
  BY <1>1 DEF ModeShown, Modes
<1>2. CASE "INTCN" \in control
  <2>1. \/ AIEMASK \subseteq control \/ control \cap AIEMASK = {"A1IE"}
        \/ control \cap AIEMASK = {"A2IE"} \/ control \cap AIEMASK = {}
    BY DEF AIEMASK
  <2> QED
    BY <1>2, <2>1 DEF ModeShown, Modes
<1> QED
  BY <1>1, <1>2

\* The bits of a mode show that mode.
LEMMA ModeBitsShow ==
  ASSUME NEW m \in Modes, NEW bits, control' = ModeBits(m, bits) \cup (control \cap {"CONV"})
  PROVE  ModeShown' = m
<1>1. /\ "INTCN" \in control' <=> m \in {"None", "AlarmOne", "AlarmTwo", "AlarmBoth"}
      /\ "BBSQW" \in control' <=> m = "BatteryBackup"
      /\ "A1IE" \in control' <=> m \in {"AlarmOne", "AlarmBoth"}
      /\ "A2IE" \in control' <=> m \in {"AlarmTwo", "AlarmBoth"}
  BY DEF ModeBits, Modes, AIEMASK
<1>2. /\ AIEMASK \subseteq control' <=> "A1IE" \in control' /\ "A2IE" \in control'
      /\ control' \cap AIEMASK = {"A1IE"} <=> "A1IE" \in control' /\ "A2IE" \notin control'
      /\ control' \cap AIEMASK = {"A2IE"} <=> "A1IE" \notin control' /\ "A2IE" \in control'
      /\ control' \cap AIEMASK = {} <=> "A1IE" \notin control' /\ "A2IE" \notin control'
  BY DEF AIEMASK
<1>3. CASE m \in {"BatteryBackup", "Clock"}
  BY <1>1, <1>3 DEF ModeShown
<1>4. CASE m = "None"
  BY <1>1, <1>2, <1>4 DEF ModeShown
<1>5. CASE m = "AlarmOne"
  BY <1>1, <1>2, <1>5 DEF ModeShown
<1>6. CASE m = "AlarmTwo"
  BY <1>1, <1>2, <1>6 DEF ModeShown
<1>7. CASE m = "AlarmBoth"
  BY <1>1, <1>2, <1>7 DEF ModeShown
<1> QED
  BY <1>3, <1>4, <1>5, <1>6, <1>7 DEF Modes

\* Only the bits of the mode are looked at for it.
LEMMA SameMode ==
  ASSUME \A b \in AIEMASK \cup {"INTCN", "BBSQW"} : b \in control' <=> b \in control
  PROVE  ModeShown' = ModeShown
<1>1. control' \cap AIEMASK = control \cap AIEMASK
      /\ (AIEMASK \subseteq control' <=> AIEMASK \subseteq control)
  BY DEF AIEMASK
<1>2. ("INTCN" \in control' <=> "INTCN" \in control) /\ ("BBSQW" \in control' <=> "BBSQW" \in control)
  OBVIOUS
<1> QED
  BY <1>1, <1>2 DEF ModeShown

\* Steps that leave all the bits of the settings alone.
LEMMA SameSettings ==
  ASSUME control' \ {"CONV"} = control \ {"CONV"},
         "EN32KHZ" \in status' <=> "EN32KHZ" \in status
  PROVE  UNCHANGED Settings!settings
<1>1. ModeShown' = ModeShown
  BY SameMode DEF AIEMASK
<1>2. ("EOSC" \notin control')  = ("EOSC" \notin control)
  OBVIOUS
<1>3. (control \cap RSMASK)' = control \cap RSMASK
  BY DEF RSMASK
<1> QED
  BY <1>1, <1>2, <1>3 DEF Settings!settings

\* A call for a setting is pending until it returns.
LEMMA PendingIs ==
  /\ call.name \in SettingCalls => Pending = call
  /\ call.name \notin SettingCalls \cup {"off"} => Pending = Idle
  /\ call \in {Idle, Off} => Pending = call
BY CallKinds DEF Pending, SettingCalls

LEMMA PendingBecomes ==
  /\ call'.name \in SettingCalls => Pending' = call'
  /\ call'.name \notin SettingCalls \cup {"off"} => Pending' = Idle
  /\ call' \in {Idle, Off} => Pending' = call'
BY CallKinds DEF Pending, SettingCalls

\* A call on the control register gives its own setting what it asks for, and changes
\* no other.
LEMMA ControlSettings ==
  ASSUME DS3231Inv, WritesControl
  PROVE  [Settings!Next]_(Settings!vars)
<1>1. call \in OnControl /\ control' = Changed \cup (control \cap {"CONV"}) /\ UNCHANGED status
  BY DEF WritesControl
<1>2. value \ {"CONV"} = control \ {"CONV"}
  BY <1>1 DEF DS3231Inv, ReadInv
<1>3. Pending' = Idle
  <2>1. call' \in {Idle, Call("converting", TRUE)}
    BY DEF WritesControl
  <2> QED
    BY <2>1, CallKinds, PendingBecomes DEF SettingCalls
<1>4. CASE call.name = "SetIsRunning"
  <2>1. Changed = With(value, "EOSC", ~call.arg) /\ call.arg \in BOOLEAN
    BY <1>1, <1>4 DEF Changed, OnControl
  <2>2. \A b : b \notin {"EOSC", "CONV"} => (b \in control' <=> b \in control)
    BY <1>1, <1>2, <2>1 DEF With
  <2>3. ModeShown' = ModeShown
    BY <2>2, SameMode DEF AIEMASK
  <2>4. (control \cap RSMASK)' = control \cap RSMASK
    BY <2>2 DEF RSMASK
  <2>5. ("EOSC" \notin control') = call.arg
    BY <1>1, <2>1 DEF With
  <2>6. Pending = call
    BY <1>4, PendingIs DEF SettingCalls
  <2>7. Settings!SetIsRunning
    BY <1>1, <1>3, <1>4, <2>3, <2>4, <2>5, <2>6 DEF Settings!SetIsRunning, Settings!Returns
  <2> QED
    BY <2>7 DEF Settings!Next
<1>5. CASE call.name = "ForceTemperatureCompensationUpdate"
  <2>1. Changed = value \cup {"CONV"}
    BY <1>5 DEF Changed
  <2>2. UNCHANGED Settings!settings
    BY <1>1, <1>2, <2>1, SameSettings
  <2>3. Pending = Idle
    BY <1>5, PendingIs DEF SettingCalls
  <2> QED
    BY <1>3, <2>2, <2>3 DEF Settings!vars
<1>6. CASE call.name = "SetSquareWavePin"
  <2>1. Changed = ModeBits(call.arg, value) /\ call.arg \in Modes
    BY <1>1, <1>6 DEF Changed, OnControl
  <2>2. \A b : b \notin AIEMASK \cup {"BBSQW", "INTCN", "CONV"} => (b \in control' <=> b \in control)
    BY <1>1, <1>2, <2>1 DEF ModeBits, Modes, AIEMASK
  <2>3. (control \cap RSMASK)' = control \cap RSMASK
    BY <2>2 DEF RSMASK, AIEMASK
  <2>4. ("EOSC" \notin control') = ("EOSC" \notin control)
    BY <2>2 DEF AIEMASK
  <2>5. ModeShown' = call.arg
    BY <1>1, <2>1, ModeBitsShow
  <2>6. Pending = call
    BY <1>6, PendingIs DEF SettingCalls
  <2>7. Settings!SetSquareWavePin
    BY <1>1, <1>3, <1>6, <2>3, <2>4, <2>5, <2>6 DEF Settings!SetSquareWavePin, Settings!Returns
  <2> QED
    BY <2>7 DEF Settings!Next
<1>7. CASE call.name = "SetSquareWavePinClockFrequency"
  <2>1. Changed = (value \ RSMASK) \cup call.arg /\ call.arg \in Frequencies
    BY <1>1, <1>7 DEF Changed, OnControl
  <2>2. call.arg \subseteq RSMASK
    BY <2>1, FrequencyAssumption DEF FrequencyAssumption
  <2>3. \A b : b \notin RSMASK \cup {"CONV"} => (b \in control' <=> b \in control)
    BY <1>1, <1>2, <2>1, <2>2
  <2>4. ModeShown' = ModeShown
    BY <2>3, SameMode DEF AIEMASK, RSMASK
  <2>5. (control \cap RSMASK)' = call.arg
    BY <1>1, <2>1, <2>2 DEF RSMASK
  <2>6. ("EOSC" \notin control') = ("EOSC" \notin control)
    BY <2>3 DEF RSMASK
  <2>7. Pending = call
    BY <1>7, PendingIs DEF SettingCalls
  <2>8. Settings!SetSquareWavePinClockFrequency
    BY <1>1, <1>3, <1>7, <2>4, <2>5, <2>6, <2>7
       DEF Settings!SetSquareWavePinClockFrequency, Settings!Returns
  <2> QED
    BY <2>8 DEF Settings!Next
<1> QED
  BY <1>1, <1>4, <1>5, <1>6, <1>7, CallKinds

\* Enable32kHzPin() gives EN32KHZ what it asks for; the other calls on the status
\* leave it alone.
LEMMA StatusSettings ==
  ASSUME DS3231Inv, WritesStatus
  PROVE  [Settings!Next]_(Settings!vars)
<1>1. UNCHANGED control /\ ModeShown' = ModeShown
  BY SameMode DEF WritesStatus
<1>2. call \in OnStatus /\ status' = {b \in Changed : b = "EN32KHZ" \/ b \in status}
  BY DEF WritesStatus
<1>3. Pending' = Idle
  <2>1. call' \in {Idle, Call("time", TRUE)}
    BY DEF WritesStatus
  <2> QED
    BY <2>1, CallKinds, PendingBecomes DEF SettingCalls
<1>4. CASE call.name = "Enable32kHzPin"
  <2>1. call.arg \in BOOLEAN /\ Changed = With(value, "EN32KHZ", call.arg)
    BY <1>2, <1>4 DEF OnStatus, Changed, Enabled
  <2>2. ("EN32KHZ" \in status') = call.arg
    BY <1>2, <2>1 DEF With
  <2>3. Pending = call
    BY <1>4, PendingIs DEF SettingCalls
  <2>4. Settings!Enable32kHzPin
    BY <1>1, <1>3, <1>4, <2>2, <2>3 DEF Settings!Enable32kHzPin, Settings!Returns
  <2> QED
    BY <2>4 DEF Settings!Next
<1>5. CASE call.name \in {"LatchAlarmsTriggeredFlags", "SetDateTime"}
  <2>1. "EN32KHZ" \in Changed <=> "EN32KHZ" \in value
    BY <1>5 DEF Changed, Latched, AIFMASK
  <2>2. "EN32KHZ" \in value <=> "EN32KHZ" \in status
    BY <1>2 DEF DS3231Inv, ReadInv
  <2>3. "EN32KHZ" \in status' <=> "EN32KHZ" \in status
    BY <1>2, <2>1, <2>2
  <2>4. UNCHANGED Settings!settings
    BY <1>1, <2>3, SameSettings
  <2>5. Pending = Idle
    BY <1>5, PendingIs DEF SettingCalls
  <2> QED
    BY <1>3, <2>4, <2>5 DEF Settings!vars
<1> QED
  BY <1>2, <1>4, <1>5, CallKinds

\* A call is pending from the reading of its register on.
LEMMA ReadsSettings ==
  ASSUME DS3231Inv, Reads
  PROVE  [Settings!Next]_(Settings!vars)
<1>1. UNCHANGED Settings!settings
  BY SameSettings DEF Reads
<1>2. Pending = Idle
  BY PendingIs DEF Reads
<1>3. call' \in OnStatus \cup OnControl
  BY DEF Reads
<1>4. CASE call'.name \in SettingCalls
  <2>1. call' \in Settings!Calls
    BY <1>3, <1>4 DEF OnStatus, OnControl, SettingCalls, Settings!Calls
  <2>2. Pending' = call'
    BY <1>4, PendingBecomes
  <2> QED
    BY <1>1, <1>2, <2>1, <2>2 DEF Settings!Next, Settings!Begins
<1>5. CASE call'.name \notin SettingCalls
  <2>1. call'.name # "off"
    BY <1>3, CallKinds
  <2>2. Pending' = Idle
    BY <1>5, <2>1, PendingBecomes
  <2> QED
    BY <1>1, <1>2, <2>2 DEF Settings!vars
<1> QED
  BY <1>4, <1>5

\* The program waits, or the chip works.
LEMMA ChipSettings ==
  ASSUME WritesTime \/ SeesConverted \/ AlarmFires \/ Converts
  PROVE  [Settings!Next]_(Settings!vars)
<1>1. UNCHANGED Settings!settings
  BY SameSettings DEF WritesTime, SeesConverted, AlarmFires, Converts, AIFMASK
<1>2. Pending' = Pending
  <2>1. CASE WritesTime \/ SeesConverted
    <3>1. call.name \in {"time", "converting"} /\ call' = Idle
      BY <2>1 DEF WritesTime, SeesConverted
    <3> QED
      BY <3>1, PendingIs, PendingBecomes DEF SettingCalls
  <2>2. CASE AlarmFires \/ Converts
    BY <2>2 DEF AlarmFires, Converts, Pending
  <2> QED
    BY <2>1, <2>2
<1> QED
  BY <1>1, <1>2 DEF Settings!vars

LEMMA PowerSettings ==
  ASSUME PowerFails \/ PowerReturns \/ BatteryFails
  PROVE  [Settings!Next]_(Settings!vars)
<1>1. CASE PowerFails
  <2>1. UNCHANGED Settings!settings
    BY <1>1, SameSettings DEF PowerFails
  <2>2. Pending' = Off
    BY <1>1, PendingBecomes DEF PowerFails
  <2>3. Pending # Off
    <3>1. call # Off /\ Idle # Off
      BY <1>1, CallKinds DEF PowerFails
    <3> QED
      BY <3>1 DEF Pending
  <2> QED
    BY <2>1, <2>2, <2>3 DEF Settings!Next, Settings!PowerFails
<1>2. CASE PowerReturns
  <2>1. UNCHANGED Settings!settings
    BY <1>2, SameSettings DEF PowerReturns
  <2>2. Pending = Off /\ Pending' = Idle
    BY <1>2, PendingIs, PendingBecomes DEF PowerReturns
  <2> QED
    BY <2>1, <2>2 DEF Settings!Next, Settings!PowerReturns
<1>3. CASE BatteryFails
  <2>1. control' = NewControl /\ status' = NewStatus
    BY <1>3 DEF BatteryFails
  <2>2. ModeShown' = "None" /\ (control \cap RSMASK)' = RSMASK
    BY <2>1 DEF ModeShown, NewControl, AIEMASK, RSMASK
  <2>3. "EOSC" \notin control' /\ "EN32KHZ" \in status'
    BY <2>1 DEF NewControl, NewStatus
  <2>4. Pending = Off /\ Pending' = Pending
    BY <1>3, PendingIs, PendingBecomes DEF BatteryFails
  <2> QED
    BY <2>2, <2>3, <2>4 DEF Settings!Next, Settings!BatteryFails
<1> QED
  BY <1>1, <1>2, <1>3

LEMMA StepSettings ==
  ASSUME DS3231Inv, DS3231Next
  PROVE  [Settings!Next]_(Settings!vars)
BY ReadsSettings, StatusSettings, ControlSettings, ChipSettings, PowerSettings DEF DS3231Next

\* A call for a setting has given that setting what it asks for when it returns, and
\* changes no other, whatever the chip does between the reading and the writing of a
\* register; no other call changes a setting, and no failure of the power, until the
\* battery fails.
THEOREM SettingsAreKept == Spec => SettingsImplemented
<1>1. Init => Settings!Init
  <2> SUFFICES ASSUME Init PROVE Settings!Init
    OBVIOUS
  <2>1. control = NewControl /\ status = NewStatus /\ call = Idle
    BY DEF Init, DS3231Init
  <2>2. control \cap RSMASK = RSMASK
    BY <2>1 DEF NewControl, RSMASK
  <2>3. ModeShown \in Modes /\ control \cap RSMASK \in Frequencies
    BY <2>2, ModeIsShown, FrequencyAssumption DEF FrequencyAssumption
  <2>4. ("EOSC" \notin control) \in BOOLEAN /\ ("EN32KHZ" \in status) \in BOOLEAN
    OBVIOUS
  <2>5. Pending = Idle
    BY <2>1, PendingIs
  <2> QED
    BY <2>3, <2>4, <2>5, Zenon DEF Settings!Init
<1>2. DS3231Inv /\ [Next]_vars => [Settings!Next]_(Settings!vars)
  <2> SUFFICES ASSUME DS3231Inv, [Next]_vars PROVE [Settings!Next]_(Settings!vars)
    OBVIOUS
  <2>1. CASE DS3231Next
    BY <2>1, StepSettings
  <2>2. CASE UNCHANGED ds3231
    <3>1. UNCHANGED Settings!settings
      BY <2>2, SameSettings DEF ds3231
    <3>2. Pending' = Pending
      BY <2>2 DEF ds3231, Pending
    <3> QED
      BY <3>1, <3>2 DEF Settings!vars
  <2> QED
    BY <2>1, <2>2 DEF Next, vars
<1> QED
  BY <1>1, <1>2, RegistersCorrect, PTL DEF Spec, SettingsImplemented, Settings!Spec

----------------------------------------------------------------------------
(* The memory of the DS1307, for every size of the chip and every run of     *)
(* bytes.  MemoryInv says where what was stored is kept.                     *)

MemoryInv ==
  /\ DS1307TypeOK
  /\ ~wrapped => /\ \A r \in Clock : reg[r] = timeRegs[r]
                 /\ \A a \in Memory : reg[a + REG_RAMSTART] = stored[a]

LEMMA Sizes ==
  /\ REG_RAMSTART \in Nat \ {0} /\ REG_RAMEND \in Nat /\ Bytes \in Nat /\ MaxCount \in Nat
  /\ REG_RAMSTART < REG_RAMEND /\ REG_RAMEND < Bytes /\ 0 \in Values
BY DS1307Assumption DEF DS1307Assumption

LEMMA Modulo ==
  ASSUME NEW n \in Nat \ {0}
  PROVE  /\ \A x \in 0..(n - 1) : x % n = x
         /\ \A x \in (-n)..(-1) : x % n = x + n
<1>1. ASSUME NEW x \in 0..(n - 1) PROVE x % n = x
  BY SMTT(20)
<1>2. ASSUME NEW x \in (-n)..(-1) PROVE x % n = x + n
  BY SMTT(20)
<1> QED
  BY <1>1, <1>2

LEMMA MinOfTwo ==
  ASSUME NEW x \in Int, NEW y \in Int
  PROVE  Min({x, y}) = IF x <= y THEN x ELSE y
BY DEF Min

\* An address on the chip that has not wrapped.
LEMMA NoWrap ==
  ASSUME NEW m \in 0..(Bytes - 1), ~Wraps(m)
  PROVE  Address(m) = m + REG_RAMSTART
<1>1. m + REG_RAMSTART \in 0..(Bytes - 1) /\ Bytes \in Nat \ {0}
  BY Sizes DEF Wraps
<1> QED
  BY <1>1, Modulo DEF Address

LEMMA Runs ==
  ASSUME NEW values \in SeqOf(Values, MaxCount)
  PROVE  /\ Len(values) \in 0..MaxCount
         /\ \A i \in 1..Len(values) : values[i] \in Values
<1>1. PICK m \in 0..MaxCount : values \in [1..m -> Values]
  BY DEF SeqOf
<1>2. Len(values) = m
  BY <1>1, Sizes
<1> QED
  BY <1>1, <1>2

LEMMA InitMemory == DS1307Init => MemoryInv
<1> SUFFICES ASSUME DS1307Init PROVE MemoryInv
  OBVIOUS
<1>1. DS1307TypeOK
  BY Sizes DEF DS1307Init, DS1307TypeOK
<1>2. \A a \in Memory : a + REG_RAMSTART \in Registers
  BY Sizes DEF Memory, Registers
<1>3. Clock \subseteq Registers
  BY Sizes DEF Clock, Registers
<1> QED
  BY <1>1, <1>2, <1>3 DEF DS1307Init, MemoryInv

LEMMA TimeMemory ==
  ASSUME MemoryInv, SetIsRunning \/ SetDateTime1307
  PROVE  MemoryInv'
<1>1. CASE SetIsRunning
  BY <1>1 DEF SetIsRunning, MemoryInv, DS1307TypeOK
<1>2. CASE SetDateTime1307
  <2>1. PICK time \in [Clock -> Values] :
          /\ reg' = [r \in Registers |-> IF r \in Clock THEN time[r] ELSE reg[r]]
          /\ timeRegs' = time
          /\ UNCHANGED <<ch, stored, wrapped>>
    BY <1>2 DEF SetDateTime1307
  <2>2. \A a \in Memory : a + REG_RAMSTART \in Registers \ Clock
    BY Sizes DEF Memory, Registers, Clock
  <2>3. Clock \subseteq Registers
    BY Sizes DEF Clock, Registers
  <2> QED
    BY <2>1, <2>2, <2>3 DEF MemoryInv, DS1307TypeOK
<1> QED
  BY <1>1, <1>2

\* A run is cut at the end of the memory, so that the chip's pointer does not go on
\* with the registers of the clock.
LEMMA StoreMemory ==
  ASSUME MemoryInv, SetMemory
  PROVE  MemoryInv'
<1>1. PICK m \in 0..(Bytes - 1), values \in SeqOf(Values, MaxCount) :
        LET address == Address(m)
            n == IF address <= REG_RAMEND THEN Written(address, values) ELSE 0
        IN  /\ reg' = [r \in Registers |->
                         LET i == (r - address) % (REG_RAMEND + 1)
                         IN  IF i < n THEN values[i + 1] ELSE reg[r]]
            /\ stored' = [a \in Memory |->
                            IF a \in m..(m + Len(values) - 1)
                            THEN values[a - m + 1] ELSE stored[a]]
            /\ wrapped' = (wrapped \/ Wraps(m))
            /\ UNCHANGED <<ch, timeRegs>>
  BY DEF SetMemory
<1> DEFINE address == Address(m)
           size == REG_RAMEND + 1
           n == IF address <= REG_RAMEND THEN Written(address, values) ELSE 0
           i(r) == (r - address) % size
<1>2. size \in Nat \ {0} /\ Len(values) \in Nat
      /\ \A k \in 1..Len(values) : values[k] \in Values
  BY Sizes, Runs
<1>3. address \in Nat
  <2>1. m + REG_RAMSTART \in Nat /\ Bytes \in Nat \ {0}
    BY Sizes
  <2> QED
    BY <2>1 DEF Address
<1>4. n \in 0..Len(values) /\ (address <= REG_RAMEND => n <= size - address)
      /\ (address <= REG_RAMEND /\ n < Len(values) => n = size - address)
  <2>1. CASE address <= REG_RAMEND
    <3>1. n = IF Len(values) <= size - address THEN Len(values) ELSE size - address
      <4>1. n = Min({Len(values), REG_RAMEND + 1 - address})
        BY <2>1 DEF Written
      <4>2. REG_RAMEND + 1 - address \in Int /\ Len(values) \in Int
        BY <1>2, <1>3, Sizes
      <4> HIDE DEF n
      <4>3. PICK x \in Int, y \in Int : x = Len(values) /\ y = REG_RAMEND + 1 - address
        BY <4>2
      <4>4. n = IF x <= y THEN x ELSE y
        BY <4>1, <4>3, MinOfTwo
      <4>5. y = size - address
        BY <1>3, <4>3, Sizes
      <4> HIDE DEF size, address
      <4> QED
        BY <4>3, <4>4, <4>5
    <3> QED
      BY <1>2, <1>3, <2>1, <3>1, Sizes
  <2>2. CASE ~(address <= REG_RAMEND)
    BY <1>2, <2>2
  <2> QED
    BY <2>1, <2>2
<1>5. \A r \in Registers : i(r) \in Nat
  BY <1>2, <1>3, Sizes DEF Registers
<1>6. DS1307TypeOK'
  <2>1. reg' = [r \in Registers |-> IF i(r) < n THEN values[i(r) + 1] ELSE reg[r]]
    BY <1>1
  <2>2. \A r \in Registers : i(r) < n => values[i(r) + 1] \in Values
    BY <1>2, <1>4, <1>5
  <2>3. reg' \in [Registers -> Values]
    BY <2>1, <2>2 DEF MemoryInv, DS1307TypeOK
  <2>4. \A a \in Memory : a \in m..(m + Len(values) - 1) => values[a - m + 1] \in Values
    BY <1>2, Sizes DEF Memory
  <2>5. stored' \in [Memory -> Values]
    BY <1>1, <2>4 DEF MemoryInv, DS1307TypeOK
  <2> QED
    BY <1>1, <2>3, <2>5 DEF MemoryInv, DS1307TypeOK
<1>7. ASSUME ~wrapped' 
      PROVE  /\ \A r \in Clock : reg'[r] = timeRegs'[r]
             /\ \A a \in Memory : reg'[a + REG_RAMSTART] = stored'[a]
  <2>1. ~wrapped /\ address = m + REG_RAMSTART
    BY <1>1, <1>7, NoWrap
  <2>2. ASSUME NEW r \in Registers
        PROVE  reg'[r] = IF r \in address..(address + Len(values) - 1)
                         THEN values[r - address + 1] ELSE reg[r]
    <3>1. reg'[r] = IF i(r) < n THEN values[i(r) + 1] ELSE reg[r]
      BY <1>1
    <3>2. CASE address > REG_RAMEND
      BY <1>3, <1>5, <3>1, <3>2, Sizes, SMTT(30) DEF Registers
    <3>3. CASE address <= REG_RAMEND /\ r >= address
      <4>1. i(r) = r - address
        <5>1. r - address \in 0..(size - 1)
          BY <1>3, <3>3, Sizes DEF Registers
        <5> QED
          BY <1>2, <5>1, Modulo
      <4> QED
        BY <1>2, <1>3, <1>4, <3>1, <3>3, <4>1, Sizes, SMTT(30) DEF Registers
    <3>4. CASE address <= REG_RAMEND /\ r < address
      <4>1. i(r) = r - address + size
        <5>1. r - address \in (-size)..(-1)
          BY <1>3, <3>4, Sizes DEF Registers
        <5> QED
          BY <1>2, <5>1, Modulo
      <4> QED
        BY <1>2, <1>3, <1>4, <3>1, <3>4, <4>1, Sizes, SMTT(30) DEF Registers
    <3> QED
      BY <1>3, <3>2, <3>3, <3>4, Sizes DEF Registers
  <2>3. ASSUME NEW r \in Clock PROVE reg'[r] = timeRegs'[r]
    <3>1. r \in Registers /\ r < address
      BY <2>1, Sizes DEF Clock, Registers
    <3> QED
      BY <1>1, <1>3, <2>1, <2>2, <3>1 DEF MemoryInv
  <2>4. ASSUME NEW a \in Memory PROVE reg'[a + REG_RAMSTART] = stored'[a]
    <3>1. a + REG_RAMSTART \in Registers
      BY Sizes DEF Memory, Registers
    <3>2. /\ a + REG_RAMSTART \in address..(address + Len(values) - 1)
               <=> a \in m..(m + Len(values) - 1)
          /\ a + REG_RAMSTART - address + 1 = a - m + 1
      BY <1>2, <2>1, Sizes DEF Memory
    <3>3. stored'[a] = IF a \in m..(m + Len(values) - 1) THEN values[a - m + 1] ELSE stored[a]
      BY <1>1
    <3>4. reg[a + REG_RAMSTART] = stored[a]
      BY <2>1 DEF MemoryInv
    <3>5. PICK r \in Registers : r = a + REG_RAMSTART
      BY <3>1
    <3>6. reg'[r] = IF r \in address..(address + Len(values) - 1)
                    THEN values[r - address + 1] ELSE reg[r]
      BY <2>2
    <3> HIDE DEF address
    <3>7. CASE a \in m..(m + Len(values) - 1)
      <4>1. r - address + 1 = a - m + 1
        BY <1>3, <3>2, <3>5, Sizes DEF Memory
      <4> QED
        BY <3>2, <3>3, <3>5, <3>6, <3>7, <4>1
    <3>8. CASE a \notin m..(m + Len(values) - 1)
      BY <3>2, <3>3, <3>4, <3>5, <3>6, <3>8
    <3> QED
      BY <3>7, <3>8
  <2> QED
    BY <2>3, <2>4
<1> QED
  BY <1>6, <1>7 DEF MemoryInv

\* What GetMemory() returns of the memory is what is stored.
LEMMA ReadsStored == MemoryInv => MemoryAndClockApart
<1> SUFFICES ASSUME MemoryInv, ~wrapped,
                    NEW a \in Memory, NEW n \in 0..MaxCount,
                    NEW i \in 1..Len(GetMemory(a, n)), a + i - 1 \in Memory
             PROVE  GetMemory(a, n)[i] = stored[a + i - 1]
  BY DEF MemoryInv, MemoryAndClockApart
<1>1. a \in 0..(Bytes - 1) /\ ~Wraps(a) /\ a + REG_RAMSTART <= REG_RAMEND
  BY Sizes DEF Memory, Wraps
<1>2. Address(a) = a + REG_RAMSTART
  BY <1>1, NoWrap
<1> DEFINE k == Min({n, REG_RAMEND - REG_RAMSTART})
<1>3. k \in Nat
  BY Sizes, MinOfTwo
<1>4. GetMemory(a, n) = [j \in 1..k |-> Register(a + REG_RAMSTART + j - 1)]
  BY <1>1, <1>2 DEF GetMemory
<1>5. i \in 1..k
  <2>1. Len(GetMemory(a, n)) = k
    BY <1>3, <1>4
  <2> QED
    BY <2>1
<1>6. GetMemory(a, n)[i] = Register(a + i - 1 + REG_RAMSTART)
  BY <1>3, <1>4, <1>5, Sizes DEF Memory
<1>7. (a + i - 1 + REG_RAMSTART) % (REG_RAMEND + 1) = a + i - 1 + REG_RAMSTART
  <2>1. a + i - 1 + REG_RAMSTART \in 0..(REG_RAMEND + 1 - 1) /\ REG_RAMEND + 1 \in Nat \ {0}
    BY Sizes DEF Memory
  <2> DEFINE x == a + i - 1 + REG_RAMSTART
             size == REG_RAMEND + 1
  <2>2. x \in 0..(size - 1) /\ size \in Nat \ {0}
    BY <2>1, Sizes
  <2>3. x % size = x
    <3> HIDE DEF x, size
    <3> QED
      BY <2>2, Modulo
  <2> QED
    BY <2>3
<1> QED
  BY <1>6, <1>7 DEF Register, MemoryInv

\* What is stored never reaches the clock and is read again where it was stored, as
\* long as no address wraps.
THEOREM MemoryIsApart == Spec => []MemoryAndClockApart
<1>1. Init => MemoryInv
  BY InitMemory DEF Init
<1>2. MemoryInv /\ [Next]_vars => MemoryInv'
  <2> SUFFICES ASSUME MemoryInv, [Next]_vars PROVE MemoryInv'
    OBVIOUS
  <2>1. CASE DS1307Next
    BY <2>1, TimeMemory, StoreMemory DEF DS1307Next
  <2>2. CASE UNCHANGED ds1307
    BY <2>2 DEF ds1307, MemoryInv, DS1307TypeOK
  <2> QED
    BY <2>1, <2>2 DEF Next, vars
<1> QED
  BY <1>1, <1>2, ReadsStored, PTL DEF Spec

----------------------------------------------------------------------------
(* Dates in the registers of either chip, for every date of the century.     *)

LEMMA Tens ==
  ASSUME NEW v \in 0..99
  PROVE  \E t \in 0..9, u \in 0..9 : v = 10 * t + u
<1>1. \/ v \in 0..9 \/ v \in 10..19 \/ v \in 20..29 \/ v \in 30..39 \/ v \in 40..49
      \/ v \in 50..59 \/ v \in 60..69 \/ v \in 70..79 \/ v \in 80..89 \/ v \in 90..99
  OBVIOUS
<1>2. ASSUME NEW t \in 0..9, v \in (10 * t)..(10 * t + 9)
      PROVE  \E s \in 0..9, u \in 0..9 : v = 10 * s + u
  <2>1. v - 10 * t \in 0..9 /\ v = 10 * t + (v - 10 * t)
    BY <1>2
  <2> QED
    BY <2>1
<1> QED
  BY <1>1, <1>2

LEMMA Quotients ==
  ASSUME NEW t \in 0..9, NEW u \in 0..9
  PROVE  (10 * t + u) \div 10 = t /\ (16 * t + u) \div 16 = t
BY SMTT(20)

\* A byte in binary coded decimal is the number it was made of.
LEMMA Coded ==
  ASSUME NEW t \in 0..9, NEW u \in 0..9
  PROVE  /\ Uint8ToBcd(10 * t + u) = 16 * t + u
         /\ BcdToUint8(16 * t + u) = 10 * t + u
<1>1. Uint8ToBcd(10 * t + u) = (16 * t + u) % 256
  BY Quotients DEF Uint8ToBcd, Byte
<1>2. BcdToUint8(16 * t + u) = (10 * t + u) % 256
  BY Quotients DEF BcdToUint8, Byte
<1> QED
  BY <1>1, <1>2, SMTT(20)

LEMMA ReadAgain ==
  ASSUME NEW v \in 0..99
  PROVE  BcdToUint8(Uint8ToBcd(v)) = v
BY Tens, Coded

LEMMA SecondsAgain ==
  ASSUME NEW v \in 0..59
  PROVE  BcdToUint8(Uint8ToBcd(v) % 128) = v
<1>1. PICK t \in 0..9, u \in 0..9 : v = 10 * t + u
  BY Tens
<1>2. 16 * t + u \in 0..127
  BY <1>1
<1>3. (16 * t + u) % 128 = 16 * t + u
  BY <1>2
<1> QED
  BY <1>1, <1>3, Coded

\* The bit that is looked at for the 12 hour mode is that of the hours from 20 on.
LEMMA HoursAgain ==
  ASSUME NEW h \in 0..23
  PROVE  BcdToBin24Hour(Uint8ToBcd(h)) = IF h >= 20 THEN h - 20 ELSE h
<1>1. CASE h < 20
  <2>1. PICK t \in 0..9, u \in 0..9 : h = 10 * t + u
    BY Tens
  <2>2. t \in 0..1
    BY <1>1, <2>1
  <2>3. (16 * t + u) \div 32 = 0
    BY <2>2, SMTT(20)
  <2>4. Bit(16 * t + u, 32) = 0
    BY <2>3 DEF Bit, Bits
  <2> QED
    BY <1>1, <2>1, <2>4, Coded DEF BcdToBin24Hour
<1>2. CASE h >= 20
  <2>1. PICK u \in 0..3 : h = 20 + u
    <3>1. h - 20 \in 0..3 /\ h = 20 + (h - 20)
      BY <1>2
    <3> QED
      BY <3>1
  <2>2. Uint8ToBcd(h) = 32 + u
    BY <2>1, Coded
  <2>3. (32 + u) \div 32 = 1 /\ (32 + u) \div 16 = 2 /\ (32 + u) % 32 = u
    BY SMTT(20)
  <2>4. Bit(32 + u, 32) = 1 /\ Bit(32 + u, 16) = 0
    BY <2>3 DEF Bit, Bits
  <2>5. BcdToUint8(u) = u
    BY Coded
  <2> QED
    BY <1>2, <2>1, <2>2, <2>3, <2>4, <2>5 DEF BcdToBin24Hour
<1> QED
  BY <1>1, <1>2

\* Every date of the century that SetDateTime() writes is read again, but for the
\* hours from 20 on, which come out as 0 to 3.
THEOREM WhatIsReadAgain ==
  ASSUME NEW date \in [year : 0..99, month : 1..12, day : 1..31,
                       hour : 0..23, minute : 0..59, second : 0..59],
         regs = SetDateTime(date), ~century
  PROVE  GetDateTime = [date EXCEPT !.hour = IF @ >= 20 THEN @ - 20 ELSE @]
<1>1. /\ regs[1] = Uint8ToBcd(date.second) /\ regs[2] = Uint8ToBcd(date.minute)
      /\ regs[3] = Uint8ToBcd(date.hour) /\ regs[5] = Uint8ToBcd(date.day)
      /\ regs[6] = Uint8ToBcd(date.month) /\ regs[7] = Uint8ToBcd(date.year)
  BY DEF SetDateTime
<1>2. /\ BcdToUint8(regs[1] % 128) = date.second /\ BcdToUint8(regs[2]) = date.minute
      /\ BcdToBin24Hour(regs[3]) = IF date.hour >= 20 THEN date.hour - 20 ELSE date.hour
      /\ BcdToUint8(regs[5]) = date.day /\ BcdToUint8(regs[6]) = date.month
      /\ BcdToUint8(regs[7]) + (IF century THEN 100 ELSE 0) = date.year
  BY <1>1, ReadAgain, SecondsAgain, HoursAgain
<1> QED
  BY <1>2 DEF GetDateTime

----------------------------------------------------------------------------
(* What the loops over years and months compute, for every number of days.   *)
(* A recursive function is chosen among those that satisfy its equation: one *)
(* is shown to exist, and what it returns follows by induction, as a set of  *)
(* natural numbers without a least element is empty.                          *)

NatLess == OpToRel(<, Nat)

LEMMA NatLessIs ==
  /\ IsWellFoundedOn(NatLess, Nat)
  /\ \A x, y \in Nat : <<x, y>> \in NatLess <=> x < y
<1>1. IsWellFoundedOn(NatLess, Nat)
  BY NatLessThanWellFounded DEF NatLess
<1>2. \A x, y \in Nat : <<x, y>> \in NatLess <=> x < y
  BY DEF NatLess, OpToRel
<1> QED
  BY <1>1, <1>2

LEMMA Least ==
  ASSUME NEW T \in SUBSET Nat, T # {}
  PROVE  \E n \in T : \A m \in T : n <= m
<1>1. PICK n \in T : \A m \in T : ~(<<m, n>> \in NatLess)
  <2>1. IsWellFoundedOn(NatLess, Nat) /\ T \subseteq Nat
    BY NatLessIs
  <2> QED
    BY <2>1, WFMin
<1>2. n \in Nat /\ \A m \in T : m \in Nat
  OBVIOUS
<1>3. \A m \in T : ~(m < n)
  BY <1>1, <1>2, NatLessIs
<1> QED
  BY <1>2, <1>3

\* The days before a year, and the year of a day.
Start(y) == 365 * y + (y + 3) \div 4
YearOf(d) == 4 * (d \div 1461) + IF d % 1461 < 366 THEN 0 ELSE 1 + ((d % 1461) - 366) \div 365

LEMMA Starts ==
  ASSUME NEW y \in Nat
  PROVE  /\ Start(y) \in Nat /\ LeapDays(y) \in {0, 1}
         /\ YearLength(y) \in Nat /\ Start(y + 1) = Start(y) + YearLength(y)
<1>1. LeapDays(y) \in {0, 1}
  BY DEF LeapDays
<1>2. Start(y + 1) = Start(y) + YearLength(y)
  BY DEF Start, YearLength, LeapDays
<1> QED
  BY <1>1, <1>2 DEF Start, YearLength

LEMMA StartsGrow ==
  ASSUME NEW y \in Nat, NEW z \in Nat, y < z
  PROVE  Start(y + 1) <= Start(z)
BY DEF Start

LEMMA YearOfIs ==
  ASSUME NEW d \in Nat
  PROVE  YearOf(d) \in Nat /\ Start(YearOf(d)) <= d /\ d < Start(YearOf(d) + 1)
<1> DEFINE q == d \div 1461
           r == d % 1461
<1>1. q \in Nat /\ r \in 0..1460 /\ d = 1461 * q + r
  OBVIOUS
<1>2. CASE r < 366
  BY <1>1, <1>2 DEF YearOf, Start
<1>3. CASE r >= 366
  <2> DEFINE k == (r - 366) \div 365
  <2>1. k \in 0..2 /\ 365 * k <= r - 366 /\ r - 366 < 365 * (k + 1)
    BY <1>1, <1>3
  <2>2. YearOf(d) = 4 * q + 1 + k
    BY <1>1, <1>3, <2>1 DEF YearOf
  <2> HIDE DEF k, q, r
  <2>3. 4 * q + 1 + k \in Nat /\ Start(4 * q + 1 + k) = 1461 * q + 366 + 365 * k
    BY <1>1, <2>1 DEF Start
  <2>4. Start((4 * q + 1 + k) + 1) >= 1461 * q + 366 + 365 * (k + 1)
    BY <1>1, <2>1 DEF Start
  <2>5. PICK s \in Int : s = Start((4 * q + 1 + k) + 1)
    BY <2>3, Starts
  <2> QED
    BY <1>1, <2>1, <2>2, <2>3, <2>4, <2>5
<1> QED
  BY <1>1, <1>2, <1>3

LEMMA OneYear ==
  ASSUME NEW d \in Nat, NEW y \in Nat, Start(y) <= d, d < Start(y + 1)
  PROVE  YearOf(d) = y
<1>1. YearOf(d) \in Nat /\ Start(YearOf(d)) <= d /\ d < Start(YearOf(d) + 1)
  BY YearOfIs
<1>2. ~(YearOf(d) < y)
  BY <1>1, StartsGrow, Starts
<1>3. ~(y < YearOf(d))
  BY <1>1, StartsGrow, Starts
<1> QED
  BY <1>1, <1>2, <1>3

YearStep(at) == [year |-> at.year + 1, days |-> at.days - YearLength(at.year)]
YearBody(f, at) == IF at.days < YearLength(at.year) THEN at ELSE f[YearStep(at)]
IsYearLoop(f) == f = [at \in YearStates |-> YearBody(f, at)]

Day(at) == at.days + Start(at.year)
YearEnd(d) == [year |-> YearOf(d), days |-> d - Start(YearOf(d))]

LEMMA YearSteps ==
  ASSUME NEW at \in YearStates
  PROVE  /\ YearLength(at.year) \in Nat /\ Day(at) \in Nat
         /\ at.days < YearLength(at.year) => YearEnd(Day(at)) = at
         /\ ~(at.days < YearLength(at.year)) =>
               /\ YearStep(at) \in YearStates /\ YearStep(at).days < at.days
               /\ Day(YearStep(at)) = Day(at)
<1>1. at.days \in Nat /\ at.year \in Nat /\ at = [year |-> at.year, days |-> at.days]
  BY DEF YearStates
<1>2. PICK s \in Nat : s = Start(at.year)
  BY <1>1, Starts
<1>3. PICK l \in Nat : l = YearLength(at.year) /\ l > 0 /\ Start(at.year + 1) = s + l
  BY <1>1, <1>2, Starts DEF YearLength
<1>4. CASE at.days < l
  <2>1. YearOf(at.days + s) = at.year
    BY <1>1, <1>2, <1>3, <1>4, OneYear
  <2> QED
    BY <1>1, <1>2, <1>3, <1>4, <2>1 DEF YearEnd, Day
<1>5. CASE ~(at.days < l)
  <2>1. at.days - l \in Nat /\ at.year + 1 \in Nat /\ at.days - l < at.days
    BY <1>1, <1>3, <1>5
  <2>2. YearStep(at) = [year |-> at.year + 1, days |-> at.days - l]
    BY <1>3 DEF YearStep
  <2>3. YearStep(at) \in YearStates /\ YearStep(at).days < at.days
    BY <2>1, <2>2 DEF YearStates
  <2>4. Day(YearStep(at)) = (at.days - l) + Start(at.year + 1)
    BY <2>2 DEF Day
  <2>5. (at.days - l) + Start(at.year + 1) = at.days + s
    BY <1>1, <1>2, <1>3
  <2> QED
    BY <1>1, <1>2, <1>3, <1>5, <2>3, <2>4, <2>5 DEF Day
<1> QED
  BY <1>4, <1>5

LEMMA YearLoopIs == IsYearLoop(YearLoop)
<1> DEFINE f == [at \in YearStates |-> YearEnd(Day(at))]
<1>1. ASSUME NEW at \in YearStates
      PROVE  f[at] = YearBody(f, at)
  <2>1. f[at] = YearEnd(Day(at))
    OBVIOUS
  <2>2. YearStep(at) \in YearStates => f[YearStep(at)] = YearEnd(Day(YearStep(at)))
    OBVIOUS
  <2> HIDE DEF f
  <2> QED
    BY <2>1, <2>2, YearSteps DEF YearBody
<1>2. f = [at \in YearStates |-> f[at]]
  OBVIOUS
<1> HIDE DEF f
<1>3. f = [at \in YearStates |-> YearBody(f, at)]
  BY <1>1, <1>2
<1>4. \E g : IsYearLoop(g)
  BY <1>3 DEF IsYearLoop
<1>5. YearLoop = CHOOSE g : IsYearLoop(g)
  BY DEF YearLoop, IsYearLoop, YearBody, YearStep, YearStates
<1> QED
  BY <1>4, <1>5

\* The loop ends in the year of the day it began with.
LEMMA YearLoopEnds ==
  ASSUME NEW at \in YearStates
  PROVE  YearLoop[at] = YearEnd(Day(at))
<1> DEFINE Wrong == {b \in YearStates : YearLoop[b] # YearEnd(Day(b))}
           T == {b.days : b \in Wrong}
<1>1. SUFFICES ASSUME Wrong # {} PROVE FALSE
  OBVIOUS
<1>2. T \in SUBSET Nat /\ T # {}
  BY <1>1 DEF YearStates
<1>3. PICK n \in T : \A m \in T : n <= m
  <2> HIDE DEF T
  <2> QED
    BY <1>2, Least
<1>4. PICK b \in YearStates : b.days = n /\ YearLoop[b] # YearEnd(Day(b))
  BY <1>3
<1>5. YearLoop[b] = YearBody(YearLoop, b)
  BY YearLoopIs DEF IsYearLoop
<1>6. ~(b.days < YearLength(b.year))
  BY <1>4, <1>5, YearSteps DEF YearBody
<1>7. YearStep(b) \in YearStates /\ YearStep(b).days < n /\ Day(YearStep(b)) = Day(b)
  BY <1>4, <1>6, YearSteps
<1>8. YearLoop[YearStep(b)] # YearEnd(Day(YearStep(b)))
  BY <1>4, <1>5, <1>6, <1>7 DEF YearBody
<1>9. YearStep(b).days \in T
  BY <1>7, <1>8
<1>10. n \in Nat /\ YearStep(b).days \in Nat
  BY <1>2, <1>9
<1> QED
  BY <1>3, <1>7, <1>9, <1>10

\* The days of a year before a month.
First(m, leapDays) ==
  <<0, 31, 59, 90, 120, 151, 181, 212, 243, 273, 304, 334>>[m] + IF m > 2 THEN leapDays ELSE 0

LEMMA Firsts ==
  ASSUME NEW m \in 1..12, NEW l \in {0, 1}
  PROVE  /\ First(m, l) \in 0..335 /\ DaysPerMonth(m, l) \in 28..31
         /\ m < 12 => First(m + 1, l) = First(m, l) + DaysPerMonth(m, l)
         /\ First(1, l) = 0 /\ First(12, l) = 334 + l /\ DaysPerMonth(12, l) = 31
<1>1. \/ m = 1 \/ m = 2 \/ m = 3 \/ m = 4 \/ m = 5 \/ m = 6
      \/ m = 7 \/ m = 8 \/ m = 9 \/ m = 10 \/ m = 11 \/ m = 12
  OBVIOUS
<1>2. l = 0 \/ l = 1
  OBVIOUS
<1> QED
  BY <1>1, <1>2, SMTT(30) DEF First, DaysPerMonth, c_daysInMonth

LEMMA FirstsAreNumbers ==
  ASSUME NEW l \in {0, 1}
  PROVE  \A m \in 1..12 : First(m, l) \in Int
<1> TAKE m \in 1..12
<1>1. First(m, l) \in 0..335
  BY Firsts
<1> QED
  BY <1>1

LEMMA FirstsGrow ==
  ASSUME NEW m \in 1..12, NEW k \in 1..12, NEW l \in {0, 1}, m < k
  PROVE  First(m + 1, l) <= First(k, l)
<1>1. \/ m = 1 \/ m = 2 \/ m = 3 \/ m = 4 \/ m = 5 \/ m = 6
      \/ m = 7 \/ m = 8 \/ m = 9 \/ m = 10 \/ m = 11
  OBVIOUS
<1>2. \/ k = 2 \/ k = 3 \/ k = 4 \/ k = 5 \/ k = 6
      \/ k = 7 \/ k = 8 \/ k = 9 \/ k = 10 \/ k = 11 \/ k = 12
  OBVIOUS
<1> QED
  BY <1>1, <1>2, SMTT(30) DEF First

\* A day of a year is one of a month; December has no end.
IsOf(m, d, l) == m \in 1..12 /\ First(m, l) <= d /\ (m = 12 \/ d < First(m + 1, l))
MonthIn(d, l) == CHOOSE m : IsOf(m, d, l)

LEMMA SomeMonth ==
  ASSUME NEW d \in Nat, NEW l \in {0, 1}
  PROVE  IsOf(MonthIn(d, l), d, l)
<1> DEFINE T == {m \in Nat : m \in 0..11 /\ First(12 - m, l) <= d}
<1>1. 11 \in T
  BY Firsts
<1>2. PICK n \in T : \A m \in T : n <= m
  <2>1. T \in SUBSET Nat /\ T # {}
    BY <1>1
  <2> HIDE DEF T
  <2> QED
    BY <2>1, Least
<1>3. n \in 0..11 /\ 12 - n \in 1..12 /\ First(12 - n, l) <= d
  OBVIOUS
<1>4. CASE n = 0
  BY <1>3, <1>4 DEF IsOf, MonthIn
<1>5. CASE n > 0
  <2>0. n - 1 \in 0..11 /\ n - 1 \in Nat
    BY <1>3, <1>5
  <2>1. n - 1 \notin T /\ 12 - (n - 1) = (12 - n) + 1 /\ 12 - (n - 1) \in 1..12
    <3>1. 12 - (n - 1) = (12 - n) + 1 /\ 12 - (n - 1) \in 1..12 /\ ~(n <= n - 1)
      BY <1>3, <2>0
    <3> HIDE DEF T
    <3> QED
      BY <1>2, <3>1
  <2>2. ~(First((12 - n) + 1, l) <= d)
    BY <2>0, <2>1
  <2>3. First((12 - n) + 1, l) \in Int
    BY <2>1, FirstsAreNumbers
  <2>4. IsOf(12 - n, d, l)
    BY <1>3, <2>2, <2>3 DEF IsOf
  <2> QED
    BY <2>4 DEF MonthIn
<1> QED
  BY <1>3, <1>4, <1>5

LEMMA OneMonth ==
  ASSUME NEW d \in Nat, NEW l \in {0, 1}, NEW m \in 1..12, IsOf(m, d, l)
  PROVE  MonthIn(d, l) = m
<1>1. IsOf(MonthIn(d, l), d, l)
  BY SomeMonth
<1>2. PICK k \in 1..12 : k = MonthIn(d, l) /\ IsOf(k, d, l)
  BY <1>1 DEF IsOf
<1>3. ~(k < m)
  <2>1. SUFFICES ASSUME k < m PROVE FALSE
    OBVIOUS
  <2>2. k + 1 \in 1..12 /\ d < First(k + 1, l) /\ First(k + 1, l) <= First(m, l) /\ First(m, l) <= d
    BY <1>2, <2>1, FirstsGrow DEF IsOf
  <2>3. \A x \in 1..12 : First(x, l) \in Int
    BY FirstsAreNumbers
  <2>4. First(k + 1, l) \in Int /\ First(m, l) \in Int
    BY <2>2, <2>3
  <2> QED
    BY <2>2, <2>4
<1>4. ~(m < k)
  <2>1. SUFFICES ASSUME m < k PROVE FALSE
    OBVIOUS
  <2>2. m + 1 \in 1..12 /\ d < First(m + 1, l) /\ First(m + 1, l) <= First(k, l) /\ First(k, l) <= d
    BY <1>2, <2>1, FirstsGrow DEF IsOf
  <2>3. \A x \in 1..12 : First(x, l) \in Int
    BY FirstsAreNumbers
  <2>4. First(m + 1, l) \in Int /\ First(k, l) \in Int
    BY <2>2, <2>3
  <2> QED
    BY <2>2, <2>4
<1> QED
  BY <1>2, <1>3, <1>4

MonthDone(at) == at.month = 12 \/ at.days < DaysPerMonth(at.month, at.leapDays)
MonthStep(at) ==
  [month |-> at.month + 1, days |-> at.days - DaysPerMonth(at.month, at.leapDays),
   leapDays |-> at.leapDays]
MonthBody(f, at) == IF MonthDone(at) THEN at ELSE f[MonthStep(at)]
IsMonthLoop(f) == f = [at \in MonthStates |-> MonthBody(f, at)]

DayInYear(at) == at.days + First(at.month, at.leapDays)
MonthEnd(d, l) == [month |-> MonthIn(d, l), days |-> d - First(MonthIn(d, l), l), leapDays |-> l]

LEMMA MonthSteps ==
  ASSUME NEW at \in MonthStates
  PROVE  /\ DayInYear(at) \in Nat
         /\ MonthDone(at) => MonthEnd(DayInYear(at), at.leapDays) = at
         /\ ~MonthDone(at) =>
               /\ MonthStep(at) \in MonthStates /\ MonthStep(at).days < at.days
               /\ DayInYear(MonthStep(at)) = DayInYear(at) /\ MonthStep(at).leapDays = at.leapDays
<1>1. /\ at.days \in Nat /\ at.month \in 1..12 /\ at.leapDays \in {0, 1}
      /\ at = [month |-> at.month, days |-> at.days, leapDays |-> at.leapDays]
  BY DEF MonthStates
<1>2. PICK s \in Nat : s = First(at.month, at.leapDays)
  BY <1>1, Firsts, SMTT(30)
<1>3. PICK n \in Nat : n = DaysPerMonth(at.month, at.leapDays) /\ n > 0
  BY <1>1, Firsts, SMTT(30)
<1>4. at.month < 12 => First(at.month + 1, at.leapDays) = s + n
  BY <1>1, <1>2, <1>3, Firsts
<1>5. CASE MonthDone(at)
  <2>1. IsOf(at.month, at.days + s, at.leapDays)
    BY <1>1, <1>2, <1>3, <1>4, <1>5 DEF MonthDone, IsOf
  <2>2. at.days + s \in Nat /\ (at.days + s) - s = at.days
    BY <1>1, <1>2
  <2>3. MonthIn(at.days + s, at.leapDays) = at.month
    BY <1>1, <2>1, <2>2, OneMonth
  <2> QED
    BY <1>1, <1>2, <1>5, <2>2, <2>3 DEF MonthEnd, DayInYear
<1>6. CASE ~MonthDone(at)
  <2>1. at.days - n \in Nat /\ at.month + 1 \in 1..12 /\ at.days - n < at.days /\ at.month < 12
    BY <1>1, <1>3, <1>6 DEF MonthDone
  <2>2. MonthStep(at) = [month |-> at.month + 1, days |-> at.days - n, leapDays |-> at.leapDays]
    BY <1>1, <1>3 DEF MonthStep, MonthStates
  <2>3. MonthStep(at) \in MonthStates /\ MonthStep(at).days < at.days /\ MonthStep(at).leapDays = at.leapDays
    BY <1>1, <2>1, <2>2 DEF MonthStates
  <2>4. DayInYear(MonthStep(at)) = (at.days - n) + First(at.month + 1, at.leapDays)
    BY <2>2 DEF DayInYear
  <2>5. (at.days - n) + First(at.month + 1, at.leapDays) = at.days + s
    BY <1>1, <1>2, <1>3, <1>4, <2>1
  <2> QED
    BY <1>1, <1>2, <1>6, <2>3, <2>4, <2>5 DEF DayInYear
<1> QED
  BY <1>5, <1>6

LEMMA MonthLoopIs == IsMonthLoop(MonthLoop)
<1> DEFINE f == [at \in MonthStates |-> MonthEnd(DayInYear(at), at.leapDays)]
<1>1. ASSUME NEW at \in MonthStates
      PROVE  f[at] = MonthBody(f, at)
  <2>1. f[at] = MonthEnd(DayInYear(at), at.leapDays)
    OBVIOUS
  <2>2. MonthStep(at) \in MonthStates =>
          f[MonthStep(at)] = MonthEnd(DayInYear(MonthStep(at)), MonthStep(at).leapDays)
    OBVIOUS
  <2> HIDE DEF f
  <2> QED
    BY <2>1, <2>2, MonthSteps DEF MonthBody
<1>2. f = [at \in MonthStates |-> f[at]]
  OBVIOUS
<1> HIDE DEF f
<1>3. f = [at \in MonthStates |-> MonthBody(f, at)]
  BY <1>1, <1>2
<1>4. \E g : IsMonthLoop(g)
  BY <1>3 DEF IsMonthLoop
<1>5. MonthLoop = CHOOSE g : IsMonthLoop(g)
  BY DEF MonthLoop, IsMonthLoop, MonthBody, MonthDone, MonthStep, MonthStates
<1> QED
  BY <1>4, <1>5

\* The loop ends in the month of the day it began with.
LEMMA MonthLoopEnds ==
  ASSUME NEW at \in MonthStates
  PROVE  MonthLoop[at] = MonthEnd(DayInYear(at), at.leapDays)
<1> DEFINE Wrong == {b \in MonthStates : MonthLoop[b] # MonthEnd(DayInYear(b), b.leapDays)}
           T == {b.days : b \in Wrong}
<1>1. SUFFICES ASSUME Wrong # {} PROVE FALSE
  OBVIOUS
<1>2. T \in SUBSET Nat /\ T # {}
  BY <1>1 DEF MonthStates
<1>3. PICK n \in T : \A m \in T : n <= m
  <2> HIDE DEF T
  <2> QED
    BY <1>2, Least
<1>4. PICK b \in MonthStates : b.days = n /\ MonthLoop[b] # MonthEnd(DayInYear(b), b.leapDays)
  BY <1>3
<1>5. MonthLoop[b] = MonthBody(MonthLoop, b)
  BY MonthLoopIs DEF IsMonthLoop
<1>6. ~MonthDone(b)
  BY <1>4, <1>5, MonthSteps DEF MonthBody
<1>7. /\ MonthStep(b) \in MonthStates /\ MonthStep(b).days < n
      /\ DayInYear(MonthStep(b)) = DayInYear(b) /\ MonthStep(b).leapDays = b.leapDays
  BY <1>4, <1>6, MonthSteps
<1>8. MonthLoop[MonthStep(b)] # MonthEnd(DayInYear(MonthStep(b)), MonthStep(b).leapDays)
  BY <1>4, <1>5, <1>6, <1>7 DEF MonthBody
<1>9. MonthStep(b).days \in T
  BY <1>7, <1>8
<1>10. n \in Nat /\ MonthStep(b).days \in Nat
  BY <1>2, <1>9
<1> QED
  BY <1>3, <1>7, <1>9, <1>10

----------------------------------------------------------------------------
(* DatesAreRight: the chip goes from one date to the next as the library's     *)
(* loops do.                                                                   *)

\* Day d since 2000 is day n of month m of year y.
IsDate(d, y, m, n) ==
  /\ y \in Nat /\ m \in 1..12 /\ n \in 1..DaysPerMonth(m, LeapDays(y))
  /\ d = Start(y) + First(m, LeapDays(y)) + n - 1

\* The numbers it is made of: the days before the year and the leap day in it, the days
\* before the month and the days in it.
DateParts(d, y, m, n, s, l, f, k) ==
  /\ s \in Nat /\ l \in {0, 1} /\ f \in 0..335 /\ k \in 28..31
  /\ s = Start(y) /\ l = LeapDays(y) /\ f = First(m, l) /\ k = DaysPerMonth(m, l)
  /\ y \in Nat /\ m \in 1..12 /\ n \in 1..k /\ d = s + f + n - 1
  /\ Start(y + 1) = s + 365 + l /\ f + n <= 365 + l
  /\ m < 12 => First(m + 1, l) = f + k
  /\ m = 12 => f = 334 + l /\ k = 31

LEMMA PartsOfDate ==
  ASSUME NEW d \in Nat, NEW y, NEW m, NEW n, IsDate(d, y, m, n)
  PROVE  \E s, l, f, k : DateParts(d, y, m, n, s, l, f, k)
<1>1. y \in Nat /\ m \in 1..12 /\ n \in 1..DaysPerMonth(m, LeapDays(y))
  BY DEF IsDate
<1>2. PICK s \in Nat : s = Start(y) /\ Start(y + 1) = s + YearLength(y)
  BY <1>1, Starts
<1>3. PICK l \in {0, 1} : l = LeapDays(y)
  BY <1>1, Starts
<1>4. PICK f \in 0..335 : f = First(m, l)
  BY <1>1, Firsts
<1>5. PICK k \in 28..31 : k = DaysPerMonth(m, l)
  BY <1>1, Firsts
<1>6. m < 12 => First(m + 1, l) = f + k
  BY <1>1, <1>4, <1>5, Firsts
<1>7. m = 12 => f = 334 + l /\ k = 31
  BY <1>1, <1>4, <1>5, Firsts
<1>8. f + k <= 365 + l
  <2>1. CASE m = 12
    BY <1>7, <2>1
  <2>2. CASE m < 12
    <3>1. m + 1 \in 1..12
      BY <1>1, <2>2
    <3>2. First(m + 1, l) <= First(12, l)
      <4>1. CASE m + 1 = 12
        BY <4>1, <1>4, <1>5, <1>6, <2>2
      <4>2. CASE m + 1 < 12
        <5>1. m < 12 /\ 12 \in 1..12
          BY <2>2
        <5> QED
          BY <5>1, <1>1, FirstsGrow
      <4> QED
        BY <3>1, <4>1, <4>2
    <3>3. First(12, l) = 334 + l
      BY Firsts
    <3> QED
      BY <1>6, <2>2, <3>2, <3>3
  <2> QED
    BY <1>1, <2>1, <2>2
<1>9. Start(y + 1) = s + 365 + l
  BY <1>2, <1>3 DEF YearLength
<1>10. d = s + f + n - 1
  BY <1>2, <1>3, <1>4 DEF IsDate
<1>11. n \in 1..k /\ f + n <= 365 + l
  BY <1>1, <1>3, <1>5, <1>8
<1> QED
  BY <1>1, <1>2, <1>3, <1>4, <1>5, <1>6, <1>7, <1>9, <1>10, <1>11 DEF DateParts

LEMMA SomeDate ==
  ASSUME NEW d \in Nat
  PROVE  \E y, m, n : IsDate(d, y, m, n)
<1> DEFINE y == YearOf(d)
           l == LeapDays(y)
           m == MonthIn(d - Start(y), l)
<1>1. y \in Nat /\ Start(y) <= d /\ d < Start(y + 1)
  BY YearOfIs
<1>2. Start(y) \in Nat /\ l \in {0, 1} /\ Start(y + 1) = Start(y) + 365 + l
  <2> HIDE DEF y
  <2> QED
    BY <1>1, Starts DEF YearLength
<1>3. PICK e \in Nat : e = d - Start(y) /\ e < 365 + l
  BY <1>1, <1>2
<1>4. IsOf(m, e, l)
  BY <1>2, <1>3, SomeMonth
<1>5. m \in 1..12 /\ First(m, l) <= e /\ (m = 12 \/ e < First(m + 1, l))
  BY <1>4 DEF IsOf
<1> HIDE DEF m, l, y
<1>6. /\ First(m, l) \in Nat /\ DaysPerMonth(m, l) \in Nat
      /\ m < 12 => First(m + 1, l) = First(m, l) + DaysPerMonth(m, l)
      /\ m = 12 => First(m, l) = 334 + l /\ DaysPerMonth(m, l) = 31
  <2>1. m \in 1..12 /\ l \in {0, 1}
    BY <1>2, <1>5
  <2> QED
    BY <2>1, Firsts, SMTT(30)
<1>7. e - First(m, l) + 1 \in 1..DaysPerMonth(m, l)
  BY <1>2, <1>3, <1>5, <1>6
<1>8. d = Start(y) + First(m, l) + (e - First(m, l) + 1) - 1
  BY <1>2, <1>3, <1>6
<1> QED
  BY <1>1, <1>5, <1>7, <1>8 DEF IsDate, l

LEMMA LibraryDate ==
  ASSUME NEW d \in Nat, NEW s, NEW y, NEW m, NEW n, IsDate(d, y, m, n)
  PROVE  FromSeconds(d, s) =
           [year |-> Byte(y), month |-> m, day |-> n,
            hour |-> s \div 3600, minute |-> (s \div 60) % 60, second |-> s % 60]
<1>0. PICK b, l, f, k : DateParts(d, y, m, n, b, l, f, k)
  BY PartsOfDate
<1>1. /\ b \in Nat /\ l \in {0, 1} /\ f \in 0..335 /\ k \in 28..31
      /\ b = Start(y) /\ l = LeapDays(y) /\ f = First(m, l) /\ k = DaysPerMonth(m, l)
      /\ y \in Nat /\ m \in 1..12 /\ n \in 1..k /\ d = b + f + n - 1
      /\ Start(y + 1) = b + 365 + l /\ f + n <= 365 + l
      /\ m < 12 => First(m + 1, l) = f + k
  BY <1>0 DEF DateParts
<1>2. YearOf(d) = y /\ d - b \in Nat
  <2>1. b <= d /\ d < Start(y + 1) /\ d - b \in Nat
    BY <1>1
  <2> QED
    BY <1>1, <2>1, OneYear
<1> DEFINE at == [year |-> 0, days |-> d]
<1>3. YearLoop[at] = [year |-> y, days |-> d - b]
  <2>1. at \in YearStates
    BY DEF YearStates
  <2>2. Day(at) = d
    BY DEF Day, Start
  <2> HIDE DEF at
  <2> QED
    BY <1>1, <1>2, <2>1, <2>2, YearLoopEnds DEF YearEnd
<1> DEFINE bt == [month |-> 1, days |-> d - b, leapDays |-> l]
<1>4. MonthLoop[bt] = [month |-> m, days |-> n - 1, leapDays |-> l]
  <2>1. bt \in MonthStates
    BY <1>1, <1>2 DEF MonthStates
  <2>2. DayInYear(bt) = d - b /\ bt.leapDays = l
    BY <1>1, <1>2, Firsts DEF DayInYear
  <2>3. IsOf(m, d - b, l) /\ (d - b) - f = n - 1
    BY <1>1 DEF IsOf
  <2>4. MonthIn(d - b, l) = m
    BY <1>1, <1>2, <2>3, OneMonth
  <2> HIDE DEF bt
  <2> QED
    BY <1>1, <2>1, <2>2, <2>3, <2>4, MonthLoopEnds DEF MonthEnd
<1>5. (n - 1) + 1 = n
  BY <1>1
<1> QED
  BY <1>1, <1>3, <1>4, <1>5 DEF FromSeconds

LEMMA NextDate ==
  ASSUME NEW d \in Nat, NEW y, NEW m, NEW n, IsDate(d, y, m, n)
  PROVE  LET k == DaysPerMonth(m, LeapDays(y))
         IN  /\ n < k => IsDate(d + 1, y, m, n + 1)
             /\ ~(n < k) /\ m # 12 => IsDate(d + 1, y, m + 1, 1)
             /\ ~(n < k) /\ m = 12 => IsDate(d + 1, y + 1, 1, 1)
<1>0. PICK s, l, f, k : DateParts(d, y, m, n, s, l, f, k)
  BY PartsOfDate
<1>1. /\ s \in Nat /\ l \in {0, 1} /\ f \in 0..335 /\ k \in 28..31
      /\ s = Start(y) /\ l = LeapDays(y) /\ f = First(m, l) /\ k = DaysPerMonth(m, l)
      /\ y \in Nat /\ m \in 1..12 /\ n \in 1..k /\ d = s + f + n - 1
      /\ Start(y + 1) = s + 365 + l /\ f + n <= 365 + l
      /\ m < 12 => First(m + 1, l) = f + k
      /\ m = 12 => f = 334 + l /\ k = 31
  BY <1>0 DEF DateParts
<1>2. ASSUME n < k PROVE IsDate(d + 1, y, m, n + 1)
  <2>1. n + 1 \in 1..k /\ d + 1 = s + f + (n + 1) - 1
    BY <1>1, <1>2
  <2> QED
    BY <1>1, <2>1 DEF IsDate
<1>3. ASSUME ~(n < k), m # 12 PROVE IsDate(d + 1, y, m + 1, 1)
  <2>1. m + 1 \in 1..12 /\ d + 1 = s + (f + k) + 1 - 1
    BY <1>1, <1>3
  <2>2. 1 \in 1..DaysPerMonth(m + 1, l) /\ First(m + 1, l) = f + k
    BY <1>1, <1>3, <2>1, Firsts
  <2> QED
    BY <1>1, <2>1, <2>2 DEF IsDate
<1>4. ASSUME ~(n < k), m = 12 PROVE IsDate(d + 1, y + 1, 1, 1)
  <2>1. y + 1 \in Nat /\ d + 1 = Start(y + 1) + 0 + 1 - 1
    BY <1>1, <1>4
  <2>2. LeapDays(y + 1) \in {0, 1}
    BY <2>1, Starts
  <2>3. 1 \in 1..DaysPerMonth(1, LeapDays(y + 1)) /\ First(1, LeapDays(y + 1)) = 0 /\ 1 \in 1..12
    BY <2>2, Firsts
  <2> QED
    BY <2>1, <2>3 DEF IsDate
<1> QED
  BY <1>1, <1>2, <1>3, <1>4

LEMMA InRange ==
  ASSUME NEW d \in Nat, d < 49710, NEW y, NEW m, NEW n, IsDate(d, y, m, n)
  PROVE  /\ y \in 0..136 /\ m \in 1..12 /\ n \in 1..31 /\ Byte(y) = y
         /\ d < 36525 => y < 100
<1>1. y \in Nat /\ m \in 1..12 /\ n \in 1..31 /\ Start(y) <= d
  <2>1. PICK s, l, f, k : DateParts(d, y, m, n, s, l, f, k)
    BY PartsOfDate
  <2>2. /\ s = Start(y) /\ s \in Nat /\ f \in 0..335 /\ k \in 28..31 /\ d = s + f + n - 1
        /\ y \in Nat /\ m \in 1..12 /\ n \in 1..k
    BY <2>1 DEF DateParts
  <2> QED
    BY <2>2
<1>2. 365 * y + (y + 3) \div 4 <= d
  BY <1>1 DEF Start
<1>3. y \in 0..136 /\ (d < 36525 => y < 100)
  <2>1. PICK q \in Nat : q = (y + 3) \div 4 /\ y < 4 * q + 1
    BY <1>1
  <2>2. 365 * y + q <= d
    BY <1>2, <2>1
  <2> QED
    BY <1>1, <2>1, <2>2
<1> QED
  <2>1. y % 256 = y
    BY <1>3
  <2> QED
    BY <1>1, <1>3, <2>1 DEF Byte

IsDaysBefore(f) ==
  f = [month \in 1..12 |-> IF month = 1 THEN 0 ELSE f[month - 1] + c_daysInMonth[month - 1]]

LEMMA DaysBeforeIs ==
  ASSUME NEW m \in 1..12
  PROVE  DaysBefore[m] = First(m, 0)
<1> DEFINE f == [month \in 1..12 |-> First(month, 0)]
<1>1. ASSUME NEW k \in 1..12
      PROVE  f[k] = IF k = 1 THEN 0 ELSE f[k - 1] + c_daysInMonth[k - 1]
  <2>1. CASE k = 1
    BY <2>1, Firsts
  <2>2. CASE k > 1
    <3>1. k - 1 \in 1..12 /\ k - 1 < 12 /\ (k - 1) + 1 = k
      BY <2>2
    <3>2. First(k, 0) = First(k - 1, 0) + DaysPerMonth(k - 1, 0)
      BY <3>1, Firsts
    <3>3. c_daysInMonth[k - 1] \in Int
      BY <3>1 DEF c_daysInMonth
    <3>4. DaysPerMonth(k - 1, 0) = c_daysInMonth[k - 1]
      BY <3>3 DEF DaysPerMonth
    <3> QED
      BY <2>2, <3>1, <3>2, <3>4
  <2> QED
    BY <2>1, <2>2
<1>2. f = [month \in 1..12 |-> f[month]]
  OBVIOUS
<1>3. \E g : IsDaysBefore(g)
  <2> HIDE DEF f
  <2>1. IsDaysBefore(f)
    BY <1>1, <1>2 DEF IsDaysBefore
  <2> QED
    BY <2>1
<1>4. DaysBefore = CHOOSE g : IsDaysBefore(g)
  BY DEF DaysBefore, IsDaysBefore
<1>5. IsDaysBefore(DaysBefore)
  BY <1>3, <1>4
<1>6. \A k \in 1..12 : DaysBefore[k] = IF k = 1 THEN 0 ELSE DaysBefore[k - 1] + c_daysInMonth[k - 1]
  BY <1>5 DEF IsDaysBefore
<1>7. \A k \in 1..11 : c_daysInMonth[k] = First(k + 1, 0) - First(k, 0)
  <2> TAKE k \in 1..11
  <2>1. k \in 1..12 /\ k < 12
    OBVIOUS
  <2>2. c_daysInMonth[k] \in Int
    BY DEF c_daysInMonth
  <2>3. DaysPerMonth(k, 0) = c_daysInMonth[k]
    BY <2>2 DEF DaysPerMonth
  <2> QED
    <3>1. First(k, 0) \in 0..335 /\ First(k + 1, 0) = First(k, 0) + DaysPerMonth(k, 0)
      BY <2>1, Firsts
    <3> QED
      BY <2>2, <2>3, <3>1
<1>8. \A k \in 1..12 : First(k, 0) \in Int
  BY Firsts
<1>9. DaysBefore[1] = First(1, 0)
  BY <1>6, Firsts
<1>10. \A k \in 1..11 : DaysBefore[k] = First(k, 0) => DaysBefore[k + 1] = First(k + 1, 0)
  <2> TAKE k \in 1..11
  <2>1. k \in 1..12 /\ k + 1 \in 1..12 /\ k + 1 # 1 /\ (k + 1) - 1 = k
    OBVIOUS
  <2> QED
    BY <2>1, <1>6, <1>7, <1>8
<1>11. /\ DaysBefore[2] = First(2, 0) /\ DaysBefore[3] = First(3, 0) /\ DaysBefore[4] = First(4, 0)
       /\ DaysBefore[5] = First(5, 0) /\ DaysBefore[6] = First(6, 0) /\ DaysBefore[7] = First(7, 0)
       /\ DaysBefore[8] = First(8, 0) /\ DaysBefore[9] = First(9, 0) /\ DaysBefore[10] = First(10, 0)
       /\ DaysBefore[11] = First(11, 0) /\ DaysBefore[12] = First(12, 0)
  <2> HIDE DEF f
  <2> QED
    BY <1>9, <1>10
<1> QED
  <2>1. \/ m = 1 \/ m = 2 \/ m = 3 \/ m = 4 \/ m = 5 \/ m = 6
        \/ m = 7 \/ m = 8 \/ m = 9 \/ m = 10 \/ m = 11 \/ m = 12
    OBVIOUS
  <2> QED
    BY <2>1, <1>9, <1>11

\* The library's count of the days of a date is the day it is the date of.
LEMMA LibraryCount ==
  ASSUME NEW d \in Nat, d < 49710, NEW date, IsDate(d, date.year, date.month, date.day)
  PROVE  DaysSinceFirstOfYear2000(date) = d /\ DayOfWeek(date) = (d + 6) % 7
<1> DEFINE y == date.year
           m == date.month
           n == date.day
           l == LeapDays(y)
<1>1. /\ y \in Nat /\ m \in 1..12 /\ n \in 1..31 /\ l \in {0, 1}
      /\ d = Start(y) + First(m, l) + n - 1
  <2>1. /\ y \in Nat /\ m \in 1..12 /\ n \in 1..DaysPerMonth(m, l)
        /\ d = Start(y) + First(m, l) + n - 1
    BY DEF IsDate
  <2>2. l \in {0, 1}
    BY <2>1, Starts
  <2>3. DaysPerMonth(m, l) \in 28..31
    BY <2>1, <2>2, Firsts
  <2> QED
    BY <2>1, <2>2, <2>3
<1> HIDE DEF y, m, n, l
<1>2. First(m, 0) \in Int /\ First(m, l) = First(m, 0) + IF m > 2 THEN l ELSE 0
  <2>1. \A x \in {0, 1} : First(m, x) \in Int
    BY <1>1, Firsts
  <2>2. PICK g \in Int : g = <<0, 31, 59, 90, 120, 151, 181, 212, 243, 273, 304, 334>>[m]
    BY <1>1
  <2> QED
    BY <1>1, <2>1, <2>2 DEF First
<1>3. DaysBefore[m] = First(m, 0)
  BY <1>1, DaysBeforeIs
<1>4. n + DaysBefore[m] + (IF m > 2 THEN l ELSE 0) + 365 * y + (y + 3) \div 4 - 1 = d
  BY <1>1, <1>2, <1>3 DEF Start
<1>5. DaysSinceFirstOfYear2000(date) = d % 65536
  BY <1>4 DEF DaysSinceFirstOfYear2000, Word, y, m, n, l
<1>6. d % 65536 = d
  OBVIOUS
<1> QED
  BY <1>5, <1>6 DEF DayOfWeek

\* What the chip holds: the date of the day, with the year of its century, and a weekday
\* that goes with it.
Shows(date) ==
  \E weekday \in 0..7 :
    /\ weekday % 7 = (days + 6) % 7
    /\ regs = <<Uint8ToBcd(date.second), Uint8ToBcd(date.minute), Uint8ToBcd(date.hour), weekday,
                Uint8ToBcd(date.day), Uint8ToBcd(date.month), Uint8ToBcd(date.year % 100)>>
    /\ century = (date.year >= 100)

CalendarInv == days \in Days /\ seconds \in DayTimes /\ Shows(FromSeconds(days, seconds))

\* A time of day in hours, minutes and seconds.
IsTime(t, h, m, s) ==
  /\ h \in Nat /\ h < 24 /\ m \in Nat /\ m < 60 /\ s \in Nat /\ s < 60
  /\ t = 3600 * h + 60 * m + s

LEMMA TimeParts ==
  ASSUME NEW t \in Nat, t < 86400
  PROVE  IsTime(t, t \div 3600, (t \div 60) % 60, t % 60)
<1>1. PICK q \in Nat : q = t \div 60 /\ t = 60 * q + (t % 60) /\ q < 1440
  OBVIOUS
<1>2. PICK h \in Nat : h = q \div 60 /\ q = 60 * h + (q % 60) /\ h < 24
  BY <1>1
<1>3. t % 60 \in Nat /\ t % 60 < 60 /\ q % 60 \in Nat /\ q % 60 < 60
  BY <1>1
<1>4. t = 3600 * h + (60 * (q % 60) + (t % 60)) /\ 60 * (q % 60) + (t % 60) < 3600
  BY <1>1, <1>2, <1>3
<1>5. t \div 3600 = h
  BY <1>3, <1>4
<1> QED
  BY <1>1, <1>2, <1>3, <1>4, <1>5 DEF IsTime

\* What the library takes the time t of the day for.
IsNow(t, y, m, n) ==
  /\ IsDate(days, y, m, n) /\ Byte(y) = y
  /\ y \in 0..136 /\ m \in 1..12 /\ n \in 1..31
  /\ days < 36525 => y < 100
  /\ FromSeconds(days, t) = [year |-> y, month |-> m, day |-> n, hour |-> t \div 3600,
                             minute |-> (t \div 60) % 60, second |-> t % 60]

LEMMA SameDay ==
  ASSUME days \in Nat, days < 49710, NEW t, NEW y, NEW m, NEW n, IsDate(days, y, m, n)
  PROVE  IsNow(t, y, m, n)
<1>1. /\ y \in 0..136 /\ m \in 1..12 /\ n \in 1..31 /\ Byte(y) = y
      /\ days < 36525 => y < 100
  BY InRange
<1>2. FromSeconds(days, t) = [year |-> y, month |-> m, day |-> n, hour |-> t \div 3600,
                              minute |-> (t \div 60) % 60, second |-> t % 60]
  BY <1>1, LibraryDate
<1> QED
  BY <1>1, <1>2 DEF IsNow

LEMMA Now ==
  ASSUME days \in Days
  PROVE  /\ days \in Nat /\ days < 49710
         /\ \E y, m, n : \A t : IsNow(t, y, m, n)
<1>1. days \in Nat /\ days < 49710
  BY CalendarAssumption DEF CalendarAssumption
<1>2. PICK y, m, n : IsDate(days, y, m, n)
  BY <1>1, SomeDate
<1>3. \A t : IsNow(t, y, m, n)
  BY <1>1, <1>2, SameDay
<1> QED
  BY <1>1, <1>3

\* What the library counts of it.
LEMMA Counted ==
  ASSUME days \in Nat, days < 49710, NEW t, NEW y, NEW m, NEW n, IsNow(t, y, m, n)
  PROVE  /\ DayOfWeek(FromSeconds(days, t)) = (days + 6) % 7
         /\ DaysSinceFirstOfYear2000(FromSeconds(days, t)) = days
<1> DEFINE now == FromSeconds(days, t)
<1>1. now.year = y /\ now.month = m /\ now.day = n /\ IsDate(days, y, m, n)
  BY DEF IsNow
<1> HIDE DEF now
<1>2. IsDate(days, now.year, now.month, now.day)
  BY <1>1
<1> QED
  BY <1>2, LibraryCount DEF now

LEMMA SmallBcd ==
  ASSUME NEW v \in 0..7
  PROVE  Uint8ToBcd(v) = v /\ BcdToUint8(v) = v
BY Coded

LEMMA InitCalendar ==
  ASSUME Init
  PROVE  CalendarInv
<1>1. /\ days \in Days /\ seconds = 0 /\ century = FALSE /\ days < 36525
      /\ regs = SetDateTime(FromSeconds(days, seconds))
  BY CalendarAssumption DEF CalendarAssumption, Init, CalendarInit, NoCalendar
<1>2. seconds \in DayTimes
  BY <1>1, CalendarAssumption DEF CalendarAssumption
<1> DEFINE now == FromSeconds(days, seconds)
<1>3. days \in Nat /\ days < 49710
  BY <1>1, Now
<1>4. PICK y, m, n : IsNow(seconds, y, m, n)
  BY <1>1, Now
<1>5. DayOfWeek(now) = (days + 6) % 7
  BY <1>3, <1>4, Counted
<1>6. now.year = y /\ y % 100 = y /\ ~(y >= 100)
  BY <1>1, <1>4 DEF IsNow
<1>7. DayOfWeek(now) \in 0..7 /\ DayOfWeek(now) % 7 = (days + 6) % 7
  BY <1>3, <1>5
<1>8. regs = SetDateTime(now)
  BY <1>1
<1> HIDE DEF now
<1>9. Uint8ToBcd(DayOfWeek(now)) = DayOfWeek(now)
  BY <1>7, SmallBcd
<1>10. regs = <<Uint8ToBcd(now.second), Uint8ToBcd(now.minute), Uint8ToBcd(now.hour), DayOfWeek(now),
                Uint8ToBcd(now.day), Uint8ToBcd(now.month), Uint8ToBcd(now.year % 100)>>
  BY <1>6, <1>8, <1>9 DEF SetDateTime
<1>11. century = (now.year >= 100)
  <2>1. y \in 0..136 /\ y < 100
    BY <1>1, <1>4 DEF IsNow
  <2>2. (y >= 100) = FALSE
    BY <2>1
  <2>3. century = FALSE
    BY <1>1
  <2> QED
    BY <1>6, <2>2, <2>3
<1>12. Shows(now)
  BY <1>7, <1>10, <1>11 DEF Shows
<1> QED
  BY <1>1, <1>2, <1>12 DEF CalendarInv, now

\* What the registers hold, by the parts of the date.
LEMMA Shown ==
  ASSUME days \in Days, NEW t, Shows(FromSeconds(days, t)), NEW y, NEW m, NEW n, IsNow(t, y, m, n)
  PROVE  \E weekday \in 0..7 :
           /\ weekday % 7 = (days + 6) % 7
           /\ regs = <<Uint8ToBcd(t % 60), Uint8ToBcd((t \div 60) % 60), Uint8ToBcd(t \div 3600), weekday,
                       Uint8ToBcd(n), Uint8ToBcd(m), Uint8ToBcd(y % 100)>>
           /\ century = (y >= 100)
<1>1. /\ FromSeconds(days, t).year = y /\ FromSeconds(days, t).month = m
      /\ FromSeconds(days, t).day = n /\ FromSeconds(days, t).hour = t \div 3600
      /\ FromSeconds(days, t).minute = (t \div 60) % 60 /\ FromSeconds(days, t).second = t % 60
  BY DEF IsNow
<1> QED
  BY <1>1 DEF Shows

LEMMA LaterInv ==
  ASSUME CalendarInv, Later
  PROVE  CalendarInv'
<1>1. PICK t \in DayTimes :
        /\ t > seconds
        /\ seconds' = t
        /\ regs' = [regs EXCEPT ![1] = Uint8ToBcd(t % 60), ![2] = Uint8ToBcd((t \div 60) % 60),
                                ![3] = Uint8ToBcd(t \div 3600)]
        /\ UNCHANGED <<days, century>>
  BY DEF Later
<1>2. days \in Days /\ Shows(FromSeconds(days, seconds))
  BY DEF CalendarInv
<1>3. PICK y, m, n : \A s : IsNow(s, y, m, n)
  BY <1>2, Now
<1>4. IsNow(seconds, y, m, n) /\ IsNow(t, y, m, n)
  BY <1>3
<1>5. PICK weekday \in 0..7 :
        /\ weekday % 7 = (days + 6) % 7
        /\ regs = <<Uint8ToBcd(seconds % 60), Uint8ToBcd((seconds \div 60) % 60),
                    Uint8ToBcd(seconds \div 3600), weekday,
                    Uint8ToBcd(n), Uint8ToBcd(m), Uint8ToBcd(y % 100)>>
        /\ century = (y >= 100)
  BY <1>2, <1>4, Shown
<1> DEFINE now == FromSeconds(days, t)
<1>6. regs' = <<Uint8ToBcd(t % 60), Uint8ToBcd((t \div 60) % 60), Uint8ToBcd(t \div 3600), weekday,
                Uint8ToBcd(n), Uint8ToBcd(m), Uint8ToBcd(y % 100)>>
  BY <1>1, <1>5
<1>7. /\ now.year = y /\ now.month = m /\ now.day = n /\ now.hour = t \div 3600
      /\ now.minute = (t \div 60) % 60 /\ now.second = t % 60
  BY <1>4 DEF IsNow
<1>8. FromSeconds(days', seconds') = now /\ days' = days /\ century' = century
  BY <1>1
<1> HIDE DEF now
<1>9. /\ weekday % 7 = (days' + 6) % 7
      /\ regs' = <<Uint8ToBcd(now.second), Uint8ToBcd(now.minute), Uint8ToBcd(now.hour), weekday,
                   Uint8ToBcd(now.day), Uint8ToBcd(now.month), Uint8ToBcd(now.year % 100)>>
      /\ century' = (now.year >= 100)
  BY <1>5, <1>6, <1>7, <1>8
<1>10. Shows(FromSeconds(days, seconds))'
  BY <1>8, <1>9 DEF Shows
<1> QED
  BY <1>1, <1>2, <1>10 DEF CalendarInv

\* The chip's month is as long as the library's, and its next weekday goes with the next day.
LEMMA ChipMonth ==
  ASSUME NEW y \in 0..136, NEW m \in 1..12
  PROVE  MonthLength(m, y % 100) = DaysPerMonth(m, LeapDays(y))
<1>1. (y % 100) % 4 = y % 4
  OBVIOUS
<1>2. \/ m = 1 \/ m = 2 \/ m = 3 \/ m = 4 \/ m = 5 \/ m = 6
      \/ m = 7 \/ m = 8 \/ m = 9 \/ m = 10 \/ m = 11 \/ m = 12
  OBVIOUS
<1> QED
  BY <1>1, <1>2 DEF MonthLength, DaysPerMonth, LeapDays, c_daysInMonth

LEMMA ChipWeekday ==
  ASSUME NEW w \in 0..7, NEW d \in Nat, w % 7 = (d + 6) % 7
  PROVE  NextWeekday(w) \in 0..7 /\ NextWeekday(w) % 7 = ((d + 1) + 6) % 7
<1>1. ((d + 1) + 6) % 7 = (((d + 6) % 7) + 1) % 7
  OBVIOUS
<1>2. \/ w = 0 \/ w = 1 \/ w = 2 \/ w = 3 \/ w = 4 \/ w = 5 \/ w = 6 \/ w = 7
  OBVIOUS
<1> QED
  BY <1>1, <1>2 DEF NextWeekday

LEMMA MidnightInv ==
  ASSUME CalendarInv, Midnight
  PROVE  CalendarInv'
<1>1. days \in Days /\ seconds \in DayTimes /\ Shows(FromSeconds(days, seconds))
  BY DEF CalendarInv
<1>2. days \in Nat /\ days + 1 \in Days /\ days + 1 \in Nat /\ days + 1 < 49710
  BY <1>1, CalendarAssumption DEF CalendarAssumption, Midnight
<1>0. PICK y, m, n : IsNow(seconds, y, m, n)
  BY <1>1, Now
<1>3. y \in 0..136 /\ m \in 1..12 /\ n \in 1..31 /\ IsDate(days, y, m, n)
  BY <1>0 DEF IsNow
<1>4. PICK weekday \in 0..7 :
        /\ weekday % 7 = (days + 6) % 7 /\ century = (y >= 100)
        /\ regs[4] = weekday
        /\ regs[5] = Uint8ToBcd(n) /\ regs[6] = Uint8ToBcd(m) /\ regs[7] = Uint8ToBcd(y % 100)
  <2>1. PICK weekday \in 0..7 :
          /\ weekday % 7 = (days + 6) % 7
          /\ regs = <<Uint8ToBcd(seconds % 60), Uint8ToBcd((seconds \div 60) % 60),
                      Uint8ToBcd(seconds \div 3600), weekday,
                      Uint8ToBcd(n), Uint8ToBcd(m), Uint8ToBcd(y % 100)>>
          /\ century = (y >= 100)
    BY <1>0, <1>1, Shown
  <2> QED
    BY <2>1
<1>5. BcdToUint8(regs[5]) = n /\ BcdToUint8(regs[6]) = m /\ BcdToUint8(regs[7]) = y % 100
  <2>1. n \in 0..99 /\ m \in 0..99 /\ y % 100 \in 0..99
    BY <1>3
  <2> QED
    BY <1>4, <2>1, ReadAgain
<1> DEFINE k == DaysPerMonth(m, LeapDays(y))
           newMonth == ~(n < k)
           newYear == newMonth /\ m = 12
           n2 == IF newMonth THEN 1 ELSE n + 1
           m2 == IF newYear THEN 1 ELSE IF newMonth THEN m + 1 ELSE m
           y2 == IF newYear THEN y + 1 ELSE y
<1>6. k \in 28..31
  <2>1. LeapDays(y) \in {0, 1}
    BY <1>3, Starts
  <2> QED
    BY <1>3, <2>1, Firsts
<1>7. (n >= MonthLength(m, y % 100)) = newMonth
  <2>1. MonthLength(m, y % 100) = k
    BY <1>3, ChipMonth
  <2> HIDE DEF k
  <2> QED
    BY <1>3, <1>6, <2>1
<1> HIDE DEF k
<1>8. IsDate(days + 1, y2, m2, n2)
  BY <1>2, <1>3, NextDate DEF k
<1>9. y2 \in 0..136 /\ m2 \in 1..12 /\ n2 \in 1..31 /\ Byte(y2) = y2
  <2> HIDE DEF y2, m2, n2
  <2> QED
    BY <1>2, <1>8, InRange
<1>10. /\ days' = days + 1 /\ seconds' = 0
       /\ regs' = <<0, 0, 0, NextWeekday(weekday), Uint8ToBcd(n2), Uint8ToBcd(m2),
                    Uint8ToBcd(IF newYear THEN ((y % 100) + 1) % 100 ELSE y % 100)>>
       /\ century' = (century # (newYear /\ y % 100 = 99))
  BY <1>4, <1>5, <1>7 DEF Midnight
<1>11. (IF newYear THEN ((y % 100) + 1) % 100 ELSE y % 100) = y2 % 100
  <2>1. ((y % 100) + 1) % 100 = (y + 1) % 100
    BY <1>3
  <2> QED
    BY <2>1
<1>12. (century # (newYear /\ y % 100 = 99)) = (y2 >= 100)
  <2>1. CASE newYear
    <3>1. y % 100 = 99 <=> y = 99
      <4>1. y + 1 \in 0..136
        BY <1>9, <2>1
      <4> QED
        BY <1>3, <4>1
    <3>2. century = (y >= 100) /\ y2 = y + 1
      BY <1>4, <2>1
    <3>3. CASE y = 99
      BY <2>1, <3>1, <3>2, <3>3
    <3>4. CASE y # 99
      <4>1. (y >= 100) = (y + 1 >= 100)
        BY <1>3, <3>4
      <4>2. ~(newYear /\ y % 100 = 99)
        BY <3>1, <3>4
      <4> QED
        BY <3>2, <4>1, <4>2
    <3> QED
      BY <3>3, <3>4
  <2>2. CASE ~newYear
    BY <1>4, <2>2
  <2> QED
    BY <2>1, <2>2
<1>13. FromSeconds(days + 1, 0) = [year |-> y2, month |-> m2, day |-> n2, hour |-> 0,
                                   minute |-> 0, second |-> 0]
  <2>1. 0 \div 3600 = 0 /\ (0 \div 60) % 60 = 0 /\ 0 % 60 = 0
    OBVIOUS
  <2> HIDE DEF y2, m2, n2
  <2> QED
    BY <1>2, <1>8, <1>9, <2>1, LibraryDate
<1>14. NextWeekday(weekday) \in 0..7 /\ NextWeekday(weekday) % 7 = ((days + 1) + 6) % 7
  BY <1>2, <1>4, ChipWeekday
<1>15. Uint8ToBcd(0) = 0
  BY SmallBcd
<1> HIDE DEF y2, m2, n2, newYear, newMonth
<1>16. Shows(FromSeconds(days, seconds))'
  <2> DEFINE now == FromSeconds(days + 1, 0)
  <2>1. /\ now.year = y2 /\ now.month = m2 /\ now.day = n2 /\ now.hour = 0
        /\ now.minute = 0 /\ now.second = 0
    BY <1>13
  <2>2. FromSeconds(days', seconds') = now
    BY <1>10
  <2> HIDE DEF now
  <2>3. /\ NextWeekday(weekday) % 7 = (days' + 6) % 7
        /\ regs' = <<Uint8ToBcd(now.second), Uint8ToBcd(now.minute), Uint8ToBcd(now.hour),
                     NextWeekday(weekday),
                     Uint8ToBcd(now.day), Uint8ToBcd(now.month), Uint8ToBcd(now.year % 100)>>
        /\ century' = (now.year >= 100)
    BY <1>10, <1>11, <1>12, <1>14, <1>15, <2>1
  <2> QED
    BY <1>14, <2>2, <2>3 DEF Shows
<1>17. 0 \in DayTimes
  BY CalendarAssumption DEF CalendarAssumption
<1> QED
  BY <1>2, <1>10, <1>16, <1>17 DEF CalendarInv

LEMMA CalendarKept == Spec => []CalendarInv
<1>1. Init => CalendarInv
  BY InitCalendar
<1>2. CalendarInv /\ [Next]_vars => CalendarInv'
  <2> SUFFICES ASSUME CalendarInv, [Next]_vars PROVE CalendarInv'
    OBVIOUS
  <2>1. CASE CalendarNext
    BY <2>1, LaterInv, MidnightInv DEF CalendarNext
  <2>2. CASE UNCHANGED calendar
    BY <2>2 DEF calendar, CalendarInv, Shows
  <2> QED
    BY <2>1, <2>2 DEF Next, vars
<1> QED
  BY <1>1, <1>2, PTL DEF Spec

\* A byte of two decimal digits.
LEMMA Digit ==
  ASSUME NEW v \in 0..99
  PROVE  Uint8ToBcd(v) \in 0..153
<1>1. PICK t \in 0..9, u \in 0..9 : v = 10 * t + u
  BY Tens
<1>2. Uint8ToBcd(v) = 16 * t + u
  BY <1>1, Coded
<1> QED
  BY <1>2

\* The time and the date that the registers hold, and what the library makes of each.
Held(y, m, n, h, i, s, weekday) ==
  /\ IsNow(seconds, y, m, n) /\ IsTime(seconds, h, i, s)
  /\ h = seconds \div 3600 /\ i = (seconds \div 60) % 60 /\ s = seconds % 60
  /\ weekday \in 0..7 /\ weekday % 7 = (days + 6) % 7
  /\ regs = <<Uint8ToBcd(s), Uint8ToBcd(i), Uint8ToBcd(h), weekday,
              Uint8ToBcd(n), Uint8ToBcd(m), Uint8ToBcd(y % 100)>>
  /\ century = (y >= 100)

LEMMA HeldParts ==
  ASSUME CalendarInv
  PROVE  \E y, m, n, h, i, s, weekday : Held(y, m, n, h, i, s, weekday)
<1>1. days \in Days /\ seconds \in DayTimes /\ Shows(FromSeconds(days, seconds))
  BY DEF CalendarInv
<1>2. seconds \in Nat /\ seconds < 86400
  BY <1>1, CalendarAssumption DEF CalendarAssumption
<1>3. IsTime(seconds, seconds \div 3600, (seconds \div 60) % 60, seconds % 60)
  BY <1>2, TimeParts
<1>4. PICK y, m, n : IsNow(seconds, y, m, n)
  BY <1>1, Now
<1>5. PICK weekday \in 0..7 :
        /\ weekday % 7 = (days + 6) % 7
        /\ regs = <<Uint8ToBcd(seconds % 60), Uint8ToBcd((seconds \div 60) % 60),
                    Uint8ToBcd(seconds \div 3600), weekday,
                    Uint8ToBcd(n), Uint8ToBcd(m), Uint8ToBcd(y % 100)>>
        /\ century = (y >= 100)
  BY <1>1, <1>4, Shown
<1>6. Held(y, m, n, seconds \div 3600, (seconds \div 60) % 60, seconds % 60, weekday)
  BY <1>3, <1>4, <1>5 DEF Held
<1> QED
  BY <1>6

LEMMA HeldRanges ==
  ASSUME CalendarInv, NEW y, NEW m, NEW n, NEW h, NEW i, NEW s, NEW weekday,
         Held(y, m, n, h, i, s, weekday)
  PROVE  /\ y \in 0..136 /\ m \in 1..12 /\ n \in 1..31
         /\ h \in 0..23 /\ i \in 0..59 /\ s \in 0..59 /\ weekday \in 0..7
         /\ y % 100 \in 0..99
         /\ seconds \in Nat /\ days \in Nat /\ days < 49710
         /\ h >= 20 <=> seconds >= 72000
<1>1. y \in 0..136 /\ m \in 1..12 /\ n \in 1..31
  BY DEF Held, IsNow
<1>2. h \in 0..23 /\ i \in 0..59 /\ s \in 0..59 /\ seconds = 3600 * h + 60 * i + s
  BY DEF Held, IsTime
<1>3. days \in Nat /\ days < 49710 /\ seconds \in Nat
  BY CalendarAssumption DEF CalendarAssumption, CalendarInv
<1> QED
  BY <1>1, <1>2, <1>3 DEF Held

\* The library reads the date.
LEMMA ReadOf ==
  ASSUME CalendarInv, NEW y, NEW m, NEW n, NEW h, NEW i, NEW s, NEW weekday,
         Held(y, m, n, h, i, s, weekday)
  PROVE  GetDateTime = [second |-> s, minute |-> i, hour |-> IF seconds >= 72000 THEN h - 20 ELSE h,
                        day |-> n, month |-> m, year |-> y]
<1>1. /\ y \in 0..136 /\ m \in 1..12 /\ n \in 1..31
      /\ h \in 0..23 /\ i \in 0..59 /\ s \in 0..59 /\ y % 100 \in 0..99
      /\ h >= 20 <=> seconds >= 72000
  BY HeldRanges
<1>2. n \in 0..99 /\ m \in 0..99 /\ i \in 0..99
  BY <1>1
<1>3. BcdToUint8(Uint8ToBcd(s) % 128) = s
  BY <1>1, SecondsAgain
<1>4. BcdToUint8(Uint8ToBcd(i)) = i /\ BcdToUint8(Uint8ToBcd(n)) = n /\ BcdToUint8(Uint8ToBcd(m)) = m
  BY <1>2, ReadAgain
<1>5. BcdToUint8(Uint8ToBcd(y % 100)) = y % 100
  BY <1>1, ReadAgain
<1>6. BcdToBin24Hour(Uint8ToBcd(h)) = IF seconds >= 72000 THEN h - 20 ELSE h
  BY <1>1, HoursAgain
<1>7. (y % 100) + (IF y >= 100 THEN 100 ELSE 0) = y
  <2>1. y \in 0..136
    BY <1>1
  <2> QED
    BY <2>1, SMTT(30)
<1>8. /\ regs = <<Uint8ToBcd(s), Uint8ToBcd(i), Uint8ToBcd(h), weekday,
                  Uint8ToBcd(n), Uint8ToBcd(m), Uint8ToBcd(y % 100)>>
      /\ century = (y >= 100)
  BY DEF Held
<1>9. /\ regs[1] = Uint8ToBcd(s) /\ regs[2] = Uint8ToBcd(i) /\ regs[3] = Uint8ToBcd(h)
      /\ regs[5] = Uint8ToBcd(n) /\ regs[6] = Uint8ToBcd(m) /\ regs[7] = Uint8ToBcd(y % 100)
  BY <1>8
<1>10. (y % 100) + (IF century THEN 100 ELSE 0) = y
  BY <1>7, <1>8
<1> QED
  BY <1>3, <1>4, <1>5, <1>6, <1>9, <1>10 DEF GetDateTime

LEMMA ReadsAre == CalendarInv => ReadsRight
<1> SUFFICES ASSUME CalendarInv PROVE ReadsRight
  OBVIOUS
<1>1. PICK y, m, n, h, i, s, weekday : Held(y, m, n, h, i, s, weekday)
  BY HeldParts
<1>2. GetDateTime = [second |-> s, minute |-> i, hour |-> IF seconds >= 72000 THEN h - 20 ELSE h,
                     day |-> n, month |-> m, year |-> y]
  BY <1>1, ReadOf
<1>3. FromSeconds(days, seconds) = [year |-> y, month |-> m, day |-> n, hour |-> h,
                                    minute |-> i, second |-> s]
  BY <1>1 DEF Held, IsNow
<1> QED
  BY <1>2, <1>3 DEF ReadsRight, Evening

LEMMA CountsAre == CalendarInv => CountsRight
<1> SUFFICES ASSUME CalendarInv PROVE CountsRight
  OBVIOUS
<1>1. PICK y, m, n, h, i, s, weekday : Held(y, m, n, h, i, s, weekday)
  BY HeldParts
<1> DEFINE now == GetDateTime
<1>2. now = [second |-> s, minute |-> i, hour |-> IF seconds >= 72000 THEN h - 20 ELSE h,
             day |-> n, month |-> m, year |-> y]
  BY <1>1, ReadOf
<1> HIDE DEF now
<1>3. /\ h \in 0..23 /\ i \in 0..59 /\ s \in 0..59 /\ weekday \in 0..7
      /\ seconds \in Nat /\ days \in Nat /\ days < 49710
      /\ h >= 20 <=> seconds >= 72000
  BY <1>1, HeldRanges
<1>4. IsDate(days, now.year, now.month, now.day)
  BY <1>1, <1>2 DEF Held, IsNow
<1>5. DaysSinceFirstOfYear2000(now) = days /\ DayOfWeek(now) = (days + 6) % 7
  BY <1>3, <1>4, LibraryCount
<1>6. seconds = 3600 * h + 60 * i + s
  BY <1>1 DEF Held, IsTime
<1>7. SecondsIn(now) = IF seconds >= 72000 THEN seconds - 72000 ELSE seconds
  <2>1. /\ now.hour = IF seconds >= 72000 THEN h - 20 ELSE h
        /\ now.minute = i /\ now.second = s
    BY <1>2
  <2> QED
    BY <1>3, <1>6, <2>1 DEF SecondsIn
<1>8. BcdToUint8(regs[4]) = weekday /\ weekday % 7 = (days + 6) % 7
  <2>1. regs[4] = weekday /\ weekday % 7 = (days + 6) % 7
    BY <1>1 DEF Held
  <2> QED
    BY <1>3, <2>1, SmallBcd
<1> QED
  BY <1>5, <1>7, <1>8 DEF CountsRight, TotalSeconds, Evening, now

LEMMA MonthRead ==
  ASSUME NEW m \in 1..12
  PROVE  MonthOf(Names[m]) = m
<1>1. /\ MonthOf(<<"J", "a", "n">>) = 1 /\ MonthOf(<<"F", "e", "b">>) = 2
      /\ MonthOf(<<"M", "a", "r">>) = 3 /\ MonthOf(<<"A", "p", "r">>) = 4
      /\ MonthOf(<<"M", "a", "y">>) = 5 /\ MonthOf(<<"J", "u", "n">>) = 6
      /\ MonthOf(<<"J", "u", "l">>) = 7 /\ MonthOf(<<"A", "u", "g">>) = 8
      /\ MonthOf(<<"S", "e", "p">>) = 9 /\ MonthOf(<<"O", "c", "t">>) = 10
      /\ MonthOf(<<"N", "o", "v">>) = 11 /\ MonthOf(<<"D", "e", "c">>) = 12
  BY DEF MonthOf
<1>2. \/ m = 1 \/ m = 2 \/ m = 3 \/ m = 4 \/ m = 5 \/ m = 6
      \/ m = 7 \/ m = 8 \/ m = 9 \/ m = 10 \/ m = 11 \/ m = 12
  OBVIOUS
<1> QED
  BY <1>1, <1>2 DEF Names

LEMMA DigitsRead ==
  ASSUME NEW v \in 0..99
  PROVE  StringToUint8(Digits(v)[1], Digits(v)[2]) = v
<1>1. PICK t \in 0..9, u \in 0..9 : v = 10 * t + u
  BY Tens
<1>2. v % 100 = v /\ v \div 10 = t /\ v % 10 = u
  BY <1>1
<1>3. (10 * t + u) % 256 = 10 * t + u
  BY <1>1
<1> QED
  BY <1>1, <1>2, <1>3 DEF Digits, StringToUint8, Byte

LEMMA CompiledIs == CalendarInv => CompiledIsRight
<1> SUFFICES ASSUME CalendarInv, days < 36525
    PROVE  LET now == FromSeconds(days, seconds)
           IN  FromStrings(Names[now.month], [f \in DOMAIN now \ {"month"} |-> Digits(now[f])]) = now
  BY DEF CompiledIsRight
<1>1. PICK y, m, n, h, i, s, weekday : Held(y, m, n, h, i, s, weekday)
  BY HeldParts
<1>2. /\ y \in 0..99 /\ m \in 1..12 /\ n \in 0..99 /\ h \in 0..99 /\ i \in 0..99 /\ s \in 0..99
  <2>1. y < 100
    BY <1>1 DEF Held, IsNow
  <2>2. /\ y \in 0..136 /\ m \in 1..12 /\ n \in 1..31
        /\ h \in 0..23 /\ i \in 0..59 /\ s \in 0..59
    BY <1>1, HeldRanges
  <2> QED
    BY <2>1, <2>2
<1> DEFINE now == FromSeconds(days, seconds)
           text == [f \in DOMAIN now \ {"month"} |-> Digits(now[f])]
<1>3. now = [year |-> y, month |-> m, day |-> n, hour |-> h, minute |-> i, second |-> s]
  BY <1>1 DEF Held, IsNow
<1> HIDE DEF now
<1>4. /\ text.year = Digits(y) /\ text.day = Digits(n) /\ text.hour = Digits(h)
      /\ text.minute = Digits(i) /\ text.second = Digits(s) /\ now.month = m
  BY <1>3
<1> HIDE DEF text
<1>5. MonthOf(Names[now.month]) = m
  BY <1>2, <1>4, MonthRead
<1>6. /\ StringToUint8(text.year[1], text.year[2]) = y
      /\ StringToUint8(text.day[1], text.day[2]) = n
      /\ StringToUint8(text.hour[1], text.hour[2]) = h
      /\ StringToUint8(text.minute[1], text.minute[2]) = i
      /\ StringToUint8(text.second[1], text.second[2]) = s
  BY <1>2, <1>4, DigitsRead, SMTT(30)
<1>7. FromStrings(Names[now.month], text) = now
  BY <1>3, <1>5, <1>6 DEF FromStrings
<1> QED
  BY <1>7, SMTT(30) DEF now, text

LEMMA TypeIs == CalendarInv => CalendarTypeOK
<1> SUFFICES ASSUME CalendarInv PROVE CalendarTypeOK
  OBVIOUS
<1>1. PICK y, m, n, h, i, s, weekday : Held(y, m, n, h, i, s, weekday)
  BY HeldParts
<1>2. /\ y \in 0..136 /\ m \in 1..12 /\ n \in 1..31
      /\ h \in 0..23 /\ i \in 0..59 /\ s \in 0..59 /\ weekday \in 0..7 /\ y % 100 \in 0..99
  BY <1>1, HeldRanges
<1>3. n \in 0..99 /\ m \in 0..99 /\ h \in 0..99 /\ i \in 0..99 /\ s \in 0..99
  BY <1>2
<1> DEFINE a == Uint8ToBcd(s)
           b == Uint8ToBcd(i)
           c == Uint8ToBcd(h)
           e == Uint8ToBcd(n)
           f == Uint8ToBcd(m)
           g == Uint8ToBcd(y % 100)
<1>4. /\ a \in 0..153 /\ b \in 0..153 /\ c \in 0..153 /\ weekday \in 0..153
      /\ e \in 0..153 /\ f \in 0..153 /\ g \in 0..153
  <2>1. \A x \in 0..99 : Uint8ToBcd(x) \in 0..153
    BY Digit
  <2>2. weekday \in 0..153
    BY <1>2
  <2>3. a \in 0..153 /\ b \in 0..153 /\ c \in 0..153
    BY <1>3, <2>1
  <2>4. e \in 0..153 /\ f \in 0..153
    BY <1>3, <2>1
  <2>5. g \in 0..153
    BY <1>2, <2>1
  <2> QED
    BY <2>2, <2>3, <2>4, <2>5
<1>5. regs = <<a, b, c, weekday, e, f, g>> /\ century \in BOOLEAN
  <2>1. (y >= 100) \in BOOLEAN
    BY <1>2
  <2> QED
    BY <1>1, <2>1 DEF Held
<1> HIDE DEF a, b, c, e, f, g
<1>6. Len(regs) = 7 /\ \A k \in 1..7 : regs[k] \in 0..153
  BY <1>4, <1>5
<1> QED
  BY <1>5, <1>6 DEF CalendarInv, CalendarTypeOK

\* On every day of any set below 2^32 seconds, at any times of the day, the library's
\* dates and counts are the chip's and the compiler's.
THEOREM DatesRight == Spec => []DatesAreRight
<1>1. CalendarInv => DatesAreRight
  BY TypeIs, ReadsAre, CountsAre, CompiledIs DEF DatesAreRight
<1> QED
  BY <1>1, CalendarKept, PTL

----------------------------------------------------------------------------
(* AlarmsFire: the bits of an alarm beside its numbers.                        *)

\* A register of an alarm: a number below 128 and a bit that masks it.
LEMMA Masked ==
  ASSUME NEW x \in 0..127, NEW b \in {0, 1}
  PROVE  (x + 128 * b) % 128 = x /\ Bit(x + 128 * b, 128) = b
<1>1. CASE b = 0
  <2>1. x \div 128 = 0 /\ x % 128 = x
    OBVIOUS
  <2> QED
    BY <1>1, <2>1 DEF Bit, Bits
<1>2. CASE b = 1
  <2>1. (x + 128) \div 128 = 1 /\ (x + 128) % 128 = x
    OBVIOUS
  <2> QED
    BY <1>2, <2>1 DEF Bit, Bits
<1> QED
  BY <1>1, <1>2

\* The last one: a number below 64, the choice of the weekday, and the bit that masks.
LEMMA LastMasked ==
  ASSUME NEW x \in 0..63, NEW c \in {0, 1, 2}
  PROVE  /\ (x + 64 * c) % 64 = x /\ Bits(x + 64 * c, 64, 4) = c
         /\ Bit(x + 64 * c, 128) = (IF c = 2 THEN 1 ELSE 0)
         /\ Bit(x + 64 * c, 64) = (IF c = 1 THEN 1 ELSE 0)
<1>1. CASE c = 0
  <2>1. x \div 64 = 0 /\ x \div 128 = 0 /\ x % 64 = x
    OBVIOUS
  <2> QED
    BY <1>1, <2>1 DEF Bit, Bits
<1>2. CASE c = 1
  <2>1. (x + 64) \div 64 = 1 /\ (x + 64) \div 128 = 0 /\ (x + 64) % 64 = x
    OBVIOUS
  <2> QED
    BY <1>2, <2>1 DEF Bit, Bits
<1>3. CASE c = 2
  <2>1. (x + 128) \div 64 = 2 /\ (x + 128) \div 128 = 1 /\ (x + 128) % 64 = x
    OBVIOUS
  <2> QED
    BY <1>3, <2>1 DEF Bit, Bits
<1> QED
  BY <1>1, <1>2, <1>3

\* The numbers an alarm holds are small enough to leave the bits alone, and differ when
\* their bytes do.
LEMMA Small ==
  /\ \A v \in 0..59 : Uint8ToBcd(v) \in 0..127
  /\ \A v \in 0..31 : Uint8ToBcd(v) \in 0..63
  /\ \A v, w \in 0..99 : Uint8ToBcd(v) = Uint8ToBcd(w) <=> v = w
<1>1. ASSUME NEW v \in 0..59 PROVE Uint8ToBcd(v) \in 0..127
  <2>1. PICK t \in 0..9, u \in 0..9 : v = 10 * t + u
    BY Tens
  <2>2. Uint8ToBcd(v) = 16 * t + u
    BY <2>1, Coded
  <2> QED
    BY <2>1, <2>2
<1>2. ASSUME NEW v \in 0..31 PROVE Uint8ToBcd(v) \in 0..63
  <2>1. PICK t \in 0..9, u \in 0..9 : v = 10 * t + u
    BY Tens
  <2>2. Uint8ToBcd(v) = 16 * t + u
    BY <2>1, Coded
  <2> QED
    BY <2>1, <2>2
<1>3. ASSUME NEW v \in 0..99, NEW w \in 0..99, Uint8ToBcd(v) = Uint8ToBcd(w) PROVE v = w
  BY <1>3, ReadAgain
<1> QED
  BY <1>1, <1>2, <1>3

\* The controls, by the bits of the seconds, the minutes and the hours, and the last two.
OneBits(flags, b, c, d, e) ==
  /\ b \in {0, 1} /\ c \in {0, 1} /\ d \in {0, 1} /\ e \in {0, 1, 2}
  /\ Bit(flags, 1) = b /\ Bit(flags, 2) = c /\ Bit(flags, 4) = d /\ Bits(flags, 8, 4) = e
  /\ flags = b + 2 * c + 4 * d + 8 * e
  /\ \/ flags = 0 /\ b = 0 /\ c = 0 /\ d = 0 /\ e = 0
     \/ flags = 23 /\ b = 1 /\ c = 1 /\ d = 1 /\ e = 2
     \/ flags = 22 /\ b = 0 /\ c = 1 /\ d = 1 /\ e = 2
     \/ flags = 20 /\ b = 0 /\ c = 0 /\ d = 1 /\ e = 2
     \/ flags = 16 /\ b = 0 /\ c = 0 /\ d = 0 /\ e = 2
     \/ flags = 8 /\ b = 0 /\ c = 0 /\ d = 0 /\ e = 1

LEMMA OneControlsBits ==
  ASSUME NEW flags \in OneControls
  PROVE  \E b, c, d, e : OneBits(flags, b, c, d, e)
<1>1. /\ OneBits(0, 0, 0, 0, 0) /\ OneBits(23, 1, 1, 1, 2) /\ OneBits(22, 0, 1, 1, 2)
      /\ OneBits(20, 0, 0, 1, 2) /\ OneBits(16, 0, 0, 0, 2) /\ OneBits(8, 0, 0, 0, 1)
  BY DEF OneBits, Bit, Bits
<1> QED
  BY <1>1 DEF OneControls

TwoBits(flags, c, d, e) ==
  /\ c \in {0, 1} /\ d \in {0, 1} /\ e \in {0, 1, 2}
  /\ Bit(flags, 1) = c /\ Bit(flags, 2) = d /\ Bits(flags, 4, 4) = e
  /\ flags = c + 2 * d + 4 * e
  /\ \/ flags = 0 /\ c = 0 /\ d = 0 /\ e = 0
     \/ flags = 11 /\ c = 1 /\ d = 1 /\ e = 2
     \/ flags = 10 /\ c = 0 /\ d = 1 /\ e = 2
     \/ flags = 8 /\ c = 0 /\ d = 0 /\ e = 2
     \/ flags = 4 /\ c = 0 /\ d = 0 /\ e = 1

LEMMA TwoControlsBits ==
  ASSUME NEW flags \in TwoControls
  PROVE  \E c, d, e : TwoBits(flags, c, d, e)
<1>1. /\ TwoBits(0, 0, 0, 0) /\ TwoBits(11, 1, 1, 2) /\ TwoBits(10, 0, 1, 2)
      /\ TwoBits(8, 0, 0, 2) /\ TwoBits(4, 0, 0, 1)
  BY DEF TwoBits, Bit, Bits
<1> QED
  BY <1>1 DEF TwoControls

\* Two times of day compared by their parts.
LEMMA TimesEqual ==
  ASSUME NEW t \in Nat, NEW h, NEW i, NEW s, IsTime(t, h, i, s),
         NEW u \in Nat, NEW g, NEW j, NEW r, IsTime(u, g, j, r)
  PROVE  /\ t = u <=> h = g /\ i = j /\ s = r
         /\ t % 3600 = u % 3600 <=> i = j /\ s = r
         /\ t % 60 = u % 60 <=> s = r
         /\ (t \div 60) % 60 = (u \div 60) % 60 <=> i = j
         /\ t \div 60 = u \div 60 <=> h = g /\ i = j
<1>1. /\ h \in Nat /\ i \in Nat /\ i < 60 /\ s \in Nat /\ s < 60 /\ t = 3600 * h + 60 * i + s
      /\ g \in Nat /\ j \in Nat /\ j < 60 /\ r \in Nat /\ r < 60 /\ u = 3600 * g + 60 * j + r
  BY DEF IsTime
<1>2. t % 3600 = 60 * i + s /\ u % 3600 = 60 * j + r
  BY <1>1
<1>3. t % 60 = s /\ u % 60 = r
  BY <1>1
<1>4. t \div 60 = 60 * h + i /\ u \div 60 = 60 * g + j
  BY <1>1
<1>5. (60 * h + i) % 60 = i /\ (60 * g + j) % 60 = j
  BY <1>1
<1> QED
  BY <1>1, <1>2, <1>3, <1>4, <1>5

\* The fields of an alarm for the time t, and the registers it is compared with.
AlarmParts(t, h, i, s, o, byWeekday, y, m, n, hour, minute, second, weekday) ==
  /\ Held(y, m, n, hour, minute, second, weekday)
  /\ IsTime(t, h, i, s) /\ h \in 0..23 /\ i \in 0..59 /\ s \in 0..59
  /\ o = (IF byWeekday THEN (days + 6) % 7 ELSE n) /\ o \in 0..31
  /\ (t < 72000 <=> h < 20)
  /\ \A flags : AlarmAt(t, flags, byWeekday) = [flags |-> flags, dayOf |-> o, hour |-> h,
                                                minute |-> i, second |-> s]

LEMMA SomeAlarm ==
  ASSUME CalendarInv, NEW t \in DayTimes, NEW byWeekday \in BOOLEAN
  PROVE  /\ t \in Nat /\ seconds \in Nat
         /\ \E h, i, s, o, y, m, n, hour, minute, second, weekday :
              AlarmParts(t, h, i, s, o, byWeekday, y, m, n, hour, minute, second, weekday)
<1>1. t \in Nat /\ t < 86400
  BY CalendarAssumption DEF CalendarAssumption
<1>2. PICK y, m, n, hour, minute, second, weekday : Held(y, m, n, hour, minute, second, weekday)
  BY HeldParts
<1>3. seconds \in Nat /\ days \in Nat /\ days < 49710 /\ n \in 1..31
  BY <1>2, HeldRanges
<1> DEFINE h == t \div 3600
           i == (t \div 60) % 60
           s == t % 60
           o == IF byWeekday THEN (days + 6) % 7 ELSE n
<1>4. IsTime(t, h, i, s)
  BY <1>1, TimeParts
<1>5. IsNow(t, y, m, n)
  <2>1. IsDate(days, y, m, n)
    BY <1>2 DEF Held, IsNow
  <2> QED
    BY <1>3, <2>1, SameDay
<1>6. DayOfWeek(FromSeconds(days, t)) = (days + 6) % 7
  BY <1>3, <1>5, Counted
<1>7. FromSeconds(days, t) = [year |-> y, month |-> m, day |-> n, hour |-> h, minute |-> i,
                              second |-> s]
  BY <1>5 DEF IsNow
<1>8. \A flags : AlarmAt(t, flags, byWeekday) = [flags |-> flags, dayOf |-> o, hour |-> h,
                                                 minute |-> i, second |-> s]
  BY <1>6, <1>7 DEF AlarmAt
<1> HIDE DEF h, i, s
<1>9. h \in 0..23 /\ i \in 0..59 /\ s \in 0..59 /\ (t < 72000 <=> h < 20)
  BY <1>1, <1>4 DEF IsTime
<1>10. o \in 0..31
  BY <1>3
<1> HIDE DEF o
<1>11. AlarmParts(t, h, i, s, o, byWeekday, y, m, n, hour, minute, second, weekday)
  BY <1>2, <1>4, <1>8, <1>9, <1>10 DEF AlarmParts, o
<1> QED
  BY <1>1, <1>3, <1>11

\* The day of an alarm, where it is compared, is that of the chip but for a Sunday that
\* the chip counts as 7.
LEMMA SameWeekday ==
  ASSUME NEW w \in 0..7, NEW d \in Nat, w % 7 = (d + 6) % 7
  PROVE  (d + 6) % 7 = w <=> w # 7
<1>1. w # 7 => w % 7 = w
  OBVIOUS
<1>2. (d + 6) % 7 # 7
  OBVIOUS
<1> QED
  BY <1>1, <1>2

LEMMA OneRight ==
  ASSUME CalendarInv, NEW t \in DayTimes, NEW flags \in OneControls
  PROVE  LET a == AlarmAt(t, flags, flags = 8)  raw == SetAlarmOne(a)
         IN  /\ Fires(raw, SubSeq(regs, 1, 3)) <=>
                  CASE flags = 23 -> TRUE
                    [] flags = 22 -> t % 60 = seconds % 60
                    [] flags = 20 -> t % 3600 = seconds % 3600
                    [] flags = 8  -> t = seconds /\ regs[4] # 7
                    [] OTHER      -> t = seconds
             /\ t < 72000 => GetAlarmOne(raw) = a
<1>1. (flags = 8) \in BOOLEAN /\ t \in Nat /\ seconds \in Nat
  BY SomeAlarm
<1>2. PICK h, i, s, o, y, m, n, hour, minute, second, weekday :
        AlarmParts(t, h, i, s, o, flags = 8, y, m, n, hour, minute, second, weekday)
  BY <1>1, SomeAlarm
<1>3. /\ Held(y, m, n, hour, minute, second, weekday)
      /\ IsTime(t, h, i, s) /\ h \in 0..23 /\ i \in 0..59 /\ s \in 0..59
      /\ o = (IF flags = 8 THEN (days + 6) % 7 ELSE n) /\ o \in 0..31
      /\ t < 72000 <=> h < 20
  BY <1>2 DEF AlarmParts
<1> DEFINE a == AlarmAt(t, flags, flags = 8)
           raw == SetAlarmOne(a)
<1>4. a = [flags |-> flags, dayOf |-> o, hour |-> h, minute |-> i, second |-> s]
  BY <1>2 DEF AlarmParts
<1> HIDE DEF a
<1>5. /\ n \in 1..31 /\ hour \in 0..23 /\ minute \in 0..59 /\ second \in 0..59 /\ weekday \in 0..7
      /\ days \in Nat
  BY <1>3, HeldRanges
<1>6. /\ IsTime(seconds, hour, minute, second) /\ weekday % 7 = (days + 6) % 7
      /\ regs = <<Uint8ToBcd(second), Uint8ToBcd(minute), Uint8ToBcd(hour), weekday,
                  Uint8ToBcd(n), Uint8ToBcd(m), Uint8ToBcd(y % 100)>>
  BY <1>3 DEF Held
<1>7. PICK b, c, d, e : OneBits(flags, b, c, d, e)
  BY OneControlsBits
<1>8. /\ b \in {0, 1} /\ c \in {0, 1} /\ d \in {0, 1} /\ e \in {0, 1, 2}
      /\ Bit(flags, 1) = b /\ Bit(flags, 2) = c /\ Bit(flags, 4) = d /\ Bits(flags, 8, 4) = e
      /\ flags = b + 2 * c + 4 * d + 8 * e
  BY <1>7 DEF OneBits
<1>9. PICK p \in 0..127 : p = Uint8ToBcd(s)
  <2>1. s \in 0..59
    BY <1>3
  <2> QED
    BY <2>1, Small
<1>10. PICK q \in 0..127 : q = Uint8ToBcd(i)
  <2>1. i \in 0..59
    BY <1>3
  <2> QED
    BY <2>1, Small
<1>11. PICK r \in 0..127 : r = Uint8ToBcd(h)
  <2>1. h \in 0..59
    BY <1>3
  <2> QED
    BY <2>1, Small
<1>12. PICK x \in 0..63 : x = Uint8ToBcd(o)
  <2>1. o \in 0..31
    BY <1>3
  <2> QED
    BY <2>1, Small
<1>13. raw = <<p + 128 * b, q + 128 * c, r + 128 * d, x + 64 * e>>
  BY <1>4, <1>8, <1>9, <1>10, <1>11, <1>12 DEF SetAlarmOne
<1> HIDE DEF raw
<1>14. /\ raw[1] % 128 = p /\ Bit(raw[1], 128) = b /\ raw[2] % 128 = q /\ Bit(raw[2], 128) = c
       /\ raw[3] % 128 = r /\ Bit(raw[3], 128) = d
  BY <1>8, <1>13, Masked
<1>15. /\ raw[4] % 64 = x /\ Bits(raw[4], 64, 4) = e
       /\ Bit(raw[4], 128) = (IF e = 2 THEN 1 ELSE 0) /\ Bit(raw[4], 64) = (IF e = 1 THEN 1 ELSE 0)
  BY <1>8, <1>13, LastMasked
<1> DEFINE time == SubSeq(regs, 1, 3)
<1>16. time[1] = Uint8ToBcd(second) /\ time[2] = Uint8ToBcd(minute) /\ time[3] = Uint8ToBcd(hour)
  BY <1>6
<1> HIDE DEF time
<1>17. /\ p = time[1] <=> s = second
       /\ q = time[2] <=> i = minute
       /\ r = time[3] <=> h = hour
  <2>1. /\ s \in 0..99 /\ i \in 0..99 /\ h \in 0..99
        /\ second \in 0..99 /\ minute \in 0..99 /\ hour \in 0..99
    BY <1>3, <1>5
  <2> QED
    BY <2>1, <1>9, <1>10, <1>11, <1>16, Small
<1>18. /\ flags # 8 => (x = regs[5])
       /\ flags = 8 => (x = regs[4] <=> weekday # 7) /\ regs[4] = weekday
  <2>1. CASE flags # 8
    <3>1. o = n /\ regs[5] = Uint8ToBcd(n)
      BY <1>3, <1>6, <2>1
    <3> QED
      BY <2>1, <3>1, <1>12
  <2>2. CASE flags = 8
    <3>1. o = (days + 6) % 7 /\ regs[4] = weekday
      BY <1>3, <1>6, <2>2
    <3>2. o \in 0..7
      BY <1>5, <3>1
    <3>3. x = o
      BY <1>12, <3>2, SmallBcd
    <3> QED
      BY <1>5, <1>6, <2>2, <3>1, <3>3, SameWeekday
  <2> QED
    BY <2>1, <2>2
<1>19. Fires(raw, time) <=> /\ b = 1 \/ s = second
                            /\ c = 1 \/ i = minute
                            /\ d = 1 \/ h = hour
                            /\ e = 2 \/ x = IF e = 1 THEN regs[4] ELSE regs[5]
  <2>1. Len(raw) = 4
    BY <1>13
  <2>2. Fires(raw, time) <=> /\ Bit(raw[1], 128) = 1 \/ raw[1] % 128 = time[1]
                             /\ Bit(raw[2], 128) = 1 \/ raw[2] % 128 = time[2]
                             /\ Bit(raw[3], 128) = 1 \/ raw[3] % 128 = time[3]
                             /\ \/ Bit(raw[4], 128) = 1
                                \/ raw[4] % 64 = IF Bit(raw[4], 64) = 1 THEN regs[4] ELSE regs[5]
    <3>1. \A k : k \in 1..(4 - 1) <=> k = 1 \/ k = 2 \/ k = 3
      OBVIOUS
    <3> QED
      BY <2>1, <3>1 DEF Fires
  <2> QED
    BY <1>8, <1>14, <1>15, <1>17, <2>2
<1>20. /\ t = seconds <=> h = hour /\ i = minute /\ s = second
       /\ t % 3600 = seconds % 3600 <=> i = minute /\ s = second
       /\ t % 60 = seconds % 60 <=> s = second
  BY <1>1, <1>3, <1>6, TimesEqual
<1> DEFINE tells == CASE flags = 23 -> TRUE
                      [] flags = 22 -> t % 60 = seconds % 60
                      [] flags = 20 -> t % 3600 = seconds % 3600
                      [] flags = 8  -> t = seconds /\ regs[4] # 7
                      [] OTHER      -> t = seconds
<1>21. Fires(raw, time) <=> tells
  <2>1. CASE flags = 0
    <3>1. b = 0 /\ c = 0 /\ d = 0 /\ e = 0 /\ flags # 8
      BY <1>7, <2>1 DEF OneBits
    <3>2. Fires(raw, time) <=> t = seconds
      BY <1>18, <1>19, <1>20, <3>1
    <3>3. flags # 23 /\ flags # 22 /\ flags # 20 /\ flags # 8
      BY <2>1
    <3> QED
      BY <3>2, <3>3
  <2>2. CASE flags = 23
    <3>1. b = 1 /\ c = 1 /\ d = 1 /\ e = 2
      BY <1>7, <2>2 DEF OneBits
    <3>2. Fires(raw, time)
      BY <1>19, <3>1
    <3>3. flags # 22 /\ flags # 20 /\ flags # 8
      BY <2>2
    <3> QED
      BY <2>2, <3>2, <3>3
  <2>3. CASE flags = 22
    <3>1. b = 0 /\ c = 1 /\ d = 1 /\ e = 2
      BY <1>7, <2>3 DEF OneBits
    <3>2. Fires(raw, time) <=> t % 60 = seconds % 60
      BY <1>19, <1>20, <3>1
    <3>3. flags # 23 /\ flags # 20 /\ flags # 8
      BY <2>3
    <3> QED
      BY <2>3, <3>2, <3>3
  <2>4. CASE flags = 20
    <3>1. b = 0 /\ c = 0 /\ d = 1 /\ e = 2
      BY <1>7, <2>4 DEF OneBits
    <3>2. Fires(raw, time) <=> t % 3600 = seconds % 3600
      BY <1>19, <1>20, <3>1
    <3>3. flags # 23 /\ flags # 22 /\ flags # 8
      BY <2>4
    <3> QED
      BY <2>4, <3>2, <3>3
  <2>5. CASE flags = 16
    <3>1. b = 0 /\ c = 0 /\ d = 0 /\ e = 2
      BY <1>7, <2>5 DEF OneBits
    <3>2. Fires(raw, time) <=> t = seconds
      BY <1>19, <1>20, <3>1
    <3>3. flags # 23 /\ flags # 22 /\ flags # 20 /\ flags # 8
      BY <2>5
    <3> QED
      BY <3>2, <3>3
  <2>6. CASE flags = 8
    <3>1. b = 0 /\ c = 0 /\ d = 0 /\ e = 1
      BY <1>7, <2>6 DEF OneBits
    <3>2. Fires(raw, time) <=> t = seconds /\ regs[4] # 7
      BY <1>18, <1>19, <1>20, <2>6, <3>1
    <3>3. flags # 23 /\ flags # 22 /\ flags # 20
      BY <2>6
    <3> QED
      BY <2>6, <3>2, <3>3
  <2> QED
    BY <2>1, <2>2, <2>3, <2>4, <2>5, <2>6 DEF OneControls
<1>22. ASSUME t < 72000 PROVE GetAlarmOne(raw) = a
  <2>1. BcdToUint8(p) = s /\ BcdToUint8(q) = i /\ BcdToUint8(x) = o
    <3>1. s \in 0..99 /\ i \in 0..99 /\ o \in 0..99
      BY <1>3
    <3> QED
      BY <3>1, <1>9, <1>10, <1>12, ReadAgain
  <2>2. BcdToBin24Hour(r) = h
    <3>1. ~(h >= 20)
      BY <1>3, <1>22
    <3> QED
      BY <1>3, <1>11, <3>1, HoursAgain
  <2>3. GetAlarmOne(raw) = [flags |-> b + 2 * c + 4 * d + 8 * e, second |-> s, minute |-> i,
                            hour |-> h, dayOf |-> o]
    BY <1>14, <1>15, <2>1, <2>2 DEF GetAlarmOne
  <2> QED
    BY <1>4, <1>8, <2>3
<1> QED
  BY <1>21, <1>22 DEF a, raw, time

LEMMA TwoRight ==
  ASSUME CalendarInv, NEW t \in DayTimes, NEW flags \in TwoControls
  PROVE  LET a == AlarmAt(t, flags, flags = 4)  raw == SetAlarmTwo(a)
         IN  /\ Fires(raw, SubSeq(regs, 2, 3)) <=>
                  CASE flags = 11 -> TRUE
                    [] flags = 10 -> (t \div 60) % 60 = (seconds \div 60) % 60
                    [] flags = 4  -> t \div 60 = seconds \div 60 /\ regs[4] # 7
                    [] OTHER      -> t \div 60 = seconds \div 60
             /\ t < 72000 =>
                  GetAlarmTwo(raw) = [f \in DOMAIN a \ {"second"} |-> a[f]]
<1>1. (flags = 4) \in BOOLEAN /\ t \in Nat /\ seconds \in Nat
  BY SomeAlarm
<1>2. PICK h, i, s, o, y, m, n, hour, minute, second, weekday :
        AlarmParts(t, h, i, s, o, flags = 4, y, m, n, hour, minute, second, weekday)
  BY <1>1, SomeAlarm
<1>3. /\ Held(y, m, n, hour, minute, second, weekday)
      /\ IsTime(t, h, i, s) /\ h \in 0..23 /\ i \in 0..59 /\ s \in 0..59
      /\ o = (IF flags = 4 THEN (days + 6) % 7 ELSE n) /\ o \in 0..31
      /\ t < 72000 <=> h < 20
  BY <1>2 DEF AlarmParts
<1> DEFINE a == AlarmAt(t, flags, flags = 4)
           raw == SetAlarmTwo(a)
<1>4. a = [flags |-> flags, dayOf |-> o, hour |-> h, minute |-> i, second |-> s]
  BY <1>2 DEF AlarmParts
<1> HIDE DEF a
<1>5. /\ n \in 1..31 /\ hour \in 0..23 /\ minute \in 0..59 /\ second \in 0..59 /\ weekday \in 0..7
      /\ days \in Nat
  BY <1>3, HeldRanges
<1>6. /\ IsTime(seconds, hour, minute, second) /\ weekday % 7 = (days + 6) % 7
      /\ regs = <<Uint8ToBcd(second), Uint8ToBcd(minute), Uint8ToBcd(hour), weekday,
                  Uint8ToBcd(n), Uint8ToBcd(m), Uint8ToBcd(y % 100)>>
  BY <1>3 DEF Held
<1>7. PICK c, d, e : TwoBits(flags, c, d, e)
  BY TwoControlsBits
<1>8. /\ c \in {0, 1} /\ d \in {0, 1} /\ e \in {0, 1, 2}
      /\ Bit(flags, 1) = c /\ Bit(flags, 2) = d /\ Bits(flags, 4, 4) = e
      /\ flags = c + 2 * d + 4 * e
  BY <1>7 DEF TwoBits
<1>10. PICK q \in 0..127 : q = Uint8ToBcd(i)
  <2>1. i \in 0..59
    BY <1>3
  <2> QED
    BY <2>1, Small
<1>11. PICK r \in 0..127 : r = Uint8ToBcd(h)
  <2>1. h \in 0..59
    BY <1>3
  <2> QED
    BY <2>1, Small
<1>12. PICK x \in 0..63 : x = Uint8ToBcd(o)
  <2>1. o \in 0..31
    BY <1>3
  <2> QED
    BY <2>1, Small
<1>13. raw = <<q + 128 * c, r + 128 * d, x + 64 * e>>
  BY <1>4, <1>8, <1>10, <1>11, <1>12 DEF SetAlarmTwo
<1> HIDE DEF raw
<1>14. /\ raw[1] % 128 = q /\ Bit(raw[1], 128) = c /\ raw[2] % 128 = r /\ Bit(raw[2], 128) = d
  BY <1>8, <1>13, Masked
<1>15. /\ raw[3] % 64 = x /\ Bits(raw[3], 64, 4) = e
       /\ Bit(raw[3], 128) = (IF e = 2 THEN 1 ELSE 0) /\ Bit(raw[3], 64) = (IF e = 1 THEN 1 ELSE 0)
  BY <1>8, <1>13, LastMasked
<1> DEFINE time == SubSeq(regs, 2, 3)
<1>16. time[1] = Uint8ToBcd(minute) /\ time[2] = Uint8ToBcd(hour)
  BY <1>6
<1> HIDE DEF time
<1>17. /\ q = time[1] <=> i = minute
       /\ r = time[2] <=> h = hour
  <2>1. i \in 0..99 /\ h \in 0..99 /\ minute \in 0..99 /\ hour \in 0..99
    BY <1>3, <1>5
  <2> QED
    BY <2>1, <1>10, <1>11, <1>16, Small
<1>18. /\ flags # 4 => (x = regs[5])
       /\ flags = 4 => (x = regs[4] <=> weekday # 7) /\ regs[4] = weekday
  <2>1. CASE flags # 4
    <3>1. o = n /\ regs[5] = Uint8ToBcd(n)
      BY <1>3, <1>6, <2>1
    <3> QED
      BY <2>1, <3>1, <1>12
  <2>2. CASE flags = 4
    <3>1. o = (days + 6) % 7 /\ regs[4] = weekday
      BY <1>3, <1>6, <2>2
    <3>2. o \in 0..7
      BY <1>5, <3>1
    <3>3. x = o
      BY <1>12, <3>2, SmallBcd
    <3> QED
      BY <1>5, <1>6, <2>2, <3>1, <3>3, SameWeekday
  <2> QED
    BY <2>1, <2>2
<1>19. Fires(raw, time) <=> /\ c = 1 \/ i = minute
                            /\ d = 1 \/ h = hour
                            /\ e = 2 \/ x = IF e = 1 THEN regs[4] ELSE regs[5]
  <2>1. Len(raw) = 3
    BY <1>13
  <2>2. Fires(raw, time) <=> /\ Bit(raw[1], 128) = 1 \/ raw[1] % 128 = time[1]
                             /\ Bit(raw[2], 128) = 1 \/ raw[2] % 128 = time[2]
                             /\ \/ Bit(raw[3], 128) = 1
                                \/ raw[3] % 64 = IF Bit(raw[3], 64) = 1 THEN regs[4] ELSE regs[5]
    <3>1. \A k : k \in 1..(3 - 1) <=> k = 1 \/ k = 2
      OBVIOUS
    <3> QED
      BY <2>1, <3>1 DEF Fires
  <2> QED
    BY <1>8, <1>14, <1>15, <1>17, <2>2
<1>20. /\ (t \div 60) % 60 = (seconds \div 60) % 60 <=> i = minute
       /\ t \div 60 = seconds \div 60 <=> h = hour /\ i = minute
  BY <1>1, <1>3, <1>6, TimesEqual
<1> DEFINE tells == CASE flags = 11 -> TRUE
                      [] flags = 10 -> (t \div 60) % 60 = (seconds \div 60) % 60
                      [] flags = 4  -> t \div 60 = seconds \div 60 /\ regs[4] # 7
                      [] OTHER      -> t \div 60 = seconds \div 60
<1>21. Fires(raw, time) <=> tells
  <2>1. CASE flags = 0
    <3>1. c = 0 /\ d = 0 /\ e = 0 /\ flags # 4
      BY <1>7, <2>1 DEF TwoBits
    <3>2. Fires(raw, time) <=> t \div 60 = seconds \div 60
      BY <1>18, <1>19, <1>20, <3>1
    <3>3. flags # 11 /\ flags # 10 /\ flags # 4
      BY <2>1
    <3> QED
      BY <3>2, <3>3
  <2>2. CASE flags = 11
    <3>1. c = 1 /\ d = 1 /\ e = 2
      BY <1>7, <2>2 DEF TwoBits
    <3>2. Fires(raw, time)
      BY <1>19, <3>1
    <3>3. flags # 10 /\ flags # 4
      BY <2>2
    <3> QED
      BY <2>2, <3>2, <3>3
  <2>3. CASE flags = 10
    <3>1. c = 0 /\ d = 1 /\ e = 2
      BY <1>7, <2>3 DEF TwoBits
    <3>2. Fires(raw, time) <=> (t \div 60) % 60 = (seconds \div 60) % 60
      BY <1>19, <1>20, <3>1
    <3>3. flags # 11 /\ flags # 4
      BY <2>3
    <3> QED
      BY <2>3, <3>2, <3>3
  <2>4. CASE flags = 8
    <3>1. c = 0 /\ d = 0 /\ e = 2
      BY <1>7, <2>4 DEF TwoBits
    <3>2. Fires(raw, time) <=> t \div 60 = seconds \div 60
      BY <1>19, <1>20, <3>1
    <3>3. flags # 11 /\ flags # 10 /\ flags # 4
      BY <2>4
    <3> QED
      BY <3>2, <3>3
  <2>5. CASE flags = 4
    <3>1. c = 0 /\ d = 0 /\ e = 1
      BY <1>7, <2>5 DEF TwoBits
    <3>2. Fires(raw, time) <=> t \div 60 = seconds \div 60 /\ regs[4] # 7
      BY <1>18, <1>19, <1>20, <2>5, <3>1
    <3>3. flags # 11 /\ flags # 10
      BY <2>5
    <3> QED
      BY <2>5, <3>2, <3>3
  <2> QED
    BY <2>1, <2>2, <2>3, <2>4, <2>5 DEF TwoControls
<1>22. ASSUME t < 72000 PROVE GetAlarmTwo(raw) = [f \in DOMAIN a \ {"second"} |-> a[f]]
  <2>1. BcdToUint8(q) = i /\ BcdToUint8(x) = o
    <3>1. i \in 0..99 /\ o \in 0..99
      BY <1>3
    <3> QED
      BY <3>1, <1>10, <1>12, ReadAgain
  <2>2. BcdToBin24Hour(r) = h
    <3>1. ~(h >= 20)
      BY <1>3, <1>22
    <3> QED
      BY <1>3, <1>11, <3>1, HoursAgain
  <2>3. GetAlarmTwo(raw) = [flags |-> flags, minute |-> i, hour |-> h, dayOf |-> o]
    BY <1>8, <1>14, <1>15, <2>1, <2>2 DEF GetAlarmTwo
  <2> QED
    BY <1>4, <2>3
<1> QED
  BY <1>21, <1>22 DEF a, raw, time

\* On every such day, whatever the time an alarm is set for and the chip shows.
THEOREM AlarmsRight == Spec => []AlarmsFire
<1>1. CalendarInv => AlarmsFire
  BY OneRight, TwoRight, SMTT(60) DEF AlarmsFire
<1> QED
  BY <1>1, CalendarKept, PTL

==============================================================================
