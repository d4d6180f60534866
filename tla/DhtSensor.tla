----------------------------- MODULE DhtSensor -----------------------------
(***************************************************************************)
(* The driver DHT.cpp of a humidity and temperature sensor, and the sketch *)
(* esp_mqtt_dht that asks it: both remember when they last asked and keep  *)
(* what they got for two seconds.                                          *)
(* What was measured is a model value; "garbage" is what a reading that    *)
(* failed leaves in data[], "nan" and "zero" are what the sketch's         *)
(* variables hold after a failure and before the first reading.            *)
(* Time is counted so that Interval is two seconds; one reading, or the    *)
(* moment between two looks at millis(), takes at most one unit of it.     *)
(***************************************************************************)
EXTENDS Sketch

CONSTANTS
  Interval,     (* 2000 ms, in the driver and in the sketch                  *)
  Readings      (* what the sensor may measure                               *)

ASSUME DhtAssumption ==
  /\ Interval \in Nat \ {0, 1}
  /\ "garbage" \notin Readings /\ "nan" \notin Readings /\ "zero" \notin Readings

VARIABLES
  data,         (* data[] of the driver                                      *)
  lastRead,     (* time since _lastreadtime                                  *)
  firstreading,
  previous,     (* time since previousMillis                                 *)
  humidity, temp_f,
  failed,       (* history: the last transaction with the sensor failed      *)
  age           (* history: time since the transaction humidity comes from   *)

driver == <<data, lastRead, firstreading, failed>>
dht    == <<driver, previous, humidity, temp_f, age>>

MaxAge == 2 * Interval + 1     (* bound on lastRead and age *)

Values == Readings \cup {"garbage", "nan", "zero"}

DhtTypeOK ==
  /\ data \in Readings \cup {"garbage"} /\ firstreading \in BOOLEAN /\ failed \in BOOLEAN
  /\ lastRead \in 0..MaxAge /\ previous \in 0..Interval
  /\ humidity \in Values /\ temp_f \in Values /\ age \in 0..MaxAge

\* The globals; _lastreadtime and previousMillis are 0, as millis() is.
DhtInit ==
  /\ data = "garbage" /\ lastRead = 0 /\ firstreading = TRUE /\ failed = FALSE
  /\ previous = 0 /\ humidity = "zero" /\ temp_f = "zero" /\ age = 0

\* The globals are lost with the power.
DhtLosesPower ==
  /\ data' = "garbage" /\ lastRead' = 0 /\ firstreading' = TRUE /\ failed' = FALSE
  /\ previous' = 0 /\ humidity' = "zero" /\ temp_f' = "zero" /\ age' = 0

\* gettemperature(): within the interval the old values are reported.
AnswersOldReading ==
  \E c \in DhtCommands :
    HasDht /\ previous < Interval /\ Serves(c) /\ UNCHANGED dht

StartsReading ==
  \E c \in DhtCommands :
    /\ HasDht /\ previous >= Interval
    /\ Starts(c, "humidity")
    /\ previous' = 0
    /\ UNCHANGED <<driver, humidity, temp_f, age>>

\* Seeded fault: the time of the last reading is not looked at.
Cached_ForEver == ~firstreading

\* read(): within the interval what data[] holds counts as a success.
Cached == ~firstreading /\ lastRead < Interval

\* Seeded fault: the checksum is not looked at.
Read_Unchecked(result) ==
  IF Cached THEN result = data /\ UNCHANGED driver
  ELSE /\ firstreading' = FALSE /\ lastRead' = 0 /\ failed' = FALSE
       /\ result \in Readings \cup {"garbage"} /\ data' = result

\* One transaction with the sensor: forty bits and their checksum are right, or
\* data[] holds the zeros and bits of a failure.
Read(result) ==
  IF Cached THEN result = data /\ UNCHANGED driver
  ELSE /\ firstreading' = FALSE /\ lastRead' = 0
       /\ \/ result \in Readings /\ data' = result /\ failed' = FALSE
          \/ result = "nan" /\ data' = "garbage" /\ failed' = TRUE

readHumidity ==
  /\ At("humidity")
  /\ \E result \in Values : Read(result) /\ humidity' = result
  /\ age' = IF Cached /\ humidity' \in Readings THEN lastRead ELSE 0
  /\ GoTo("temperature")
  /\ UNCHANGED <<previous, temp_f, command>>

\* Then the command is answered with what the variables hold, whatever it is.
readTemperature ==
  /\ At("temperature")
  /\ \E result \in Values : Read(result) /\ temp_f' = result
  /\ Replies
  /\ UNCHANGED <<previous, humidity, age>>

DhtTicks ==
  /\ lastRead' = IF lastRead = MaxAge THEN MaxAge ELSE lastRead + 1
  /\ previous' = IF previous = Interval THEN Interval ELSE previous + 1
  /\ age' = IF age = MaxAge \/ humidity \notin Readings THEN age ELSE age + 1
  /\ UNCHANGED <<data, firstreading, failed, humidity, temp_f>>

----------------------------------------------------------------------------
\* Where garbage is told for a temperature, the last transaction with the sensor
\* has failed: it never outlives a reading that succeeds.  (A humidity may, when
\* the cache expires between the two calls of one reading.)
GarbageMeansFailure == At("loop") /\ HasDht /\ temp_f = "garbage" => failed

\* An answer is never older than twice the interval: a reading taken from the
\* cache at its last moment is kept for one more interval.
FreshEnough ==
  [][(AnswersOldReading \/ readTemperature) /\ humidity \in Readings
       => age <= 2 * Interval]_<<thread, dht>>
=============================================================================
