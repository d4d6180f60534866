-------------------------------- MODULE MCRtc --------------------------------
(* Instances of Rtc for TLC. *)
EXTENDS Rtc

\* Two leap years and those between and after them, and the turn of the century.
MCDays == 0..1500 \cup 36450..36600

\* Midnight, a time of all different numbers, and both ends of the evening.
MCDayTimes == {0, 45296, 72000, 86399}

MCFrequencies == {{}, {"RS1", "RS2"}}
=============================================================================
