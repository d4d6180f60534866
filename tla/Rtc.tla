--------------------------------- MODULE Rtc ---------------------------------
(***************************************************************************)
(* The Rtc library, one of its parts at a time: the date in a running      *)
(* chip, the registers of a DS3231, or those of a DS1307.                  *)
(***************************************************************************)
EXTENDS RtcCalendar, RtcDS3231, RtcDS1307

VARIABLE part

vars == <<part, calendar, ds3231, ds1307>>

TypeOK ==
  /\ part \in {"calendar", "DS3231", "DS1307"}
  /\ CalendarTypeOK /\ DS3231TypeOK /\ DS1307TypeOK

\* The parts that are not looked at stay as they are at first.
NoCalendar == days = 0 /\ seconds = 0 /\ regs = SetDateTime(FromSeconds(0, 0)) /\ century = FALSE

Init ==
  /\ part \in {"calendar", "DS3231", "DS1307"}
  /\ IF part = "calendar" THEN CalendarInit ELSE NoCalendar
  /\ DS3231Init /\ DS1307Init

Next ==
  \/ part = "calendar" /\ CalendarNext /\ UNCHANGED <<part, ds3231, ds1307>>
  \/ part = "DS3231" /\ DS3231Next /\ UNCHANGED <<part, calendar, ds1307>>
  \/ part = "DS1307" /\ DS1307Next /\ UNCHANGED <<part, calendar, ds3231>>

Spec == Init /\ [][Next]_vars
=============================================================================
