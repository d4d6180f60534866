----------------------------- MODULE RtcDateTime -----------------------------
(***************************************************************************)
(* RtcDateTime.cpp and RtcUtility.cpp of the Rtc library: dates since      *)
(* 2000, with a leap day in every fourth year, and the two decimal digits  *)
(* the chips keep in a byte.                                               *)
(* A count of seconds (uint32_t) is kept as its days and the seconds of    *)
(* the last day.                                                           *)
(***************************************************************************)
EXTENDS Integers, Sequences

Byte(n) == n % 256
Word(n) == n % 65536

\* Bits k..k+w-1 of a byte, as (byte >> k) & (2^w - 1), for w bits worth p = 2^k.
Bits(byte, p, size) == (byte \div p) % size
Bit(byte, p) == Bits(byte, p, 2)

----------------------------------------------------------------------------
(* RtcUtility.cpp                                                          *)

BcdToUint8(val) == Byte(val - 6 * (val \div 16))

Uint8ToBcd(val) == Byte(val + 6 * (val \div 10))

\* Bit 5 is taken for the flag of the 12 hour mode (the chips keep it in bit 6; in
\* 24 hour mode bit 5 belongs to the hours from 20 on), bit 4 for that of p.m.
BcdToBin24Hour(bcdHour) ==
  IF Bit(bcdHour, 32) = 1
  THEN BcdToUint8(bcdHour % 32) + 12 * Bit(bcdHour, 16)
  ELSE BcdToUint8(bcdHour)

----------------------------------------------------------------------------
(* RtcDateTime.cpp                                                         *)

c_daysInMonth == <<31, 28, 31, 30, 31, 30, 31, 31, 30, 31, 30, 31>>

Dates == [year : 0..255, month : 0..255, day : 0..255,
          hour : 0..255, minute : 0..255, second : 0..255]

LeapDays(year) == IF year % 4 = 0 THEN 1 ELSE 0

YearLength(year) == 365 + LeapDays(year)

\* The loop over the years: from a year, counted from 2000, and the days left then,
\* to the one they end in.
YearStates == [year : Nat, days : Nat]

YearLoop[at \in YearStates] ==
  IF at.days < YearLength(at.year) THEN at
  ELSE YearLoop[[year |-> at.year + 1, days |-> at.days - YearLength(at.year)]]

DaysPerMonth(month, leapDays) == c_daysInMonth[month] + IF month = 2 THEN leapDays ELSE 0

\* The loop over the months.  The days of a year end in December at the latest.
MonthStates == [month : 1..12, days : Nat, leapDays : {0, 1}]

MonthLoop[at \in MonthStates] ==
  IF at.month = 12 \/ at.days < DaysPerMonth(at.month, at.leapDays) THEN at
  ELSE MonthLoop[[month |-> at.month + 1, days |-> at.days - DaysPerMonth(at.month, at.leapDays),
                  leapDays |-> at.leapDays]]

\* RtcDateTime(uint32_t secondsFrom2000)
FromSeconds(days, seconds) ==
  LET y == YearLoop[[year |-> 0, days |-> days]]
      m == MonthLoop[[month |-> 1, days |-> y.days, leapDays |-> LeapDays(y.year)]]
  IN  [year |-> Byte(y.year), month |-> m.month, day |-> m.days + 1,
       hour |-> seconds \div 3600, minute |-> (seconds \div 60) % 60, second |-> seconds % 60]

\* StringToUint8(): at most two digits are read, leading zeros and blanks skipped.
StringToUint8(tens, units) == Byte(10 * tens + units)

\* RtcDateTime(date, time), by the letters of the month that it looks at.
MonthOf(name) ==
  CASE name[1] = "J" -> (IF name[2] = "a" THEN 1 ELSE IF name[3] = "n" THEN 6 ELSE 7)
    [] name[1] = "F" -> 2
    [] name[1] = "A" -> (IF name[2] = "p" THEN 4 ELSE 8)
    [] name[1] = "M" -> (IF name[3] = "r" THEN 3 ELSE 5)
    [] name[1] = "S" -> 9
    [] name[1] = "O" -> 10
    [] name[1] = "N" -> 11
    [] name[1] = "D" -> 12

FromStrings(name, text) ==
  [year |-> StringToUint8(text.year[1], text.year[2]), month |-> MonthOf(name),
   day    |-> StringToUint8(text.day[1], text.day[2]),
   hour   |-> StringToUint8(text.hour[1], text.hour[2]),
   minute |-> StringToUint8(text.minute[1], text.minute[2]),
   second |-> StringToUint8(text.second[1], text.second[2])]

DaysBefore[month \in 1..12] ==
  IF month = 1 THEN 0 ELSE DaysBefore[month - 1] + c_daysInMonth[month - 1]

\* Seeded fault: the leap day is counted from February on.
DaysSinceFirstOfYear2000_February(date) ==
  Word(date.day + DaysBefore[date.month] + (IF date.month > 1 THEN LeapDays(date.year) ELSE 0)
       + 365 * date.year + (date.year + 3) \div 4 - 1)

DaysSinceFirstOfYear2000(date) ==
  Word(date.day + DaysBefore[date.month] + (IF date.month > 2 THEN LeapDays(date.year) ELSE 0)
       + 365 * date.year + (date.year + 3) \div 4 - 1)

\* SecondsIn(), of one day.
SecondsIn(date) == (date.hour * 60 + date.minute) * 60 + date.second

\* TotalSeconds(), as days and seconds.
TotalSeconds(date) == <<DaysSinceFirstOfYear2000(date), SecondsIn(date)>>

\* Jan 1, 2000 is a Saturday, i.e. returns 6.
DayOfWeek(date) == (DaysSinceFirstOfYear2000(date) + 6) % 7
=============================================================================
