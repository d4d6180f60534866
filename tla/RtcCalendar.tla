----------------------------- MODULE RtcCalendar -----------------------------
(***************************************************************************)
(* A running clock chip, set by SetDateTime() and read by GetDateTime(),   *)
(* and the two alarms of the DS3231, as registers.                         *)
(* The chip is the reference for the library's arithmetic: it counts days  *)
(* by carrying from one register to the next, the library by division.     *)
(***************************************************************************)
EXTENDS RtcDateTime

CONSTANTS
  Days,         (* the days, since 2000, that are looked at                  *)
  DayTimes      (* the seconds of a day at which the chip is read            *)

\* The days whose seconds a uint32_t counts.
ASSUME CalendarAssumption ==
  /\ (\A d \in Days : d \in Nat /\ d < 49710) /\ 0 \in Days
  /\ (\A t \in DayTimes : t \in Nat /\ t < 86400) /\ 0 \in DayTimes

VARIABLES
  days, seconds,    (* the true time since 2000                              *)
  regs,             (* registers 0 to 6: second, minute, hour, weekday, day,
                       month and year                                        *)
  century           (* bit 7 of the month in a DS3231                        *)

calendar == <<days, seconds, regs, century>>

\* What SetDateTime() writes.  The bits it keeps beside the seconds are those of
\* RtcDS1307 and RtcDS3231.
SetDateTime(date) ==
  <<Uint8ToBcd(date.second), Uint8ToBcd(date.minute), Uint8ToBcd(date.hour),
    Uint8ToBcd(DayOfWeek(date)),
    Uint8ToBcd(date.day), Uint8ToBcd(date.month), Uint8ToBcd(date.year)>>

\* What GetDateTime() makes of the registers; only the DS3231 looks at century.
GetDateTime ==
  [second |-> BcdToUint8(regs[1] % 128), minute |-> BcdToUint8(regs[2]),
   hour |-> BcdToBin24Hour(regs[3]), day |-> BcdToUint8(regs[5]),
   month |-> BcdToUint8(regs[6]), year |-> BcdToUint8(regs[7]) + IF century THEN 100 ELSE 0]

CalendarTypeOK ==
  /\ days \in Days /\ seconds \in DayTimes
  /\ Len(regs) = 7 /\ \A i \in 1..7 : regs[i] \in 0..153
  /\ century \in BOOLEAN

\* The clock has just been set, on any day before the century ends.
CalendarInit ==
  /\ days \in Days /\ days < 36525 /\ seconds = 0
  /\ regs = SetDateTime(FromSeconds(days, seconds))
  /\ century = FALSE

----------------------------------------------------------------------------
(* The chip                                                                *)

MonthLength(month, year) ==
  IF month = 2 THEN IF year % 4 = 0 THEN 29 ELSE 28
  ELSE IF month \in {4, 6, 9, 11} THEN 30 ELSE 31

\* It counts the days of the week from 1 to 7, whatever they stand for.
NextWeekday(weekday) == IF weekday = 7 THEN 1 ELSE weekday + 1

Later ==
  \E t \in DayTimes :
    /\ t > seconds
    /\ seconds' = t
    /\ regs' = [regs EXCEPT ![1] = Uint8ToBcd(t % 60), ![2] = Uint8ToBcd((t \div 60) % 60),
                            ![3] = Uint8ToBcd(t \div 3600)]
    /\ UNCHANGED <<days, century>>

Midnight ==
  LET day == BcdToUint8(regs[5])  month == BcdToUint8(regs[6])  year == BcdToUint8(regs[7])
      newMonth == day >= MonthLength(month, year)
      newYear  == newMonth /\ month = 12
  IN  /\ days + 1 \in Days
      /\ days' = days + 1 /\ seconds' = 0
      /\ regs' = <<0, 0, 0, NextWeekday(regs[4]),
                   Uint8ToBcd(IF newMonth THEN 1 ELSE day + 1),
                   Uint8ToBcd(IF newYear THEN 1 ELSE IF newMonth THEN month + 1 ELSE month),
                   Uint8ToBcd(IF newYear THEN (year + 1) % 100 ELSE year)>>
      /\ century' = (century # (newYear /\ year = 99))

CalendarNext == Later \/ Midnight

----------------------------------------------------------------------------
(* The alarms of the DS3231                                                *)

\* Seeded fault: the flags of day and date keep their places.
SetAlarmOne_NotShifted(a) ==
  <<Uint8ToBcd(a.second) + 128 * Bit(a.flags, 1), Uint8ToBcd(a.minute) + 128 * Bit(a.flags, 2),
    Uint8ToBcd(a.hour) + 128 * Bit(a.flags, 4), Uint8ToBcd(a.dayOf) + 8 * Bits(a.flags, 8, 4)>>

SetAlarmOne(a) ==
  <<Uint8ToBcd(a.second) + 128 * Bit(a.flags, 1), Uint8ToBcd(a.minute) + 128 * Bit(a.flags, 2),
    Uint8ToBcd(a.hour) + 128 * Bit(a.flags, 4), Uint8ToBcd(a.dayOf) + 64 * Bits(a.flags, 8, 4)>>

SetAlarmTwo(a) ==
  <<Uint8ToBcd(a.minute) + 128 * Bit(a.flags, 1), Uint8ToBcd(a.hour) + 128 * Bit(a.flags, 2),
    Uint8ToBcd(a.dayOf) + 64 * Bits(a.flags, 4, 4)>>

GetAlarmOne(raw) ==
  [flags |-> Bit(raw[1], 128) + 2 * Bit(raw[2], 128) + 4 * Bit(raw[3], 128)
             + 8 * Bits(raw[4], 64, 4),
   second |-> BcdToUint8(raw[1] % 128), minute |-> BcdToUint8(raw[2] % 128),
   hour |-> BcdToBin24Hour(raw[3] % 128), dayOf |-> BcdToUint8(raw[4] % 64)]

GetAlarmTwo(raw) ==
  [flags |-> Bit(raw[1], 128) + 2 * Bit(raw[2], 128) + 4 * Bits(raw[3], 64, 4),
   minute |-> BcdToUint8(raw[1] % 128), hour |-> BcdToBin24Hour(raw[2] % 128),
   dayOf |-> BcdToUint8(raw[3] % 64)]

\* DS3231AlarmOneControl and DS3231AlarmTwoControl; those by a day of the week.
OneControls == {0, 23, 22, 20, 16, 8}
TwoControls == {0, 11, 10, 8, 4}

\* The chip compares the fields that are not masked: one register of an alarm with
\* one of the time, the last with the weekday or the day.
Fires(raw, time) ==
  LET n == Len(raw)
      last == IF Bit(raw[n], 64) = 1 THEN regs[4] ELSE regs[5]
  IN  /\ \A i \in 1..(n - 1) : Bit(raw[i], 128) = 1 \/ raw[i] % 128 = time[i]
      /\ Bit(raw[n], 128) = 1 \/ raw[n] % 64 = last

\* An alarm for a time of this day, by the day of the month or of the week.
AlarmAt(time, flags, byWeekday) ==
  LET now == FromSeconds(days, time)
  IN  [flags |-> flags, dayOf |-> IF byWeekday THEN DayOfWeek(now) ELSE now.day,
       hour |-> now.hour, minute |-> now.minute, second |-> now.second]

----------------------------------------------------------------------------
Evening == seconds >= 72000

\* Until eight in the evening the library reads from the chip the date that its
\* own arithmetic gives for the time since 2000; after that the hours 20 to 23 come
\* out as 0 to 3.
ReadsRight ==
  LET now == FromSeconds(days, seconds)
  IN  GetDateTime = IF Evening THEN [now EXCEPT !.hour = @ - 20] ELSE now

\* "24 hour mode only": what is set is read again, at every hour.
ReadsWhatWasSet == GetDateTime = FromSeconds(days, seconds)

\* The count of seconds of the date that was read is the time since 2000, and its
\* weekday is the chip's, which counts the Sundays after the first one as 7.
CountsRight ==
  LET now == GetDateTime
  IN  /\ TotalSeconds(now) = <<days, IF Evening THEN seconds - 72000 ELSE seconds>>
      /\ DayOfWeek(now) = BcdToUint8(regs[4]) % 7

Names == << <<"J", "a", "n">>, <<"F", "e", "b">>, <<"M", "a", "r">>, <<"A", "p", "r">>,
            <<"M", "a", "y">>, <<"J", "u", "n">>, <<"J", "u", "l">>, <<"A", "u", "g">>,
            <<"S", "e", "p">>, <<"O", "c", "t">>, <<"N", "o", "v">>, <<"D", "e", "c">> >>

Digits(n) == <<(n % 100) \div 10, n % 10>>

\* In this century the compiler's __DATE__ and __TIME__ of a moment give its date.
CompiledIsRight ==
  LET now == FromSeconds(days, seconds)
  IN  days < 36525 =>
        FromStrings(Names[now.month], [f \in DOMAIN now \ {"month"} |-> Digits(now[f])]) = now

\* Every way the library makes a date gives the same one: from registers the chip
\* has counted on, from a number of seconds, and from the compiler's text; and
\* every count it makes of a date is the true one.
DatesAreRight == CalendarTypeOK /\ ReadsRight /\ CountsRight /\ CompiledIsRight

\* An alarm fires at the times its control tells, and is read as it was set before
\* eight in the evening; but one for a Sunday never fires by the day of the week
\* once the chip counts that day as 7.
AlarmsFire ==
  \A t \in DayTimes :
    /\ \A flags \in OneControls :
         LET a == AlarmAt(t, flags, flags = 8)  raw == SetAlarmOne(a)
         IN  /\ Fires(raw, SubSeq(regs, 1, 3)) <=>
                  CASE flags = 23 -> TRUE
                    [] flags = 22 -> t % 60 = seconds % 60
                    [] flags = 20 -> t % 3600 = seconds % 3600
                    [] flags = 8  -> t = seconds /\ regs[4] # 7
                    [] OTHER      -> t = seconds
             /\ t < 72000 => GetAlarmOne(raw) = a
    /\ \A flags \in TwoControls :
         LET a == AlarmAt(t, flags, flags = 4)  raw == SetAlarmTwo(a)
         IN  /\ Fires(raw, SubSeq(regs, 2, 3)) <=>
                  CASE flags = 11 -> TRUE
                    [] flags = 10 -> (t \div 60) % 60 = (seconds \div 60) % 60
                    [] flags = 4  -> t \div 60 = seconds \div 60 /\ regs[4] # 7
                    [] OTHER      -> t \div 60 = seconds \div 60
             /\ t < 72000 =>
                  GetAlarmTwo(raw) = [f \in DOMAIN a \ {"second"} |-> a[f]]
=============================================================================
