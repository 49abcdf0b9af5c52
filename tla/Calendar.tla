------------------------------ MODULE Calendar ------------------------------
(***************************************************************************)
(* The dates of CoreEngine/CivilTime and the registers of the real-time    *)
(* clock chip (CoreEngine/Ds1307Codec).  A time is a day since 1970-01-01  *)
(* and a second of that day, together below 2^32 seconds; a register is    *)
(* its two decimal digits and the flags the chip keeps beside them.  The   *)
(* specification takes every day of a span, and the step to the next.      *)
(***************************************************************************)
EXTENDS Integers

CONSTANTS FirstDay, LastDay,   \* bounds of the walk
          Seconds              \* seconds of the day at which the chip is read and written

CalendarAssumption ==
  /\ LastDay \in Nat /\ LastDay <= 49710      \* a time has 32 bits of seconds
  /\ FirstDay \in 0..LastDay
  /\ \A s \in Seconds : s \in Nat /\ s < 86400

VARIABLE day

-----------------------------------------------------------------------------
(* CivilTime.  Of a 400 year era, March comes first, so that a leap day is *)
(* the last of its year.                                                   *)

DaysFromCivil(c) ==
  LET y   == IF c.month <= 2 THEN c.year - 1 ELSE c.year
      yoe == y % 400
      doy == (153 * (c.month + (IF c.month > 2 THEN -3 ELSE 9)) + 2) \div 5 + c.day - 1
  IN (y \div 400) * 146097 + yoe * 365 + yoe \div 4 - yoe \div 100 + doy - 719468

YearOfEra(doe) == (doe - doe \div 1460 + doe \div 36524 - doe \div 146096) \div 365

CivilFromDays(days) ==
  LET z   == days + 719468
      doe == z % 146097
      yoe == YearOfEra(doe)
      doy == doe - (365 * yoe + yoe \div 4 - yoe \div 100)
      mp  == (5 * doy + 2) \div 153
      m   == mp + (IF mp < 10 THEN 3 ELSE -9)
  IN [year |-> yoe + (z \div 146097) * 400 + (IF m <= 2 THEN 1 ELSE 0), month |-> m,
      day |-> doy - (153 * mp + 2) \div 5 + 1]

IsLeapYear(y) == y % 4 = 0 /\ (y % 100 # 0 \/ y % 400 = 0)

DaysInMonth(y, m) ==
  IF m = 2 /\ IsLeapYear(y) THEN 29 ELSE <<31, 28, 31, 30, 31, 30, 31, 31, 30, 31, 30, 31>>[m]

IsValidCivil(c) ==
  /\ 1970 <= c.year /\ c.year <= 2105 /\ c.month \in 1..12
  /\ c.day \in 1..DaysInMonth(c.year, c.month)
  /\ c.hour <= 23 /\ c.minute <= 59 /\ c.second <= 59

CivilToEpoch(c) == [day |-> DaysFromCivil(c), second |-> c.hour * 3600 + c.minute * 60 + c.second]

Weekday(days) == IF (days + 4) % 7 = 0 THEN 7 ELSE (days + 4) % 7

EpochToCivil(t) ==
  LET d == CivilFromDays(t.day)
  IN [year |-> d.year, month |-> d.month, day |-> d.day, weekday |-> Weekday(t.day),
      hour |-> t.second \div 3600, minute |-> (t.second % 3600) \div 60, second |-> t.second % 60]

-----------------------------------------------------------------------------
(* Ds1307Codec.  A digit of a register may be anything its bits can say. *)

MinYear == 2024   \* RTC_MIN_VALID_YEAR
MaxYear == 2099   \* RTC_MAX_VALID_YEAR

\* Four bits hold the tens.
BinToBcd(v) == [hi |-> (v \div 10) % 16, lo |-> v % 10]
IsBcd(r) == r.hi <= 9 /\ r.lo <= 9
BcdToBin(r) == r.hi * 10 + r.lo

\* binToBcd takes the year's offset as a byte; a year before 2000 wraps.
Byte(v) == v % 256

Encode(t) ==
  LET c == EpochToCivil(t)
  IN [halted |-> FALSE, half |-> FALSE, pm |-> FALSE,
      second |-> BinToBcd(c.second), minute |-> BinToBcd(c.minute), hour |-> BinToBcd(c.hour),
      weekday |-> c.weekday, day |-> BinToBcd(c.day), month |-> BinToBcd(c.month),
      year |-> BinToBcd(Byte(c.year - 2000))]

\* The hour of a register in the 12 hour mode.
\* Mistake: twelve in the morning is noon.
HourOfHalfNoon(h, pm) == IF pm THEN h + 12 ELSE h

HourOfHalf(h, pm) == (IF h = 12 THEN 0 ELSE h) + (IF pm THEN 12 ELSE 0)

DecodedFields(r) ==
  [year |-> 2000 + BcdToBin(r.year), month |-> BcdToBin(r.month), day |-> BcdToBin(r.day),
   hour |-> IF r.half THEN HourOfHalf(BcdToBin(r.hour), r.pm) ELSE BcdToBin(r.hour),
   minute |-> BcdToBin(r.minute), second |-> BcdToBin(r.second)]

Decode(r) ==
  CASE r.halted -> [status |-> "ClockHalted"]
    [] ~r.halted /\ (\E f \in {"second", "minute", "hour", "day", "month", "year"} : ~IsBcd(r[f])) ->
         [status |-> "BadBcd"]
    [] OTHER ->
         LET c == DecodedFields(r)
             wrongHalf == r.half /\ BcdToBin(r.hour) \notin 1..12
         IN IF wrongHalf \/ ~IsValidCivil(c) THEN [status |-> "BadField"]
            ELSE IF c.year \notin MinYear..MaxYear THEN [status |-> "ImplausibleYear"]
            ELSE [status |-> "Ok", time |-> CivilToEpoch(c)]

-----------------------------------------------------------------------------

Init == day \in FirstDay..LastDay

Next == day < LastDay /\ day' = day + 1

Spec == Init /\ [][Next]_day

-----------------------------------------------------------------------------
(* Properties. *)

Civil == CivilFromDays(day)

\* The Gregorian calendar: the day after a date.
Tomorrow(c) ==
  CASE c.day < DaysInMonth(c.year, c.month) -> [c EXCEPT !.day = @ + 1]
    [] c.day = DaysInMonth(c.year, c.month) /\ c.month < 12 -> [year |-> c.year, month |-> c.month + 1, day |-> 1]
    [] OTHER -> [year |-> c.year + 1, month |-> 1, day |-> 1]

(* The closed formulas of CivilTime walk through the Gregorian calendar day *)
(* by day, leap years and centuries included, and their inverse walks back. *)
CalendarIsGregorian ==
  /\ CivilFromDays(day + 1) = Tomorrow(Civil)
  /\ Weekday(day + 1) = (Weekday(day) % 7) + 1
  /\ DaysFromCivil(Civil) = day

\* What a chip that was set to the 12 hour mode would hold instead.
InHalfDays(r) ==
  LET h == BcdToBin(r.hour)
  IN [r EXCEPT !.half = TRUE, !.pm = h >= 12,
               !.hour = BinToBcd(IF h % 12 = 0 THEN 12 ELSE h % 12)]

(* A time written to the chip is read back as it was from 2024 to 2099, in  *)
(* either mode of the hours; one of another year from 2000 on is refused,   *)
(* and so are registers that are no date (encodeDs1307, decodeDs1307).      *)
ChipKeepsTheTime ==
  \A s \in Seconds :
    LET t == [day |-> day, second |-> s]
        r == Encode(t)
    IN IF Civil.year \in MinYear..MaxYear
       THEN /\ Decode(r) = [status |-> "Ok", time |-> t]
            /\ Decode(InHalfDays(r)) = [status |-> "Ok", time |-> t]
            /\ Decode([r EXCEPT !.day = BinToBcd(DaysInMonth(Civil.year, Civil.month) + 1)]).status = "BadField"
       ELSE Civil.year >= 2000 => Decode(r).status # "Ok"
=============================================================================
