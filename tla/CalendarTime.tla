---------------------------- MODULE CalendarTime ----------------------------
(***************************************************************************)
(* time.rs gives every log line its date, by the arithmetic of musl's      *)
(* __secs_to_tm.c.  It is run beside a calendar on the wall that counts    *)
(* days one by one and knows only how long each month is.  The clock can   *)
(* stand before 1970, and can be set forward or back by years.             *)
(*                                                                         *)
(* Units smaller than a day are CONSTANTS, so that TLC meets all of a day  *)
(* in a few steps; the arithmetic of days is the code's own.               *)
(***************************************************************************)
EXTENDS Integers, Sequences

CONSTANTS HoursPerDay, MinutesPerHour, SecondsPerMinute, NanosPerSecond,
          FirstYear, LastYear,  \* bounds of the run: the clock stays between them
          Watched               \* years it runs through; others it is set past

ASSUME UnitsAssumption ==
  /\ HoursPerDay \in Nat \ {0} /\ MinutesPerHour \in Nat \ {0}
  /\ SecondsPerMinute \in Nat \ {0} /\ NanosPerSecond \in Nat \ {0}
  /\ FirstYear \in Int /\ LastYear \in Int
  /\ FirstYear < 1970 /\ 1970 < LastYear
  /\ Watched \subseteq FirstYear..(LastYear - 1)

SECS_PER_DAY == HoursPerDay * MinutesPerHour * SecondsPerMinute

VARIABLES now,   \* SystemTime::now(), in nanoseconds since UNIX_EPOCH
          date   \* the same instant by the calendar on the wall

calendarVars == <<now, date>>

-----------------------------------------------------------------------------
(* Time::from.                                                             *)

\* Division of Rust's integers, towards zero.
Quot(a, b) == IF a >= 0 THEN a \div b ELSE -((-a) \div b)
Rem(a, b)  == a - b * Quot(a, b)

\* 1 March 2000, in days since the epoch.
LEAPOCH        == 11017
DAYS_PER_400Y  == 365 * 400 + 97
DAYS_PER_100Y  == 365 * 100 + 24
DAYS_PER_4Y    == 365 * 4 + 1
DAYS_IN_MONTH  == <<31, 30, 31, 30, 31, 31, 30, 31, 30, 31, 31, 29>>

\* Before[m]: days of the year, which begins in March, before its month m.
Before[m \in 0..12] == IF m = 0 THEN 0 ELSE Before[m - 1] + DAYS_IN_MONTH[m]

\* Seconds and nanoseconds.  Before the epoch duration_since is an Err, that
\* holds the absolute value.
SinceEpoch(t) ==
  IF t >= 0 THEN <<t \div NanosPerSecond, t % NanosPerSecond>>
  ELSE LET s == (-t) \div NanosPerSecond
           n == (-t) % NanosPerSecond
       IN  IF n > 0 THEN <<-s - 1, NanosPerSecond - n>> ELSE <<-s, 0>>

\* Quotient and remainder, and the correction of a negative remainder.
Floored(a, b) ==
  IF Rem(a, b) < 0 THEN <<Quot(a, b) - 1, Rem(a, b) + b>>
                   ELSE <<Quot(a, b), Rem(a, b)>>

\* Not keeping the leap day in the cycle it ends.
Cycle(days, length, most) == days \div length

\* A cycle of a longer one; the leap day at the end of the last belongs to it.
Capped(days, length, most) ==
  IF days \div length = most THEN most - 1 ELSE days \div length

\* Year and month, both from March and the month from 0, and day of the month
\* from 0, of a number of days since LEAPOCH.
Civil(days) ==
  LET qc == Floored(days, DAYS_PER_400Y)
      c  == Capped(qc[2], DAYS_PER_100Y, 4)
      r1 == qc[2] - c * DAYS_PER_100Y
      q  == Capped(r1, DAYS_PER_4Y, 25)
      r2 == r1 - q * DAYS_PER_4Y
      y  == Capped(r2, 365, 4)
      r3 == r2 - y * 365
      m  == CHOOSE i \in 0..11 : Before[i] <= r3 /\ r3 < Before[i + 1]
  IN  [years |-> y + 4 * q + 100 * c + 400 * qc[1], months |-> m, days |-> r3 - Before[m]]

\* The fields that fmt writes, in its order.
From(t) ==
  LET since == SinceEpoch(t)
      day   == Floored(since[1] - LEAPOCH * SECS_PER_DAY, SECS_PER_DAY)
      civil == Civil(day[1])
      late  == civil.months >= 10    \* January and February
  IN  << civil.years + 2000 + (IF late THEN 1 ELSE 0),
         (IF late THEN civil.months - 12 ELSE civil.months) + 2,
         civil.days + 1,
         day[2] \div (MinutesPerHour * SecondsPerMinute),
         (day[2] \div SecondsPerMinute) % MinutesPerHour,
         day[2] % SecondsPerMinute,
         since[2] >>

-----------------------------------------------------------------------------
(* The calendar on the wall.                                               *)

LeapYear(y) == y % 4 = 0 /\ (y % 100 # 0 \/ y % 400 = 0)

MonthLength(y, m) ==
  CASE m = 2 -> IF LeapYear(y) THEN 29 ELSE 28
    [] m \in {4, 6, 9, 11} -> 30
    [] OTHER -> 31

\* A date is <<year, month, day, hour, minute, second, nanosecond>>.
NewYear(y) == <<y, 1, 1, 0, 0, 0, 0>>

NextDate(d) ==
  IF d[7] < NanosPerSecond - 1 THEN [d EXCEPT ![7] = @ + 1]
  ELSE IF d[6] < SecondsPerMinute - 1 THEN [d EXCEPT ![6] = @ + 1, ![7] = 0]
  ELSE IF d[5] < MinutesPerHour - 1 THEN [d EXCEPT ![5] = @ + 1, ![6] = 0, ![7] = 0]
  ELSE IF d[4] < HoursPerDay - 1 THEN <<d[1], d[2], d[3], d[4] + 1, 0, 0, 0>>
  ELSE IF d[3] < MonthLength(d[1], d[2]) THEN <<d[1], d[2], d[3] + 1, 0, 0, 0, 0>>
  ELSE IF d[2] < 12 THEN <<d[1], d[2] + 1, 1, 0, 0, 0, 0>>
  ELSE NewYear(d[1] + 1)

NanosPerYear(y) ==
  (IF LeapYear(y) THEN 366 ELSE 365) * SECS_PER_DAY * NanosPerSecond

CalendarInit == now = 0 /\ date = NewYear(1970)

Tick ==
  /\ date[1] \in Watched
  /\ now' = now + 1
  /\ date' = NextDate(date)

SetForward ==
  /\ date = NewYear(date[1]) /\ date[1] < LastYear
  /\ now' = now + NanosPerYear(date[1])
  /\ date' = NewYear(date[1] + 1)

SetBack ==
  /\ date = NewYear(date[1]) /\ date[1] > FirstYear
  /\ now' = now - NanosPerYear(date[1] - 1)
  /\ date' = NewYear(date[1] - 1)

CalendarNext == Tick \/ SetForward \/ SetBack

CalendarSpec == CalendarInit /\ [][CalendarNext]_calendarVars

-----------------------------------------------------------------------------
(* Properties.                                                             *)

\* Every field agrees with the calendar, in every year of the run and on both
\* sides of 1970; the month counts from 0, as tm_mon does.
StampIsCalendar == From(now) = [date EXCEPT ![2] = @ - 1]
=============================================================================
