------------------------------ MODULE LocalTime ------------------------------
(***************************************************************************)
(* nolocks_localtime of log.cpp, which dates every line of the module's    *)
(* log, as migrateLogRaw calls it.  One iteration of a loop is one action. *)
(*                                                                         *)
(* The seconds since the epoch are kept as a pair of a day and a second of *)
(* that day, so that dates beyond 2038 stay within TLC's integers.         *)
(***************************************************************************)
EXTENDS Integers

CONSTANTS
  Days, Seconds,  \* the instants: days since 1/1/1970, seconds of the day
  Zones           \* seconds to subtract to get the local time (timezone)

SecsHour == 3600
SecsDay  == 3600 * 24

\* migrateLogRaw passes 1 whatever the season.
dst == 1

\* The local time is not before 1970.
ASSUME TimeAssumption ==
  /\ Days \subseteq Nat /\ Seconds \subseteq 0 .. SecsDay - 1
  /\ Zones \subseteq Int
  /\ \A d \in Days, s \in Seconds, z \in Zones :
       d + (s - z + SecsHour * dst) \div SecsDay >= 0

VARIABLES
  day, second,   \* the instant, from gettimeofday
  tz,
  pc,            \* which loop is running
  days,          \* the variable of the source: days left to account for
  tm_clock,      \* tm_hour, tm_min and tm_sec
  tm_wday, tm_year, tm_yday, tm_mon, tm_mday

vars == << day, second, tz, pc, days,
           tm_clock, tm_wday, tm_year, tm_yday, tm_mon, tm_mday >>

inputVars == << day, second, tz >>
clockVars == << tm_clock, tm_wday >>

\* The local time in seconds, counted from the start of the instant's day.
LocalSecond == second - tz + SecsHour * dst

\* t / secs_day and t % secs_day.
LocalDay  == day + LocalSecond \div SecsDay
TimeOfDay == LocalSecond % SecsDay

\* Mutation: every fourth year is leap.
every_fourth_year(year) == IF year % 4 = 0 THEN 1 ELSE 0

is_leap_year(year) ==
  IF year % 4 # 0 THEN 0
  ELSE IF year % 100 # 0 THEN 1
  ELSE IF year % 400 # 0 THEN 0
  ELSE 1

DaysThisYear(year) == 365 + is_leap_year(year)

\* mdays[mon], where mon counts from 0.
mdays(year, mon) ==
  IF mon = 1 THEN 28 + is_leap_year(year)
  ELSE IF mon \in {3, 5, 8, 10} THEN 30
  ELSE 31

Init ==
  /\ day \in Days /\ second \in Seconds /\ tz \in Zones
  /\ pc = "start"
  /\ days = 0
  /\ tm_clock = [hour |-> 0, min |-> 0, sec |-> 0]
  /\ tm_wday = 0 /\ tm_year = 0 /\ tm_yday = 0 /\ tm_mon = 0 /\ tm_mday = 0

Clock ==
  /\ pc = "start"
  /\ pc' = "year"
  /\ days' = LocalDay
  /\ tm_clock' = [hour |-> TimeOfDay \div SecsHour,
                  min  |-> (TimeOfDay % SecsHour) \div 60,
                  sec  |-> (TimeOfDay % SecsHour) % 60]
  /\ tm_wday' = (LocalDay + 4) % 7
  /\ tm_year' = 1970
  /\ UNCHANGED << inputVars, tm_yday, tm_mon, tm_mday >>

NextYear ==
  /\ pc = "year"
  /\ DaysThisYear(tm_year) <= days
  /\ days' = days - DaysThisYear(tm_year)
  /\ tm_year' = tm_year + 1
  /\ UNCHANGED << pc, inputVars, clockVars, tm_yday, tm_mon, tm_mday >>

\* Mutation: 31 December counts as the next year's first day.
YearFoundEarly ==
  /\ pc = "year"
  /\ DaysThisYear(tm_year) > days
  /\ pc' = "month"
  /\ tm_yday' = days + 1
  /\ tm_mon' = 0
  /\ days' = days + 1
  /\ UNCHANGED << inputVars, clockVars, tm_year, tm_mday >>

YearFound ==
  /\ pc = "year"
  /\ DaysThisYear(tm_year) > days
  /\ pc' = "month"
  /\ tm_yday' = days
  /\ tm_mon' = 0
  /\ UNCHANGED << days, inputVars, clockVars, tm_year, tm_mday >>

NextMonth ==
  /\ pc = "month"
  /\ mdays(tm_year, tm_mon) <= days
  /\ days' = days - mdays(tm_year, tm_mon)
  /\ tm_mon' = tm_mon + 1
  /\ UNCHANGED << pc, inputVars, clockVars, tm_year, tm_yday, tm_mday >>

MonthFound ==
  /\ pc = "month"
  /\ mdays(tm_year, tm_mon) > days
  /\ pc' = "done"
  /\ tm_mday' = days + 1
  /\ tm_year' = tm_year - 1900
  /\ UNCHANGED << days, inputVars, clockVars, tm_yday, tm_mon >>

Next == Clock \/ NextYear \/ YearFound \/ NextMonth \/ MonthFound

Spec == Init /\ [][Next]_vars

-----------------------------------------------------------------------------
(* Reference: the Gregorian calendar in closed form.                       *)

\* Leap years before a year, since year 1.
LeapsBefore(y) == (y - 1) \div 4 - (y - 1) \div 100 + (y - 1) \div 400

\* Days from 1/1/1970 to 1 January of a year.
DaysToYear(y) == 365 * (y - 1970) + LeapsBefore(y) - LeapsBefore(1970)

\* Days from 1 January to the first of a month (0-based): 30 or 31 each, and
\* one or two less after February.
DaysToMonth(y, m) ==
  IF m <= 1 THEN 31 * m
  ELSE (306 * (m + 1) - 914) \div 10 + 59 + is_leap_year(y)

\* Gauss: the day of the week of 1 January, Sunday = 0.
WeekdayOfNewYear(y) ==
  (1 + 5 * ((y - 1) % 4) + 4 * ((y - 1) % 100) + 6 * ((y - 1) % 400)) % 7

-----------------------------------------------------------------------------
(* Properties.                                                             *)

\* Types, and the bound of the array mdays[12].
TypeOK ==
  /\ pc \in {"start", "year", "month", "done"}
  /\ days \in Nat
  /\ tm_mon \in 0 .. 11

\* The date is the one the calendar gives for the day: year, month, day of the
\* month, day of the year and day of the week, across century years and the ends of February.
DateIsRight ==
  pc = "done" =>
    /\ DaysToYear(tm_year + 1900) + tm_yday = LocalDay
    /\ DaysToMonth(tm_year + 1900, tm_mon) + tm_mday - 1 = tm_yday
    /\ tm_mday \in 1 .. mdays(tm_year + 1900, tm_mon)
    /\ tm_wday = (WeekdayOfNewYear(tm_year + 1900) + tm_yday) % 7
=============================================================================
