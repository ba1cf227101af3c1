--------------------------- MODULE LocalTimeProofs ---------------------------
(***************************************************************************)
(* nolocks_localtime dates every instant from 1970 on as the Gregorian     *)
(* calendar does, and never reads past mdays[11].                          *)
(***************************************************************************)
EXTENDS LocalTime, TLAPS

\* What the two loops have accounted for and what is left.
CalendarInv ==
  /\ pc = "year" =>
       tm_year >= 1970 /\ DaysToYear(tm_year) + days = LocalDay
  /\ pc = "month" =>
       /\ tm_year >= 1970
       /\ tm_yday \in 0 .. DaysThisYear(tm_year) - 1
       /\ DaysToYear(tm_year) + tm_yday = LocalDay
       /\ DaysToMonth(tm_year, tm_mon) + days = tm_yday
  /\ pc = "done" =>
       /\ DaysToYear(tm_year + 1900) + tm_yday = LocalDay
       /\ DaysToMonth(tm_year + 1900, tm_mon) + tm_mday - 1 = tm_yday
       /\ tm_mday \in 1 .. mdays(tm_year + 1900, tm_mon)

\* The epoch was a Thursday.
WeekInv == pc # "start" => tm_wday = (LocalDay + 4) % 7

InputOK == day \in Days /\ second \in Seconds /\ tz \in Zones

Numbers == tm_year \in Int /\ tm_yday \in Int /\ tm_mday \in Int

IInv == InputOK /\ Numbers /\ TypeOK /\ CalendarInv

-----------------------------------------------------------------------------
(* Facts about the calendar.                                               *)

LEMMA LeapRange == ASSUME NEW y \in Int PROVE is_leap_year(y) \in 0 .. 1
BY DEF is_leap_year

\* Multiples of 4, 100 and 400: crossing a year adds its leap day.
LEMMA YearAdvances ==
  ASSUME NEW y \in Int
  PROVE  DaysToYear(y + 1) = DaysToYear(y) + DaysThisYear(y)
<1>1. y \div 4 - (y - 1) \div 4 = IF y % 4 = 0 THEN 1 ELSE 0
  OBVIOUS
<1>2. y \div 100 - (y - 1) \div 100 = IF y % 100 = 0 THEN 1 ELSE 0
  OBVIOUS
<1>3. y \div 400 - (y - 1) \div 400 = IF y % 400 = 0 THEN 1 ELSE 0
  OBVIOUS
<1>4. /\ y % 100 = 0 => y % 4 = 0
      /\ y % 400 = 0 => y % 100 = 0
  OBVIOUS
<1>5. LeapsBefore(y + 1) - LeapsBefore(y) = is_leap_year(y)
  BY <1>1, <1>2, <1>3, <1>4 DEF LeapsBefore, is_leap_year
<1> QED
  BY <1>5 DEF DaysToYear, DaysThisYear, LeapsBefore, is_leap_year

\* Crossing a month adds its length; after December the year is full.
LEMMA MonthAdvances ==
  ASSUME NEW y \in Int, NEW m \in 0 .. 11
  PROVE  DaysToMonth(y, m) + mdays(y, m)
           = IF m = 11 THEN DaysThisYear(y) ELSE DaysToMonth(y, m + 1)
<1>1. is_leap_year(y) \in Int
  BY LeapRange
<1>2. m \in {0, 1, 2, 3, 4, 5, 6, 7, 8, 9, 10, 11}
  OBVIOUS
<1> QED
  BY <1>1, <1>2 DEF DaysToMonth, mdays, DaysThisYear

\* 365 is 1, 100 is 2 and 400 is 1 modulo 7: Gauss's rule counts the same days.
LEMMA GaussRule ==
  ASSUME NEW y \in Int, NEW d \in Int
  PROVE  (DaysToYear(y) + d + 4) % 7 = (WeekdayOfNewYear(y) + d) % 7
<1> DEFINE a == (y - 1) \div 4
           b == (y - 1) \div 100
           c == (y - 1) \div 400
           g == 1 + 5 * ((y - 1) % 4) + 4 * ((y - 1) % 100) + 6 * ((y - 1) % 400)
           n == DaysToYear(y) + d + 4
<1>1. a \in Int /\ b \in Int /\ c \in Int
  OBVIOUS
<1>2. /\ (y - 1) % 4 = y - 1 - 4 * a
      /\ (y - 1) % 100 = y - 1 - 100 * b
      /\ (y - 1) % 400 = y - 1 - 400 * c
  OBVIOUS
<1>3. g = 1 + 15 * (y - 1) - 20 * a - 400 * b - 2400 * c /\ g \in Int
  BY <1>1, <1>2
<1>4. n = 365 * y - 365 * 1970 + a - b + c - 477 + d + 4 /\ n \in Int
  BY <1>1 DEF DaysToYear, LeapsBefore
<1>5. n = g + d + 7 * (50 * y + 3 * a + 57 * b + 343 * c - 102787)
  <2> HIDE DEF a, b, c, g, n
  <2> QED
    BY <1>1, <1>3, <1>4
<1>6. \A m \in Int : n = g + d + 7 * m => n % 7 = ((g % 7) + d) % 7
  <2> HIDE DEF g, n
  <2> QED
    BY <1>3, <1>4
<1> QED
  BY <1>1, <1>5, <1>6 DEF WeekdayOfNewYear

\* The local day is not before the epoch, the time of day is a number.
LEMMA LocalRange == ASSUME InputOK PROVE LocalDay \in Nat /\ TimeOfDay \in Int
<1>1. day + (second - tz + SecsHour * dst) \div SecsDay >= 0
  BY TimeAssumption DEF InputOK
<1>2. LocalSecond \in Int /\ day \in Int
  <2>1. second \in Int /\ tz \in Int /\ day \in Int
    <3>1. Seconds \subseteq Int /\ Zones \subseteq Int /\ Days \subseteq Int
      <4>1. \A n : 0 .. n \subseteq Int
        OBVIOUS
      <4> QED
        BY TimeAssumption, <4>1
    <3> QED
      BY <3>1 DEF InputOK
  <2>2. \A x, y \in Int : x - y + 3600 * 1 \in Int
    OBVIOUS
  <2> QED
    BY <2>1, <2>2 DEF LocalSecond, SecsHour, dst
<1>3. SecsDay = 86400
  BY DEF SecsDay
<1>4. LocalSecond \div SecsDay \in Int /\ LocalSecond % SecsDay \in Int
  BY <1>2, <1>3
<1> QED
  BY <1>1, <1>2, <1>4 DEF LocalDay, LocalSecond, TimeOfDay

-----------------------------------------------------------------------------

LEMMA InitIInv == Init => IInv /\ WeekInv
BY DEF Init, IInv, InputOK, Numbers, TypeOK, CalendarInv, WeekInv

LEMMA WeekInductive == WeekInv /\ [Next]_vars => WeekInv'
<1> SUFFICES ASSUME WeekInv, [Next]_vars PROVE WeekInv'
  OBVIOUS
<1>1. CASE Clock
  BY <1>1 DEF Clock, WeekInv, LocalDay, LocalSecond, inputVars
<1>2. CASE NextYear \/ YearFound \/ NextMonth \/ MonthFound
  BY <1>2 DEF NextYear, YearFound, NextMonth, MonthFound, WeekInv, LocalDay, LocalSecond,
              inputVars, clockVars
<1>3. CASE UNCHANGED vars
  BY <1>3 DEF vars, WeekInv, LocalDay, LocalSecond
<1> QED
  BY <1>1, <1>2, <1>3 DEF Next

LEMMA Inductive == IInv /\ [Next]_vars => IInv'
<1> SUFFICES ASSUME IInv, [Next]_vars PROVE IInv'
  OBVIOUS
<1> USE DEF IInv, InputOK, Numbers, TypeOK, CalendarInv, inputVars, LocalDay, LocalSecond
<1>0. /\ LocalDay \in Nat /\ TimeOfDay \in Int
      /\ DaysThisYear(tm_year) \in {365, 366}
      /\ DaysToYear(tm_year) \in Int
      /\ mdays(tm_year, tm_mon) \in Int
      /\ DaysToMonth(tm_year, tm_mon) \in Int
  BY LocalRange, LeapRange DEF DaysThisYear, DaysToYear, LeapsBefore, mdays,
                               DaysToMonth
<1>1. CASE Clock
  <2>1. DaysToYear(1970) = 0
    BY DEF DaysToYear, LeapsBefore
  <2> QED
    BY <1>0, <1>1, <2>1 DEF Clock
<1>2. CASE NextYear
  <2>1. DaysToYear(tm_year + 1) = DaysToYear(tm_year) + DaysThisYear(tm_year)
    BY YearAdvances
  <2> QED
    BY <1>0, <1>2, <2>1 DEF NextYear
<1>3. CASE YearFound
  <2>1. DaysToMonth(tm_year, 0) = 0
    BY DEF DaysToMonth
  <2> QED
    BY <1>0, <1>3, <2>1 DEF YearFound
<1>4. CASE NextMonth
  <2>1. DaysToMonth(tm_year, tm_mon) + mdays(tm_year, tm_mon)
          = IF tm_mon = 11 THEN DaysThisYear(tm_year)
                           ELSE DaysToMonth(tm_year, tm_mon + 1)
    BY MonthAdvances
  <2> QED
    BY <1>0, <1>4, <2>1 DEF NextMonth
<1>5. CASE MonthFound
  <2>1. tm_year' + 1900 = tm_year
    BY <1>5 DEF MonthFound
  <2> QED
    BY <1>0, <1>5, <2>1 DEF MonthFound
<1>6. CASE UNCHANGED vars
  BY <1>6 DEF vars
<1> QED
  BY <1>1, <1>2, <1>3, <1>4, <1>5, <1>6 DEF Next

LEMMA InvariantHolds == Spec => []IInv /\ []WeekInv
BY InitIInv, Inductive, WeekInductive, PTL DEF Spec

\* The month counter never leaves the array mdays[12].
THEOREM MonthInArray == Spec => []TypeOK
<1>1. IInv => TypeOK
  BY DEF IInv
<1> QED
  BY InvariantHolds, <1>1, PTL

\* Every instant gets its date in the Gregorian calendar, without a bound on the
\* year: the rule of the leap years and both loops are right.
THEOREM DatesAreRight == Spec => []DateIsRight
<1>1. ASSUME IInv, WeekInv, pc = "done"
      PROVE  tm_wday = (WeekdayOfNewYear(tm_year + 1900) + tm_yday) % 7
  <2>1. LocalDay = DaysToYear(tm_year + 1900) + tm_yday /\ tm_wday = (LocalDay + 4) % 7
    BY <1>1 DEF IInv, CalendarInv, WeekInv
  <2>2. tm_year + 1900 \in Int /\ tm_yday \in Int
    BY <1>1 DEF IInv, Numbers
  <2> QED
    BY <2>1, <2>2, GaussRule
<1>2. IInv /\ WeekInv => DateIsRight
  BY <1>1 DEF IInv, CalendarInv, DateIsRight
<1> QED
  BY InvariantHolds, <1>2, PTL
=============================================================================
