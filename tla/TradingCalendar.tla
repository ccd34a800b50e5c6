-------------------------- MODULE TradingCalendar --------------------------
(***************************************************************************)
(* The exchange's sessions (backend/app/data/calendar.py) and what hangs   *)
(* on them: the entry session of an ex-dividend date, when a plan for it   *)
(* lapses (planning.py) and which dates the dividend calendar shows        *)
(* (main.py).  CapitalPlanning takes from it only that a session lies      *)
(* ahead, is open, has closed, or is of a past day.                        *)
(*                                                                         *)
(* A date is the number of days since 1 January 1970, a Thursday; Monday   *)
(* is weekday 0.                                                           *)
(***************************************************************************)
EXTENDS Integers, FiniteSets, FiniteSetsExt

CONSTANTS
  Years,        \* years whose holidays are looked up
  FirstDate, LastDate,  \* the dates that pass, [year, month, day]
  ShownSessions \* sessions the dividend calendar shows

VARIABLES
  today,        \* the date in New York
  afterClose    \* whether it is past four in the afternoon

calendarVars == <<today, afterClose>>

-----------------------------------------------------------------------------
(* Dates: Python's datetime.date                                           *)

MonthIndex(month) == (month + 9) % 12     \* March is month 0
Date(year, month, day) ==
  LET y == IF month <= 2 THEN year - 1 ELSE year IN
    365 * y + y \div 4 - y \div 100 + y \div 400
      + (153 * MonthIndex(month) + 2) \div 5 + day - 719469
Weekday(day) == (day + 3) % 7
YearOf(day) == CHOOSE y \in Years : Date(y, 1, 1) <= day /\ day < Date(y + 1, 1, 1)
MonthOf(day) ==
  Quantify(1..12, LAMBDA m : Date(YearOf(day), m, 1) <= day)
DayOfMonth(day) == day - Date(YearOf(day), MonthOf(day), 1) + 1

-----------------------------------------------------------------------------
(* nyse_holidays                                                           *)

\* Mutant: a holiday on a Saturday is lost.
LostSaturday(day) == IF Weekday(day) = 6 THEN day + 1 ELSE day
Observed(day) ==
  CASE Weekday(day) = 5 -> day - 1
    [] Weekday(day) = 6 -> day + 1
    [] OTHER -> day

NthWeekday(year, month, weekday, n) ==
  LET first == Date(year, month, 1) IN
    first + ((weekday - Weekday(first)) % 7) + 7 * (n - 1)

LastWeekday(year, month, weekday) ==
  LET last == Date(year + month \div 12, (month % 12) + 1, 1) - 1 IN
    last - ((Weekday(last) - weekday) % 7)

Easter(year) ==
  LET a == year % 19   b == year \div 100   c == year % 100
      d == b \div 4    e == b % 4           f == (b + 8) \div 25
      g == (b - f + 1) \div 3
      h == (19 * a + b - d - g + 15) % 30
      i == c \div 4    k == c % 4
      l == (32 + 2 * e + 2 * i - h - k) % 7
      m == (a + 11 * h + 22 * l) \div 451
      value == h + l - 7 * m + 114
  IN  Date(year, value \div 31, (value % 31) + 1)

NyseHolidays(year) ==
  {Observed(Date(year, 1, 1)), NthWeekday(year, 1, 0, 3), NthWeekday(year, 2, 0, 3),
   Easter(year) - 2, LastWeekday(year, 5, 0), Observed(Date(year, 7, 4)),
   NthWeekday(year, 9, 0, 1), NthWeekday(year, 11, 3, 4), Observed(Date(year, 12, 25))}
  \cup (IF year >= 2022 THEN {Observed(Date(year, 6, 19))} ELSE {})
HolidaysOf == [y \in Years |-> NyseHolidays(y)]

-----------------------------------------------------------------------------
(* Sessions                                                                *)

IsOpen(day) == Weekday(day) < 5 /\ day \notin HolidaysOf[YearOf(day)]

(* The loops of previous_sessions and next_sessions: at most ten of twenty *)
(* days are closed.                                                        *)
OpenBetween(first, last) == {day \in first..last : IsOpen(day)}
NthSession(S, n) == CHOOSE day \in S : Cardinality({x \in S : x <= day}) = n
PreviousSession(before, count) ==
  LET S == OpenBetween(before - 2 * count - 5, before - 1)
  IN  NthSession(S, Cardinality(S) - count + 1)
NextSessions(count, start) ==
  LET S == OpenBetween(start, start + 2 * count + 5)
  IN  {day \in S : Cardinality({x \in S : x < day}) < count}

DividendEntry(exDate, sessionsBefore) == PreviousSession(exDate, sessionsBefore)

ActionableStart ==
  IF IsOpen(today) /\ ~afterClose THEN today ELSE Min(NextSessions(1, today + 1))

(* expire_missed_plans and the dividend calendar's query.                  *)
LapsesFor(entry) == entry < ActionableStart
ShownDates ==
  LET calendar == NextSessions(ShownSessions, ActionableStart)
      fetched == ActionableStart .. (Max(calendar) + 1)
  IN  {ex \in fetched : DividendEntry(ex, 1) \in calendar}

-----------------------------------------------------------------------------

DateOf(d) == Date(d[1], d[2], d[3])
CalendarInit ==
  /\ today = DateOf(FirstDate) /\ afterClose = FALSE
SessionCloses == ~afterClose /\ afterClose' = TRUE /\ UNCHANGED today
Midnight ==
  /\ afterClose /\ today < DateOf(LastDate)
  /\ today' = today + 1 /\ afterClose' = FALSE
CalendarNext == SessionCloses \/ Midnight
CalendarSpec == CalendarInit /\ [][CalendarNext]_calendarVars

(* The dates that pass, and the days around them on which an entry session *)
(* can fall, lie in Years, and Years among those of the table below.       *)
Almanac == 1900..2199
ASSUME CalendarAssumption ==
  /\ Years \subseteq Almanac /\ ShownSessions \in Nat \ {0}
  /\ DateOf(FirstDate) \in Int /\ DateOf(LastDate) \in Int
  /\ DateOf(FirstDate) <= DateOf(LastDate)
  /\ \A day \in (DateOf(FirstDate) - 7)..(DateOf(LastDate) + 8) :
       \E y \in Years : Date(y, 1, 1) <= day /\ day < Date(y + 1, 1, 1)

-----------------------------------------------------------------------------
(* The exchange's rule, stated without the code's arithmetic: the weekday  *)
(* and the day of the month of each holiday, and Good Friday by the table  *)
(* of paschal full moons of 1900 to 2199.                                  *)

FullMoon ==   \* in days after 21 March, by golden number
  <<24, 13, 2, 21, 10, 28, 18, 7, 26, 15, 4, 23, 12, 1, 20, 9, 27, 17, 6>>
GoodFriday(year) ==
  CHOOSE day \in (Date(year, 3, 21) + FullMoon[(year % 19) + 1] - 1)
                   ..(Date(year, 3, 21) + FullMoon[(year % 19) + 1] + 5) : Weekday(day) = 4
Monday(day, month, weeks) ==
  Weekday(day) = 0 /\ MonthOf(day) = month /\ DayOfMonth(day) \in weeks
On(day, month, number) == MonthOf(day) = month /\ DayOfMonth(day) = number
KeptOn(day, month, number) ==
  \/ On(day, month, number)
  \/ Weekday(day) = 0 /\ On(day - 1, month, number)
  \/ Weekday(day) = 4 /\ On(day + 1, month, number) /\ number # 1
ExchangeOpen(day) ==
  ~ \/ Weekday(day) \in {5, 6}
    \/ KeptOn(day, 1, 1) \/ KeptOn(day, 7, 4) \/ KeptOn(day, 12, 25)
    \/ KeptOn(day, 6, 19) /\ YearOf(day) >= 2022
    \/ Monday(day, 1, 15..21) \/ Monday(day, 2, 15..21)
    \/ Monday(day, 5, 25..31) \/ Monday(day, 9, 1..7)
    \/ Weekday(day) = 3 /\ MonthOf(day) = 11 /\ DayOfMonth(day) \in 22..28
    \/ day = GoodFriday(YearOf(day))

(* For every ex-date of the next weeks: the entry session is the last day  *)
(* before it on which the exchange opens; a plan for it lapses exactly     *)
(* when that session has closed, over weekends, holidays and the turn of   *)
(* the year; and the dividend calendar shows the ex-date only while the    *)
(* session can be traded, and misses it only if that is the last session   *)
(* it shows.                                                               *)
EntryOffered ==
  LET shown == ShownDates
      lastShown == Max(NextSessions(ShownSessions, ActionableStart))
  IN \A ex \in (today + 1)..(today + 8) :
    LET entry == DividendEntry(ex, 1)
        tradable == entry > today \/ (entry = today /\ ~afterClose)
    IN  /\ entry < ex /\ ExchangeOpen(entry)
        /\ \A day \in (entry + 1)..(ex - 1) : ~ExchangeOpen(day)
        /\ LapsesFor(entry) <=> ~tradable
        /\ ex \in shown => tradable
        /\ tradable /\ entry < lastShown => ex \in shown
=============================================================================
