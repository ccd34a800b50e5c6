----------------------- MODULE ResearchServicesProofs -----------------------
(***************************************************************************)
(* The trading calendar, and the services run together.                    *)
(*                                                                         *)
(* EntryOffered compares the code's holidays, each computed from the first *)
(* or last day of a month, with the exchange's rule, which looks at the    *)
(* month, the weekday and the day of the month of a day.  Both are         *)
(* brought to the first day of the year of a day and of the year after:    *)
(* every month from March on begins a fixed number of days before the      *)
(* latter, whatever the year (MonthStarts).  The code's Easter is the      *)
(* Sunday after the paschal full moon (EasterIs), by the nineteen golden   *)
(* numbers and a sum of days modulo seven.  OpenAsRuled has the two rules  *)
(* agree.  Two holidays on weekdays are at least a week apart              *)
(* (OneHolidayAWeek), so four of any seven days are open (WeekOpen), and   *)
(* as many sessions as are asked for lie in the days that the model looks  *)
(* at (EnoughOpen): the loops of the code end there with what they are to  *)
(* return (NextSessionsCounted, PreviousSessionCounted).                   *)
(*                                                                         *)
(* A behaviour of MCResearch runs one service and leaves the others where  *)
(* they started, so it is a behaviour of each, and what each promises      *)
(* alone (AuthorizationProofs, ResearchProofs, AccessProofs, and the       *)
(* calendar here) holds of it: the type invariant and the safety           *)
(* properties that the research_services run checks, for any constants.    *)
(***************************************************************************)
EXTENDS MCResearch, AuthorizationProofs, ResearchProofs, AccessProofs

-----------------------------------------------------------------------------
(* Years and months                                                        *)

LEMMA LeapDays ==
  ASSUME NEW y \in Nat \ {0}
  PROVE  /\ y \div 4 - (y - 1) \div 4 = (IF y % 4 = 0 THEN 1 ELSE 0)
         /\ y \div 100 - (y - 1) \div 100 = (IF y % 100 = 0 THEN 1 ELSE 0)
         /\ y \div 400 - (y - 1) \div 400 = (IF y % 400 = 0 THEN 1 ELSE 0)
         /\ y % 400 = 0 => y % 100 = 0
         /\ y % 100 = 0 => y % 4 = 0
<1>1. y \div 4 - (y - 1) \div 4 = (IF y % 4 = 0 THEN 1 ELSE 0)
  BY SMT
<1>2. y \div 100 - (y - 1) \div 100 = (IF y % 100 = 0 THEN 1 ELSE 0)
  BY SMT
<1>3. y \div 400 - (y - 1) \div 400 = (IF y % 400 = 0 THEN 1 ELSE 0)
  BY SMT
<1>4. y % 400 = 0 => y % 100 = 0
  BY SMT
<1>5. y % 100 = 0 => y % 4 = 0
  BY SMT
<1> QED BY <1>1, <1>2, <1>3, <1>4, <1>5

LEMMA AlmanacYear == \A y \in Almanac : y \in Nat \ {0} /\ y \in Int
BY SMT DEF Almanac

(* A year has 365 or 366 days, and years follow one another.               *)
LEMMA YearLength ==
  ASSUME NEW y \in Almanac
  PROVE  /\ Date(y, 1, 1) \in Int /\ Date(y + 1, 1, 1) \in Int
         /\ \/ Date(y + 1, 1, 1) = Date(y, 1, 1) + 365
            \/ Date(y + 1, 1, 1) = Date(y, 1, 1) + 366
<1> DEFINE J(z) == 365 * z + z \div 4 - z \div 100 + z \div 400 + 307 - 719469
<1>0. y \in Nat \ {0}
  BY AlmanacYear
<1>1. Date(y + 1, 1, 1) = J(y) /\ Date(y, 1, 1) = J(y - 1)
  BY <1>0, SMT DEF Date, MonthIndex
<1>2. /\ J(y) \in Int /\ J(y - 1) \in Int
      /\ J(y) - J(y - 1) =
        365 + (y \div 4 - (y - 1) \div 4) - (y \div 100 - (y - 1) \div 100)
          + (y \div 400 - (y - 1) \div 400)
  BY <1>0, SMT
<1> HIDE DEF J
<1>3. J(y) - J(y - 1) = 365 \/ J(y) - J(y - 1) = 366
  BY <1>0, <1>2, LeapDays, SMT
<1> QED BY <1>1, <1>2, <1>3, SMT

LEMMA YearOrder ==
  ASSUME NEW y \in Almanac, NEW z \in Almanac, y < z
  PROVE  Date(y + 1, 1, 1) <= Date(z, 1, 1)
BY SMT DEF Almanac, Date, MonthIndex

(* Where each month begins, from the ends of its year.                     *)
LEMMA MonthStarts ==
  ASSUME NEW y \in Almanac, NEW m \in 1..12
  PROVE  /\ Date(y, m, 1) \in Int
         /\ m <= 2 => Date(y, m, 1) = Date(y, 1, 1) + 31 * (m - 1)
         /\ m > 2 => Date(y, m, 1) = Date(y + 1, 1, 1) - 306 + (153 * (m - 3) + 2) \div 5
BY SMT DEF Almanac, Date, MonthIndex

LEMMA HolidayMonths ==
  ASSUME NEW y \in Almanac
  PROVE  /\ Date(y, 2, 1) = Date(y, 1, 1) + 31
         /\ Date(y, 3, 1) = Date(y + 1, 1, 1) - 306
         /\ Date(y, 5, 1) = Date(y + 1, 1, 1) - 245
         /\ Date(y, 6, 1) = Date(y + 1, 1, 1) - 214
         /\ Date(y, 7, 1) = Date(y + 1, 1, 1) - 184
         /\ Date(y, 9, 1) = Date(y + 1, 1, 1) - 122
         /\ Date(y, 11, 1) = Date(y + 1, 1, 1) - 61
         /\ Date(y, 12, 1) = Date(y + 1, 1, 1) - 31
BY SMT DEF Almanac, Date, MonthIndex

LEMMA DateInMonth ==
  ASSUME NEW y \in Almanac, NEW m \in 1..12, NEW d \in Int
  PROVE  Date(y, m, d) = Date(y, m, 1) + d - 1
BY SMT DEF Almanac, Date, MonthIndex

-----------------------------------------------------------------------------
(* The year and the month of a day                                         *)

Known(day) == \E y \in Years : Date(y, 1, 1) <= day /\ day < Date(y + 1, 1, 1)

LEMMA YearOfDay ==
  ASSUME NEW day \in Int, Known(day)
  PROVE  /\ YearOf(day) \in Years /\ YearOf(day) \in Almanac
         /\ Date(YearOf(day), 1, 1) <= day
         /\ day < Date(YearOf(day) + 1, 1, 1)
<1>1. Years \subseteq Almanac
  BY CalendarAssumption
<1> QED BY <1>1, Zenon DEF Known, YearOf

LEMMA SameYear ==
  ASSUME NEW day \in Int, NEW other \in Int, Known(day), Known(other), day <= other
  PROVE  \/ YearOf(day) = YearOf(other)
         \/ Date(YearOf(day) + 1, 1, 1) <= Date(YearOf(other), 1, 1)
<1> DEFINE y == YearOf(day)
           z == YearOf(other)
<1>1. /\ y \in Almanac /\ z \in Almanac
      /\ Date(y, 1, 1) <= day /\ other < Date(z + 1, 1, 1)
  BY YearOfDay, Zenon
<1> HIDE DEF y, z
<1>2. Date(y, 1, 1) \in Int /\ Date(z + 1, 1, 1) \in Int
  BY <1>1, YearLength, SMT
<1>3. ~(z < y)
  BY <1>1, <1>2, YearOrder, SMT
<1>4. y = z \/ y < z
  BY <1>1, <1>3, AlmanacYear, SMT
<1> QED BY <1>1, <1>4, YearOrder DEF y, z

LEMMA MonthOrder ==
  ASSUME NEW y \in Almanac, NEW day \in Int,
         Date(y, 1, 1) <= day, day < Date(y + 1, 1, 1)
  PROVE  \E k \in 1..12 : \A m \in 1..12 : Date(y, m, 1) <= day <=> m <= k
<1>1. \A m, n \in 1..12 : m < n => Date(y, m, 1) < Date(y, n, 1)
  <2> SUFFICES ASSUME NEW m \in 1..12, NEW n \in 1..12, m < n
               PROVE  Date(y, m, 1) < Date(y, n, 1)
    OBVIOUS
  <2> DEFINE J == Date(y, 1, 1)   N == Date(y + 1, 1, 1)
             S == Date(y, m, 1)   T == Date(y, n, 1)
  <2>1. J \in Int /\ N \in Int /\ (N = J + 365 \/ N = J + 366)
    BY YearLength, SMT
  <2>2. /\ S \in Int /\ T \in Int
        /\ m <= 2 => S = J + 31 * (m - 1)
        /\ m > 2 => S = N - 306 + (153 * (m - 3) + 2) \div 5
        /\ n <= 2 => T = J + 31 * (n - 1)
        /\ n > 2 => T = N - 306 + (153 * (n - 3) + 2) \div 5
    BY MonthStarts, SMT
  <2> HIDE DEF J, N, S, T
  <2>3. S < T
    BY <2>1, <2>2, SMT
  <2> QED BY <2>3 DEF S, T
<1> DEFINE s == [m \in 1..12 |-> Date(y, m, 1)]
<1>2. /\ s \in [1..12 -> Int] /\ s[1] <= day
      /\ \A m, n \in 1..12 : m < n => s[m] < s[n]
      /\ \A m \in 1..12 : s[m] = Date(y, m, 1)
  <2>1. \A m \in 1..12 : Date(y, m, 1) \in Int
    BY MonthStarts, Zenon
  <2> QED BY <1>1, <2>1, SMT
<1> HIDE DEF s
<1>3. \E k \in 1..12 : s[k] <= day /\ (k < 12 => day < s[k + 1])
  <2> SUFFICES ASSUME \A k \in 1..12 : s[k] <= day => k < 12 /\ ~(day < s[k + 1])
               PROVE  FALSE
    BY SMT
  <2>2. \A k \in 1..11 : s[k] <= day => s[k + 1] <= day
    BY <1>2, SMT
  <2>3. s[2] <= day /\ s[3] <= day /\ s[4] <= day
    BY <1>2, <2>2, SMT
  <2>4. s[5] <= day /\ s[6] <= day /\ s[7] <= day
    BY <2>2, <2>3, SMT
  <2>5. s[8] <= day /\ s[9] <= day /\ s[10] <= day
    BY <2>2, <2>4, SMT
  <2>6. s[11] <= day /\ s[12] <= day
    BY <2>2, <2>5, SMT
  <2> QED BY <2>6, SMT
<1>4. PICK k \in 1..12 : s[k] <= day /\ (k < 12 => day < s[k + 1])
  BY <1>3
<1>5. ASSUME NEW m \in 1..12 PROVE s[m] <= day <=> m <= k
  <2>1. CASE m <= k
    BY <1>2, <1>4, <2>1, SMT
  <2>2. CASE m > k
    BY <1>2, <1>4, <2>2, SMT
  <2> QED BY <2>1, <2>2, SMT
<1> QED BY <1>2, <1>5

LEMMA MonthOfDay ==
  ASSUME NEW day \in Int, Known(day)
  PROVE  /\ MonthOf(day) \in 1..12
         /\ \A m \in 1..12 : Date(YearOf(day), m, 1) <= day <=> m <= MonthOf(day)
<1> DEFINE y == YearOf(day)
<1>1. PICK k \in 1..12 : \A m \in 1..12 : Date(y, m, 1) <= day <=> m <= k
  BY YearOfDay, MonthOrder, Zenon
<1>2. {m \in 1..12 : Date(y, m, 1) <= day} = 1..k
  BY <1>1, SMT
<1>3. Cardinality(1..k) = k
  <2>1. 1 \in Int /\ k \in Int /\ ~(1 > k) /\ k - 1 + 1 = k
    BY SMT
  <2>2. Cardinality(1..k) = IF 1 > k THEN 0 ELSE k - 1 + 1
    BY <2>1, FS_Interval, Zenon
  <2> QED BY <2>1, <2>2, Zenon
<1>4. MonthOf(day) = k
  BY <1>2, <1>3, Zenon DEF MonthOf, Quantify
<1> QED BY <1>1, <1>4, Zenon

(* The months with a holiday, as days of the year.                         *)
LEMMA Months ==
  ASSUME NEW day \in Int, Known(day), NEW J, NEW N,
         J = Date(YearOf(day), 1, 1), N = Date(YearOf(day) + 1, 1, 1)
  PROVE  /\ J \in Int /\ N \in Int /\ (N = J + 365 \/ N = J + 366)
         /\ J <= day /\ day < N
         /\ MonthOf(day) = 1 <=> day < J + 31
         /\ MonthOf(day) = 2 <=> J + 31 <= day /\ day < N - 306
         /\ MonthOf(day) = 5 <=> N - 245 <= day /\ day < N - 214
         /\ MonthOf(day) = 6 <=> N - 214 <= day /\ day < N - 184
         /\ MonthOf(day) = 7 <=> N - 184 <= day /\ day < N - 153
         /\ MonthOf(day) = 9 <=> N - 122 <= day /\ day < N - 92
         /\ MonthOf(day) = 11 <=> N - 61 <= day /\ day < N - 31
         /\ MonthOf(day) = 12 <=> N - 31 <= day
<1> DEFINE y == YearOf(day)
           k == MonthOf(day)
<1>1. /\ y \in Almanac /\ J <= day /\ day < N
  BY YearOfDay, Zenon
<1>2. J \in Int /\ N \in Int /\ (N = J + 365 \/ N = J + 366)
  BY <1>1, YearLength, SMT
<1>3. k \in 1..12
  BY MonthOfDay, Zenon
<1>4. ASSUME NEW m \in 1..12
      PROVE  /\ m <= k /\ m <= 2 => J + 31 * (m - 1) <= day
             /\ m <= k /\ m > 2 => N - 306 + (153 * (m - 3) + 2) \div 5 <= day
             /\ m > k /\ m <= 2 => day < J + 31 * (m - 1)
             /\ m > k /\ m > 2 => day < N - 306 + (153 * (m - 3) + 2) \div 5
  <2>1. Date(y, m, 1) <= day <=> m <= k
    BY MonthOfDay, Zenon
  <2>2. /\ Date(y, m, 1) \in Int
        /\ m <= 2 => Date(y, m, 1) = J + 31 * (m - 1)
        /\ m > 2 => Date(y, m, 1) = N - 306 + (153 * (m - 3) + 2) \div 5
    BY <1>1, MonthStarts, SMT
  <2> HIDE DEF k, y
  <2> QED BY <1>1, <1>2, <1>3, <2>1, <2>2, SMT
<1> HIDE DEF k, y
<1>5. /\ k >= 2 <=> J + 31 <= day
      /\ k >= 3 <=> N - 306 <= day
  BY <1>1, <1>2, <1>3, <1>4, SMT
<1>6. /\ k >= 5 <=> N - 245 <= day
      /\ k >= 6 <=> N - 214 <= day
  BY <1>1, <1>2, <1>3, <1>4, SMT
<1>7. /\ k >= 7 <=> N - 184 <= day
      /\ k >= 8 <=> N - 153 <= day
  BY <1>1, <1>2, <1>3, <1>4, SMT
<1>8. /\ k >= 9 <=> N - 122 <= day
      /\ k >= 10 <=> N - 92 <= day
  BY <1>1, <1>2, <1>3, <1>4, SMT
<1>9. /\ k >= 11 <=> N - 61 <= day
      /\ k >= 12 <=> N - 31 <= day
  BY <1>1, <1>2, <1>3, <1>4, SMT
<1> QED BY <1>1, <1>2, <1>3, <1>5, <1>6, <1>7, <1>8, <1>9, SMT DEF k

(* The holidays of fixed date.                                             *)
LEMMA FixedDates ==
  ASSUME NEW day \in Int, Known(day), NEW J, NEW N,
         J = Date(YearOf(day), 1, 1), N = Date(YearOf(day) + 1, 1, 1)
  PROVE  /\ On(day, 1, 1) <=> day = J
         /\ On(day, 6, 19) <=> day = N - 196
         /\ On(day, 7, 4) <=> day = N - 181
         /\ On(day, 12, 25) <=> day = N - 7
<1>1. YearOf(day) \in Almanac
  BY YearOfDay, Zenon
<1>2. /\ Date(YearOf(day), 6, 1) = N - 214
      /\ Date(YearOf(day), 7, 1) = N - 184
      /\ Date(YearOf(day), 12, 1) = N - 31
  BY <1>1, HolidayMonths, SMT
<1>3. /\ J \in Int /\ N \in Int /\ (N = J + 365 \/ N = J + 366)
      /\ J <= day /\ day < N
      /\ MonthOf(day) = 1 <=> day < J + 31
      /\ MonthOf(day) = 6 <=> N - 214 <= day /\ day < N - 184
      /\ MonthOf(day) = 7 <=> N - 184 <= day /\ day < N - 153
      /\ MonthOf(day) = 12 <=> N - 31 <= day
  BY Months, SMT
<1>4. On(day, 1, 1) <=> day = J
  BY <1>3, SMT DEF On, DayOfMonth
<1>5. On(day, 6, 19) <=> day = N - 196
  BY <1>2, <1>3, SMT DEF On, DayOfMonth
<1>6. On(day, 7, 4) <=> day = N - 181
  BY <1>2, <1>3, SMT DEF On, DayOfMonth
<1>7. On(day, 12, 25) <=> day = N - 7
  BY <1>2, <1>3, SMT DEF On, DayOfMonth
<1> QED BY <1>4, <1>5, <1>6, <1>7

-----------------------------------------------------------------------------
(* The holidays that fall on a weekday of a week of a month                *)

LEMMA Mondays ==
  ASSUME NEW first \in Int, NEW day \in Int
  PROVE  /\ day = first + ((0 - Weekday(first)) % 7) + 7 * (3 - 1)
              <=> Weekday(day) = 0 /\ first + 14 <= day /\ day <= first + 20
         /\ day = first + ((0 - Weekday(first)) % 7) + 7 * (1 - 1)
              <=> Weekday(day) = 0 /\ first <= day /\ day <= first + 6
         /\ day = first + ((3 - Weekday(first)) % 7) + 7 * (4 - 1)
              <=> Weekday(day) = 3 /\ first + 21 <= day /\ day <= first + 27
         /\ day = first - ((Weekday(first) - 0) % 7)
              <=> Weekday(day) = 0 /\ first - 6 <= day /\ day <= first
BY SMT DEF Weekday

(* Good Friday: the code's Easter is the Sunday after the paschal full     *)
(* moon.                                                                   *)
LEMMA Moons ==
  ASSUME NEW a \in 0..18, NEW h \in 0..29, h = (19 * a + 24) % 30,
         NEW l \in 0..6, NEW m \in Int, m = (a + 11 * h + 22 * l) \div 451
  PROVE  /\ m \in {0, 1}
         /\ h + l - 7 * m \in (FullMoon[a + 1])..(FullMoon[a + 1] + 6)
         /\ FullMoon[a + 1] \in 1..28
<1>1. \/ a = 0 \/ a = 1 \/ a = 2 \/ a = 3 \/ a = 4 \/ a = 5 \/ a = 6
      \/ a = 7 \/ a = 8 \/ a = 9 \/ a = 10 \/ a = 11 \/ a = 12 \/ a = 13
      \/ a = 14 \/ a = 15 \/ a = 16 \/ a = 17 \/ a = 18
  BY SMT
<1> QED BY <1>1, SMTT(30) DEF FullMoon

LEMMA WeekdaySum ==
  ASSUME NEW x \in Int, NEW h \in Int
  PROVE  /\ (x - h) % 7 \in 0..6
         /\ \E q \in Int : h + ((x - h) % 7) = x + 7 * q
<1>1. (x - h) % 7 \in 0..6 /\ h + ((x - h) % 7) = x + 7 * (0 - ((x - h) \div 7))
  BY SMT
<1>2. 0 - ((x - h) \div 7) \in Int
  BY SMT
<1> QED BY <1>1, <1>2, Zenon

LEMMA EasterIs ==
  ASSUME NEW y \in Almanac
  PROVE  /\ Easter(y) - 2 = GoodFriday(y)
         /\ Weekday(GoodFriday(y)) = 4
         /\ GoodFriday(y) \in (Date(y + 1, 1, 1) - 286)..(Date(y + 1, 1, 1) - 253)
<1> DEFINE a == y % 19   b == y \div 100   c == y % 100
           d == b \div 4    e == b % 4           f == (b + 8) \div 25
           g == (b - f + 1) \div 3
           h == (19 * a + b - d - g + 15) % 30
           i == c \div 4    k == c % 4
           l == (32 + 2 * e + 2 * i - h - k) % 7
           m == (a + 11 * h + 22 * l) \div 451
           value == h + l - 7 * m + 114
           N == Date(y + 1, 1, 1)
           moon == FullMoon[a + 1]
<1>1. Easter(y) = Date(y, value \div 31, (value % 31) + 1)
  BY Zenon DEF Easter
<1>2. /\ y \in Int /\ a \in 0..18 /\ c \in 0..99 /\ y = 100 * b + c
      /\ b \in {19, 20, 21}
  BY SMT DEF Almanac
<1>3. /\ c = 4 * i + k /\ k \in 0..3 /\ i \in 0..24
  <2> HIDE DEF c
  <2> QED BY <1>2, SMT
<1>4. h = (19 * a + 24) % 30 /\ h \in 0..29
  <2> HIDE DEF a, b
  <2>1. CASE b = 19
    BY <1>2, <2>1, SMT
  <2>2. CASE b = 20
    BY <1>2, <2>2, SMT
  <2>3. CASE b = 21
    BY <1>2, <2>3, SMT
  <2> QED BY <1>2, <2>1, <2>2, <2>3, SMT
<1>5. d \in Int /\ e \in Int /\ b = 4 * d + e
  <2> HIDE DEF b
  <2> QED BY <1>2, SMT
<1>6. l \in 0..6 /\ \E q \in Int : h + l = 32 + 2 * e + 2 * i - k + 7 * q
  <2> DEFINE x == 32 + 2 * e + 2 * i - k
  <2> HIDE DEF h, e, i, k
  <2>1. x \in Int /\ h \in Int /\ l = (x - h) % 7
    BY <1>3, <1>4, <1>5, SMT
  <2> HIDE DEF x, l
  <2>2. l \in 0..6 /\ \E q \in Int : h + l = x + 7 * q
    BY <2>1, WeekdaySum, Zenon
  <2> QED BY <2>2, SMT DEF x
<1>7. N = 146097 * d + 36524 * e + 1461 * i + 365 * k + 307 - 719469
  <2>1. N = 365 * y + y \div 4 - y \div 100 + y \div 400 + 307 - 719469
    BY <1>2, SMT DEF Date, MonthIndex
  <2>2. /\ y \div 4 = 25 * b + i
        /\ y \div 100 = b /\ y \div 400 = d
    BY <1>2, SMT
  <2> HIDE DEF N, i, k, d, e, b, c
  <2> QED BY <1>2, <1>3, <1>5, <2>1, <2>2, SMT
<1>8. Weekday(N - 285 + h + l) = 6
  <2> HIDE DEF N, h, l, i, k, d, e
  <2>1. PICK q \in Int : h + l = 32 + 2 * e + 2 * i - k + 7 * q
    BY <1>6
  <2>2. N - 285 + h + l + 3 = 7 * (20871 * d + 5218 * e + 209 * i + 52 * k + q - 102774) + 6
    BY <1>3, <1>4, <1>5, <1>6, <1>7, <2>1, SMTT(30)
  <2>3. 20871 * d + 5218 * e + 209 * i + 52 * k + q - 102774 \in Int
    BY <1>3, <1>5, SMT
  <2>4. \A z \in Int : (7 * z + 6) % 7 = 6
    BY SMT
  <2> QED BY <2>2, <2>3, <2>4, SMT DEF Weekday
<1>9. m \in {0, 1} /\ h + l - 7 * m \in moon..(moon + 6) /\ moon \in 1..28
  <2> HIDE DEF a, h, l
  <2>1. m \in Int /\ m = (a + 11 * h + 22 * l) \div 451
    BY <1>2, <1>4, <1>6, SMT
  <2> HIDE DEF m
  <2> QED BY <1>2, <1>4, <1>6, <2>1, Moons, SMTT(30)
<1>10. N \in Int
  BY YearLength
<1> HIDE DEF a, b, c, d, e, f, g, h, i, k, l, m, N, moon
<1>11. Easter(y) = N - 285 + (h + l - 7 * m)
  <2>1. Date(y, 3, 1) = N - 306 /\ Date(y, 4, 1) = N - 275
    BY SMT DEF Almanac, Date, MonthIndex, N
  <2>2. value \in Int /\ value \in 115..148
    <3> DEFINE past == h + l - 7 * m
    <3>1. past \in moon..(moon + 6) /\ moon \in 1..28 /\ value = past + 114
      BY <1>9
    <3> HIDE DEF past, value
    <3> QED BY <3>1, SMT
  <2>3. CASE value \div 31 = 3
    <3>1. value % 31 = value - 93
      BY <2>2, <2>3, SMT
    <3>2. Date(y, 3, (value % 31) + 1) = Date(y, 3, 1) + (value % 31)
      BY <2>2, DateInMonth, SMT
    <3> QED BY <1>1, <1>4, <1>6, <1>9, <1>10, <2>1, <2>2, <2>3, <3>1, <3>2, SMT
  <2>4. CASE value \div 31 = 4
    <3>1. value % 31 = value - 124
      BY <2>2, <2>4, SMT
    <3>2. Date(y, 4, (value % 31) + 1) = Date(y, 4, 1) + (value % 31)
      BY <2>2, DateInMonth, SMT
    <3> QED BY <1>1, <1>4, <1>6, <1>9, <1>10, <2>1, <2>2, <2>4, <3>1, <3>2, SMT
  <2>5. value \div 31 \in {3, 4}
    BY <2>2, SMT
  <2> QED BY <2>3, <2>4, <2>5
<1>12. Weekday(Easter(y) - 2) = 4
  BY <1>4, <1>6, <1>8, <1>9, <1>10, <1>11, SMT DEF Weekday
<1>13. Date(y, 3, 21) = N - 286
  BY SMT DEF Almanac, Date, MonthIndex, N
<1> DEFINE W == (Date(y, 3, 21) + moon - 1)..(Date(y, 3, 21) + moon + 5)
<1>14. Easter(y) - 2 \in W
  BY <1>4, <1>6, <1>9, <1>10, <1>11, <1>13, SMT
<1>15. \A x \in W : Weekday(x) = 4 => x = Easter(y) - 2
  BY <1>9, <1>10, <1>12, <1>13, <1>14, SMT DEF Weekday
<1>16. GoodFriday(y) = CHOOSE day \in W : Weekday(day) = 4
  BY Zenon DEF GoodFriday, moon, a
<1> HIDE DEF W
<1>17. GoodFriday(y) = Easter(y) - 2
  BY <1>12, <1>14, <1>15, <1>16, Zenon
<1>18. Easter(y) - 2 \in (N - 286)..(N - 253)
  <2> DEFINE past == h + l - 7 * m
  <2>1. past \in moon..(moon + 6) /\ moon \in 1..28 /\ Easter(y) = N - 285 + past
    BY <1>9, <1>11
  <2> HIDE DEF past
  <2> QED BY <1>10, <2>1, SMT
<1> QED BY <1>12, <1>17, <1>18 DEF N

-----------------------------------------------------------------------------
(* The code's holidays are the exchange's                                  *)

LEMMA ObservedIs ==
  ASSUME NEW D \in Int, NEW day \in Int, Weekday(day) < 5
  PROVE  Observed(D) = day
           <=> \/ day = D
               \/ Weekday(day) = 0 /\ day - 1 = D
               \/ Weekday(day) = 4 /\ day + 1 = D
BY SMT DEF Observed, Weekday

(* The fixed dates of the days beside a day, as days of its own year.      *)
LEMMA FixedAround ==
  ASSUME NEW day \in Int, Known(day - 1), Known(day), Known(day + 1), NEW J, NEW N,
         J = Date(YearOf(day), 1, 1), N = Date(YearOf(day) + 1, 1, 1)
  PROVE  /\ On(day - 1, 1, 1) <=> day - 1 = J
         /\ On(day - 1, 6, 19) <=> day - 1 = N - 196
         /\ On(day + 1, 6, 19) <=> day + 1 = N - 196
         /\ On(day - 1, 7, 4) <=> day - 1 = N - 181
         /\ On(day + 1, 7, 4) <=> day + 1 = N - 181
         /\ On(day - 1, 12, 25) <=> day - 1 = N - 7
         /\ On(day + 1, 12, 25) <=> day + 1 = N - 7
<1> DEFINE J1 == Date(YearOf(day - 1), 1, 1)   N1 == Date(YearOf(day - 1) + 1, 1, 1)
           J2 == Date(YearOf(day + 1), 1, 1)   N2 == Date(YearOf(day + 1) + 1, 1, 1)
<1>0. day - 1 \in Int /\ day + 1 \in Int /\ day - 1 <= day /\ day <= day + 1
  BY SMT
<1>1. /\ J \in Int /\ N \in Int /\ (N = J + 365 \/ N = J + 366)
      /\ J <= day /\ day < N
  BY Months, SMT
<1>2. /\ J1 \in Int /\ N1 \in Int /\ (N1 = J1 + 365 \/ N1 = J1 + 366)
      /\ J1 <= day - 1 /\ day - 1 < N1
  BY <1>0, Months, SMT
<1>3. /\ J2 \in Int /\ N2 \in Int /\ (N2 = J2 + 365 \/ N2 = J2 + 366)
      /\ J2 <= day + 1 /\ day + 1 < N2
  BY <1>0, Months, SMT
<1>4. (J1 = J /\ N1 = N) \/ N1 <= J
  BY <1>0, SameYear, Zenon
<1>5. (J2 = J /\ N2 = N) \/ N <= J2
  BY <1>0, SameYear, Zenon
<1>6. /\ On(day - 1, 1, 1) <=> day - 1 = J1
      /\ On(day - 1, 6, 19) <=> day - 1 = N1 - 196
      /\ On(day - 1, 7, 4) <=> day - 1 = N1 - 181
      /\ On(day - 1, 12, 25) <=> day - 1 = N1 - 7
  BY <1>0, FixedDates, SMT
<1>7. /\ On(day + 1, 6, 19) <=> day + 1 = N2 - 196
      /\ On(day + 1, 7, 4) <=> day + 1 = N2 - 181
      /\ On(day + 1, 12, 25) <=> day + 1 = N2 - 7
  BY <1>0, FixedDates, SMT
<1> HIDE DEF J1, N1, J2, N2
<1> QED BY <1>1, <1>2, <1>3, <1>4, <1>5, <1>6, <1>7, SMT

(* A holiday on a weekday, by the first days J and N of its year and of    *)
(* the next.                                                               *)
Fixed(day, D) ==
  \/ day = D
  \/ Weekday(day) = 0 /\ day - 1 = D
  \/ Weekday(day) = 4 /\ day + 1 = D
Week(day, weekday, first) == Weekday(day) = weekday /\ first <= day /\ day <= first + 6
Holiday(day, J, N, friday) ==
  \/ Fixed(day, J) \/ Fixed(day, N - 181) \/ Fixed(day, N - 7)
  \/ Fixed(day, N - 196) /\ YearOf(day) >= 2022
  \/ Week(day, 0, J + 14) \/ Week(day, 0, J + 31 + 14)
  \/ Week(day, 0, N - 215 - 6) \/ Week(day, 0, N - 122)
  \/ Week(day, 3, N - 61 + 21)
  \/ day = friday

LEMMA HolidaysByRule ==
  ASSUME NEW day \in Int, Known(day - 1), Known(day), Known(day + 1), Weekday(day) < 5,
         NEW J, NEW N, J = Date(YearOf(day), 1, 1), N = Date(YearOf(day) + 1, 1, 1)
  PROVE  ExchangeOpen(day) <=> ~Holiday(day, J, N, GoodFriday(YearOf(day)))
<1> DEFINE y == YearOf(day)
<1>1. y \in Almanac
  BY YearOfDay, Zenon
<1>2. /\ J \in Int /\ N \in Int /\ (N = J + 365 \/ N = J + 366)
      /\ J <= day /\ day < N
      /\ MonthOf(day) = 1 <=> day < J + 31
      /\ MonthOf(day) = 2 <=> J + 31 <= day /\ day < N - 306
      /\ MonthOf(day) = 5 <=> N - 245 <= day /\ day < N - 214
      /\ MonthOf(day) = 9 <=> N - 122 <= day /\ day < N - 92
      /\ MonthOf(day) = 11 <=> N - 61 <= day /\ day < N - 31
  BY Months, SMT
<1>3. /\ Date(y, 2, 1) = J + 31 /\ Date(y, 5, 1) = N - 245
      /\ Date(y, 9, 1) = N - 122 /\ Date(y, 11, 1) = N - 61
  BY <1>1, HolidayMonths, SMT
<1>4. /\ MonthOf(day) = 1 => DayOfMonth(day) = day - J + 1
      /\ MonthOf(day) = 2 => DayOfMonth(day) = day - (J + 31) + 1
      /\ MonthOf(day) = 5 => DayOfMonth(day) = day - (N - 245) + 1
      /\ MonthOf(day) = 9 => DayOfMonth(day) = day - (N - 122) + 1
      /\ MonthOf(day) = 11 => DayOfMonth(day) = day - (N - 61) + 1
  BY <1>3 DEF DayOfMonth
<1>5. /\ On(day, 1, 1) <=> day = J
      /\ On(day, 6, 19) <=> day = N - 196
      /\ On(day, 7, 4) <=> day = N - 181
      /\ On(day, 12, 25) <=> day = N - 7
  BY FixedDates, SMT
<1>6. /\ On(day - 1, 1, 1) <=> day - 1 = J
      /\ On(day - 1, 6, 19) <=> day - 1 = N - 196
      /\ On(day + 1, 6, 19) <=> day + 1 = N - 196
      /\ On(day - 1, 7, 4) <=> day - 1 = N - 181
      /\ On(day + 1, 7, 4) <=> day + 1 = N - 181
      /\ On(day - 1, 12, 25) <=> day - 1 = N - 7
      /\ On(day + 1, 12, 25) <=> day + 1 = N - 7
  BY FixedAround, SMT
<1>7. Weekday(day) \notin {5, 6} /\ ~(day + 1 = J)
  BY <1>2, SMT
<1>8. KeptOn(day, 1, 1) <=> Fixed(day, J)
  BY <1>5, <1>6, <1>7, SMT DEF KeptOn, Fixed
<1>9. /\ KeptOn(day, 6, 19) <=> Fixed(day, N - 196)
      /\ KeptOn(day, 7, 4) <=> Fixed(day, N - 181)
      /\ KeptOn(day, 12, 25) <=> Fixed(day, N - 7)
  BY <1>5, <1>6, SMT DEF KeptOn, Fixed
<1>10. Monday(day, 1, 15..21) <=> Week(day, 0, J + 14)
  BY <1>2, <1>4, SMT DEF Monday, Week
<1>11. Monday(day, 2, 15..21) <=> Week(day, 0, J + 31 + 14)
  BY <1>2, <1>4, SMT DEF Monday, Week
<1>12. Monday(day, 5, 25..31) <=> Week(day, 0, N - 215 - 6)
  BY <1>2, <1>4, SMT DEF Monday, Week
<1>13. Monday(day, 9, 1..7) <=> Week(day, 0, N - 122)
  BY <1>2, <1>4, SMT DEF Monday, Week
<1>14. Weekday(day) = 3 /\ MonthOf(day) = 11 /\ DayOfMonth(day) \in 22..28
         <=> Week(day, 3, N - 61 + 21)
  BY <1>2, <1>4, SMT DEF Week
<1> HIDE DEF y
<1> QED BY <1>7, <1>8, <1>9, <1>10, <1>11, <1>12, <1>13, <1>14, SMT DEF ExchangeOpen, Holiday

LEMMA HolidaysByCode ==
  ASSUME NEW day \in Int, Known(day), Weekday(day) < 5,
         NEW J, NEW N, J = Date(YearOf(day), 1, 1), N = Date(YearOf(day) + 1, 1, 1)
  PROVE  IsOpen(day) <=> ~Holiday(day, J, N, GoodFriday(YearOf(day)))
<1> DEFINE y == YearOf(day)
<1>1. y \in Years /\ y \in Almanac
  BY YearOfDay, Zenon
<1>2. J \in Int /\ N \in Int
  BY Months, SMT
<1>3. /\ Date(y, 2, 1) = J + 31 /\ Date(y, 6, 1) = N - 214
      /\ Date(y, 7, 1) = N - 184 /\ Date(y, 9, 1) = N - 122
      /\ Date(y, 11, 1) = N - 61 /\ Date(y, 12, 1) = N - 31
  BY <1>1, HolidayMonths, SMT
<1>4. Date(y, 6, 19) = N - 196 /\ Date(y, 7, 4) = N - 181 /\ Date(y, 12, 25) = N - 7
  <2>1. /\ Date(y, 6, 19) = Date(y, 6, 1) + 19 - 1
        /\ Date(y, 7, 4) = Date(y, 7, 1) + 4 - 1
        /\ Date(y, 12, 25) = Date(y, 12, 1) + 25 - 1
    BY <1>1, DateInMonth, SMT
  <2> HIDE DEF y
  <2> QED BY <1>2, <1>3, <2>1, SMT
<1>5. J + 31 \in Int /\ N - 122 \in Int /\ N - 215 \in Int /\ N - 61 \in Int
      /\ N - 196 \in Int /\ N - 181 \in Int /\ N - 7 \in Int
  BY <1>2, SMT
<1>6. HolidaysOf[y] = NyseHolidays(y)
  BY <1>1, Zenon DEF HolidaysOf
<1>7. y + 5 \div 12 = y /\ (5 % 12) + 1 = 6 /\ (N - 214) - 1 = N - 215
  BY <1>1, <1>2, AlmanacYear, SMT
<1>8. J = Date(y, 1, 1)
  OBVIOUS
<1> HIDE DEF y
<1>9. day = Observed(Date(y, 1, 1)) <=> Fixed(day, J)
  BY <1>2, <1>8, ObservedIs, SMT DEF Fixed
<1>10. /\ day = Observed(Date(y, 6, 19)) <=> Fixed(day, N - 196)
       /\ day = Observed(Date(y, 7, 4)) <=> Fixed(day, N - 181)
       /\ day = Observed(Date(y, 12, 25)) <=> Fixed(day, N - 7)
  <2>1. Observed(N - 196) = day <=> Fixed(day, N - 196)
    BY <1>5, ObservedIs, SMT DEF Fixed
  <2>2. Observed(N - 181) = day <=> Fixed(day, N - 181)
    BY <1>5, ObservedIs, SMT DEF Fixed
  <2>3. Observed(N - 7) = day <=> Fixed(day, N - 7)
    BY <1>5, ObservedIs, SMT DEF Fixed
  <2> QED BY <1>4, <2>1, <2>2, <2>3, SMT
<1>11. day = NthWeekday(y, 1, 0, 3) <=> Week(day, 0, J + 14)
  <2>1. NthWeekday(y, 1, 0, 3) = J + ((0 - Weekday(J)) % 7) + 7 * (3 - 1)
    BY <1>8 DEF NthWeekday
  <2> QED BY <1>2, <2>1, Mondays, SMT DEF Week
<1>12. day = NthWeekday(y, 2, 0, 3) <=> Week(day, 0, J + 31 + 14)
  <2>1. NthWeekday(y, 2, 0, 3) = (J + 31) + ((0 - Weekday(J + 31)) % 7) + 7 * (3 - 1)
    BY <1>3 DEF NthWeekday
  <2> QED BY <1>5, <2>1, Mondays, SMT DEF Week
<1>13. day = NthWeekday(y, 9, 0, 1) <=> Week(day, 0, N - 122)
  <2>1. NthWeekday(y, 9, 0, 1) = (N - 122) + ((0 - Weekday(N - 122)) % 7) + 7 * (1 - 1)
    BY <1>3 DEF NthWeekday
  <2> QED BY <1>5, <2>1, Mondays, SMT DEF Week
<1>14. day = LastWeekday(y, 5, 0) <=> Week(day, 0, N - 215 - 6)
  <2>1. Date(y + 5 \div 12, (5 % 12) + 1, 1) - 1 = N - 215
    BY <1>3, <1>7, SMT
  <2>2. LastWeekday(y, 5, 0) = (N - 215) - ((Weekday(N - 215) - 0) % 7)
    BY <2>1, SMT DEF LastWeekday
  <2>3. day = LastWeekday(y, 5, 0) <=> Weekday(day) = 0 /\ N - 215 - 6 <= day /\ day <= N - 215
    BY <1>5, <2>2, Mondays, SMT
  <2> QED BY <1>2, <2>3, SMT DEF Week
<1>15. day = NthWeekday(y, 11, 3, 4) <=> Week(day, 3, N - 61 + 21)
  <2>1. NthWeekday(y, 11, 3, 4) = (N - 61) + ((3 - Weekday(N - 61)) % 7) + 7 * (4 - 1)
    BY <1>3 DEF NthWeekday
  <2> QED BY <1>5, <2>1, Mondays, SMT DEF Week
<1>16. Easter(y) - 2 = GoodFriday(y)
  BY <1>1, EasterIs
<1>17. IsOpen(day) <=> day \notin NyseHolidays(y)
  BY <1>6, Zenon DEF IsOpen, y
<1>18. day \in NyseHolidays(y) <=>
         \/ day = Observed(Date(y, 1, 1)) \/ day = Observed(Date(y, 7, 4))
         \/ day = Observed(Date(y, 12, 25))
         \/ day = Observed(Date(y, 6, 19)) /\ y >= 2022
         \/ day = NthWeekday(y, 1, 0, 3) \/ day = NthWeekday(y, 2, 0, 3)
         \/ day = LastWeekday(y, 5, 0) \/ day = NthWeekday(y, 9, 0, 1)
         \/ day = NthWeekday(y, 11, 3, 4)
         \/ day = Easter(y) - 2
  BY SMT DEF NyseHolidays
<1> QED BY <1>9, <1>10, <1>11, <1>12, <1>13, <1>14, <1>15, <1>16, <1>17, <1>18, SMT
        DEF Holiday, y

(* The code's sessions are the exchange's: market_session opens a day if   *)
(* and only if it is no weekend and none of the ten holidays, stated by    *)
(* month, weekday and day of the month, with Good Friday by the table of   *)
(* full moons, for every day of the years that the calendar is asked for.  *)
THEOREM OpenAsRuled ==
  ASSUME NEW day \in Int, Known(day - 1), Known(day), Known(day + 1)
  PROVE  IsOpen(day) <=> ExchangeOpen(day)
<1>1. Weekday(day) \in 0..6
  BY SMT DEF Weekday
<1>2. CASE ~(Weekday(day) < 5)
  <2>1. Weekday(day) \in {5, 6}
    BY <1>1, <1>2, SMT
  <2> QED BY <1>2, <2>1, Zenon DEF IsOpen, ExchangeOpen
<1>3. CASE Weekday(day) < 5
  BY <1>3, HolidaysByRule, HolidaysByCode, Zenon
<1> QED BY <1>2, <1>3

-----------------------------------------------------------------------------
(* Sessions.  Any two holidays on weekdays are a week apart, so that four  *)
(* days of any seven are open.                                             *)

LEMMA OneHolidayAWeek ==
  ASSUME NEW a \in Int, NEW b \in Int, a < b, b <= a + 6,
         Known(a), Known(b), Weekday(a) < 5, Weekday(b) < 5, ~IsOpen(a)
  PROVE  IsOpen(b)
<1> SUFFICES ASSUME ~IsOpen(b) PROVE FALSE
  OBVIOUS
<1> DEFINE J == Date(YearOf(a), 1, 1)   N == Date(YearOf(a) + 1, 1, 1)
           K == Date(YearOf(b), 1, 1)   M == Date(YearOf(b) + 1, 1, 1)
           f == GoodFriday(YearOf(a))   g == GoodFriday(YearOf(b))
<1>1. /\ J \in Int /\ N \in Int /\ (N = J + 365 \/ N = J + 366)
      /\ J <= a /\ a < N
  BY Months, SMT
<1>2. /\ K \in Int /\ M \in Int /\ (M = K + 365 \/ M = K + 366)
      /\ K <= b /\ b < M
  BY Months, SMT
<1>3. (J = K /\ N = M /\ f = g) \/ N <= K
  BY SameYear, SMT
<1>4. /\ Weekday(f) = 4 /\ f \in (N - 286)..(N - 253)
      /\ Weekday(g) = 4 /\ g \in (M - 286)..(M - 253)
  BY YearOfDay, EasterIs, SMT
<1>5. Holiday(a, J, N, f)
  BY HolidaysByCode, Zenon
<1>6. Holiday(b, K, M, g)
  BY HolidaysByCode, Zenon
<1> HIDE DEF J, N, K, M, f, g
<1>8. CASE J = K /\ N = M /\ f = g
  BY <1>1, <1>2, <1>4, <1>5, <1>6, <1>8, SMTT(60) DEF Holiday, Fixed, Week, Weekday
<1>9. CASE N <= K
  BY <1>1, <1>2, <1>4, <1>5, <1>6, <1>9, SMTT(60) DEF Holiday, Fixed, Week, Weekday
<1> QED BY <1>3, <1>8, <1>9

(* A week has two days of weekend and at most one holiday.                 *)
LEMMA WeekOpen ==
  ASSUME NEW a \in Int, \A day \in a..(a + 6) : Known(day)
  PROVE  /\ IsFiniteSet(OpenBetween(a, a + 6)) /\ Cardinality(OpenBetween(a, a + 6)) \in Nat
         /\ Cardinality(OpenBetween(a, a + 6)) >= 4
<1> DEFINE W == a..(a + 6)
           C == {x \in W : ~IsOpen(x)}
           sat == a + ((5 - Weekday(a)) % 7)
           sun == a + ((6 - Weekday(a)) % 7)
<1>1. \A x \in W : x \in Int /\ (Weekday(x) < 5 \/ x = sat \/ x = sun)
  BY SMT DEF Weekday
<1>2. \E h \in W : C \subseteq {sat, sun, h}
  <2>1. CASE \E h \in C : Weekday(h) < 5
    <3>1. PICK h \in C : Weekday(h) < 5
      BY <2>1
    <3>2. ASSUME NEW x \in C, Weekday(x) < 5, x # h PROVE FALSE
      <4>1. /\ x \in W /\ h \in W /\ x \in Int /\ h \in Int
            /\ Known(x) /\ Known(h) /\ ~IsOpen(x) /\ ~IsOpen(h)
        BY <1>1
      <4>2. (x < h /\ h <= x + 6) \/ (h < x /\ x <= h + 6)
        BY <3>2, <4>1, SMT
      <4> QED BY <3>1, <3>2, <4>1, <4>2, OneHolidayAWeek, Zenon
    <3> QED BY <1>1, <3>1, <3>2
  <2>2. CASE ~\E h \in C : Weekday(h) < 5
    <3>1. a \in W
      BY SMT
    <3> HIDE DEF sat, sun
    <3> QED BY <1>1, <2>2, <3>1
  <2> QED BY <2>1, <2>2
<1>3. PICK h \in W : C \subseteq {sat, sun, h}
  BY <1>2
<1> HIDE DEF sat, sun
<1>4. IsFiniteSet({sat, sun, h}) /\ Cardinality({sat, sun, h}) \in Nat /\ Cardinality({sat, sun, h}) <= 3
  <2>1. IsFiniteSet({sat}) /\ Cardinality({sat}) = 1
    BY FS_Singleton
  <2>2. IsFiniteSet({sat} \cup {sun}) /\ Cardinality({sat} \cup {sun}) \in {1, 2}
    BY <2>1, FS_AddElement
  <2>3. /\ IsFiniteSet(({sat} \cup {sun}) \cup {h})
        /\ Cardinality(({sat} \cup {sun}) \cup {h}) \in {1, 2, 3}
    BY <2>2, FS_AddElement
  <2>4. ({sat} \cup {sun}) \cup {h} = {sat, sun, h}
    OBVIOUS
  <2> QED BY <2>3, <2>4, SMT
<1>5. IsFiniteSet(W) /\ Cardinality(W) = 7
  <2>1. PICK b \in Int : b = a + 6 /\ ~(a > b) /\ b - a + 1 = 7
    BY SMT
  <2>2. IsFiniteSet(a..b) /\ Cardinality(a..b) = 7
    BY <2>1, FS_Interval, SMT
  <2> QED BY <2>1, <2>2
<1>6. C \in SUBSET {sat, sun, h} /\ OpenBetween(a, a + 6) = W \ C /\ W \cap C = C
  BY <1>3 DEF OpenBetween
<1> HIDE DEF W, C
<1>7. IsFiniteSet(C) /\ Cardinality(C) \in Nat /\ Cardinality(C) <= Cardinality({sat, sun, h})
  BY <1>4, <1>6, FS_Subset, FS_CardinalityType, Zenon
<1>8. IsFiniteSet(W \ C) /\ Cardinality(W \ C) = 7 - Cardinality(C)
  BY <1>5, <1>6, FS_Difference, Zenon
<1> QED BY <1>4, <1>6, <1>7, <1>8, SMT

LEMMA OpenFinite ==
  ASSUME NEW a \in Int, NEW b \in Int
  PROVE  /\ IsFiniteSet(OpenBetween(a, b)) /\ Cardinality(OpenBetween(a, b)) \in Nat
         /\ OpenBetween(a, b) \in SUBSET (a..b)
<1>1. OpenBetween(a, b) \in SUBSET (a..b)
  BY DEF OpenBetween
<1> QED BY <1>1, FS_Interval, FS_Subset, FS_CardinalityType

(* So count sessions lie in any 2 * count + 5 days: the loops of           *)
(* previous_sessions and next_sessions end within the days looked at here. *)
LEMMA EnoughOpen ==
  ASSUME NEW a \in Int, NEW count \in Nat \ {0},
         \A day \in a..(a + 2 * count + 4) : Known(day)
  PROVE  Cardinality(OpenBetween(a, a + 2 * count + 4)) >= count
<1> DEFINE O(c) == OpenBetween(a, a + 2 * c + 4)
           A == {c \in Nat : c >= 1 /\ c <= count /\ ~(Cardinality(O(c)) >= c)}
<1> SUFFICES ASSUME A # {} PROVE FALSE
  BY SMT
<1>1. PICK c \in A : \A m \in A : c <= m
  <2>1. A \in SUBSET Nat
    OBVIOUS
  <2> HIDE DEF A
  <2> QED BY <2>1, SmallestNumber
<1>2. /\ c \in Nat /\ c >= 1 /\ c <= count /\ ~(Cardinality(O(c)) >= c)
      /\ a + 2 * c + 4 \in Int
  BY <1>1, SMT
<1>3. IsFiniteSet(O(c)) /\ Cardinality(O(c)) \in Nat
  BY <1>2, OpenFinite
<1>4. CASE c <= 4
  <2>1. \A day \in a..(a + 6) : Known(day)
    BY <1>2, SMT
  <2>2. Cardinality(OpenBetween(a, a + 6)) \in Nat /\ Cardinality(OpenBetween(a, a + 6)) >= 4
    BY <2>1, WeekOpen, Zenon
  <2>3. OpenBetween(a, a + 6) \in SUBSET O(c)
    BY <1>2, SMT DEF OpenBetween
  <2>4. Cardinality(OpenBetween(a, a + 6)) <= Cardinality(O(c))
    BY <1>3, <2>3, FS_Subset
  <2> QED BY <1>2, <1>3, <1>4, <2>2, <2>4, SMT
<1>5. CASE c > 4
  <2> DEFINE e == c - 4
             f == a + 2 * c - 3
             P == O(e)
             Q == OpenBetween(f, f + 6)
  <2>1. /\ e \in Nat /\ e >= 1 /\ e <= count /\ e < c /\ f \in Int
        /\ a + 2 * e + 4 \in Int /\ a + 2 * e + 4 = f - 1 /\ f + 6 <= a + 2 * c + 4
        /\ f + 6 \in Int /\ a <= f
    BY <1>2, <1>5, SMT
  <2> HIDE DEF e
  <2>2. Cardinality(P) >= e
    BY <1>1, <2>1, SMT
  <2> HIDE DEF f
  <2>3. \A day \in f..(f + 6) : Known(day)
    BY <1>2, <2>1, SMT
  <2>4. IsFiniteSet(Q) /\ Cardinality(Q) \in Nat /\ Cardinality(Q) >= 4
    BY <2>1, <2>3, WeekOpen, Zenon
  <2>5. IsFiniteSet(P) /\ Cardinality(P) \in Nat
    BY <2>1, OpenFinite
  <2>6. P \cap Q = {}
    BY <2>1, SMT DEF OpenBetween
  <2>7. P \cup Q \in SUBSET O(c)
    BY <1>2, <2>1, SMT DEF OpenBetween
  <2> HIDE DEF P, Q
  <2>8. Cardinality(P \cup Q) = Cardinality(P) + Cardinality(Q)
    <3>1. Cardinality(P \cup Q) = Cardinality(P) + Cardinality(Q) - Cardinality(P \cap Q)
      BY <2>4, <2>5, FS_Union
    <3>2. Cardinality(P \cap Q) = 0
      BY <2>6, FS_EmptySet
    <3> QED BY <2>4, <2>5, <3>1, <3>2, SMT
  <2>9. Cardinality(P \cup Q) <= Cardinality(O(c))
    BY <1>3, <2>7, FS_Subset
  <2>10. e + 4 = c
    BY <1>2, SMT DEF e
  <2> HIDE DEF O
  <2> QED BY <1>2, <1>3, <2>1, <2>2, <2>4, <2>5, <2>8, <2>9, <2>10, SMT
<1> QED BY <1>2, <1>4, <1>5, SMT

LEMMA SomeDayOpen ==
  ASSUME NEW a \in Int, \A day \in a..(a + 6) : Known(day)
  PROVE  \E day \in a..(a + 6) : IsOpen(day)
<1>1. OpenBetween(a, a + 6) # {}
  <2>1. Cardinality(OpenBetween(a, a + 6)) >= 4
    BY WeekOpen, Zenon
  <2>2. Cardinality({}) = 0 /\ ~(0 >= 4)
    BY FS_EmptySet, SMT
  <2> QED BY <2>1, <2>2, Zenon
<1> QED BY <1>1 DEF OpenBetween

(* The sessions of a window, counted from either end.                      *)
LEMMA Ends ==
  ASSUME NEW a \in Int, NEW b \in Int, NEW S \in SUBSET (a..b), S # {}
  PROVE  /\ IsFiniteSet(S)
         /\ \E lo \in S : \A x \in S : lo <= x
         /\ \E hi \in S : \A x \in S : x <= hi
<1>1. IsFiniteSet(S)
  BY FS_Interval, FS_Subset
<1>2. \E lo \in S : \A x \in S : lo <= x
  <2> DEFINE A == {n \in Nat : a + n \in S}
  <2>1. \A x \in S : \E n \in A : x = a + n
    BY SMT
  <2>2. A \in SUBSET Nat /\ A # {}
    BY <2>1
  <2>3. PICK n \in A : \A m \in A : n <= m
    BY <2>2, SmallestNumber
  <2> QED BY <2>1, <2>3, SMT
<1>3. \E hi \in S : \A x \in S : x <= hi
  <2> DEFINE A == {n \in Nat : b - n \in S}
  <2>1. \A x \in S : \E n \in A : x = b - n
    BY SMT
  <2>2. A \in SUBSET Nat /\ A # {}
    BY <2>1
  <2>3. PICK n \in A : \A m \in A : n <= m
    BY <2>2, SmallestNumber
  <2> QED BY <2>1, <2>3, SMT
<1> QED BY <1>1, <1>2, <1>3

LEMMA LastSession ==
  ASSUME NEW a \in Int, NEW b \in Int, NEW S \in SUBSET (a..b), S # {}
  PROVE  /\ NthSession(S, Cardinality(S) - 1 + 1) \in S
         /\ \A x \in S : x <= NthSession(S, Cardinality(S) - 1 + 1)
<1> DEFINE Upto(day) == {x \in S : x <= day}
           n == Cardinality(S) - 1 + 1
<1>1. IsFiniteSet(S)
  BY Ends
<1>2. Cardinality(S) \in Nat /\ n = Cardinality(S)
  BY <1>1, FS_CardinalityType, SMT
<1>3. PICK hi \in S : \A x \in S : x <= hi
  BY Ends
<1>4. Cardinality(Upto(hi)) = n
  <2>1. Upto(hi) = S
    BY <1>3
  <2> QED BY <1>2, <2>1
<1> DEFINE last == NthSession(S, n)
<1>5. last \in S /\ Cardinality(Upto(last)) = n
  BY <1>4 DEF NthSession
<1>6. Upto(last) = S
  BY <1>1, <1>2, <1>5, FS_Subset
<1> QED BY <1>5, <1>6

LEMMA FirstSessions ==
  ASSUME NEW start \in Int, NEW count \in Nat \ {0}, NEW open \in (start)..(start + 7),
         IsOpen(open)
  PROVE  LET T == NextSessions(count, start) IN
         /\ T \in SUBSET (start..(start + 2 * count + 5)) /\ T # {}
         /\ \A x \in T : IsOpen(x)
         /\ \A x \in T : \A y \in start..x : IsOpen(y) => y \in T
         /\ \E lo \in T : /\ \A x \in start..(start + 2 * count + 5) : IsOpen(x) => lo <= x
                          /\ count = 1 => T = {lo}
<1> DEFINE last == start + 2 * count + 5
           S == OpenBetween(start, last)
           Below(day) == {x \in S : x < day}
           T == NextSessions(count, start)
<1>0. last \in Int /\ S \in SUBSET (start..last) /\ (\A x \in S : x \in Int)
  BY SMT DEF OpenBetween
<1>1. open \in S
  BY SMT DEF OpenBetween
<1>2. T = {day \in S : Cardinality(Below(day)) < count}
  BY Zenon DEF NextSessions
<1>3. S # {}
  BY <1>1
<1>4. IsFiniteSet(S)
  BY <1>0, <1>3, Ends
<1>5. PICK lo \in S : \A x \in S : lo <= x
  BY <1>0, <1>3, Ends, Zenon
<1>6. \A x \in start..last : IsOpen(x) => x \in S
  BY Zenon DEF OpenBetween
<1>7. \A day \in S : IsFiniteSet(Below(day)) /\ Cardinality(Below(day)) \in Nat
  <2> SUFFICES ASSUME NEW day \in S
               PROVE  IsFiniteSet(Below(day)) /\ Cardinality(Below(day)) \in Nat
    OBVIOUS
  <2>1. Below(day) \in SUBSET S
    OBVIOUS
  <2> QED BY <1>4, <2>1, FS_Subset, FS_CardinalityType
<1>8. Cardinality(Below(lo)) = 0
  <2>1. Below(lo) = {}
    BY <1>0, <1>5, SMT
  <2> QED BY <2>1, FS_EmptySet
<1>9. ASSUME NEW x \in T, NEW y \in start..x, IsOpen(y) PROVE y \in T
  <2>1. x \in S /\ Cardinality(Below(x)) < count /\ x \in Int /\ y \in Int
    BY <1>0, <1>2, SMT
  <2>2. y \in S
    BY <1>0, <1>6, <1>9, <2>1, SMT
  <2>3. Below(y) \in SUBSET Below(x)
    BY <1>0, <2>1, <1>9, SMT
  <2>4. Cardinality(Below(y)) <= Cardinality(Below(x))
    BY <1>7, <2>1, <2>3, FS_Subset
  <2> HIDE DEF Below
  <2>5. Cardinality(Below(y)) < count
    BY <1>7, <2>1, <2>2, <2>4, SMT
  <2> QED BY <1>2, <2>2, <2>5, Zenon
<1>10. lo \in T
  <2>1. 0 < count
    BY SMT
  <2> QED BY <1>2, <1>8, <2>1, Zenon
<1>11. count = 1 => T = {lo}
  <2> SUFFICES ASSUME count = 1, NEW x \in T PROVE x = lo
    BY <1>10
  <2>1. x \in S /\ Cardinality(Below(x)) = 0
    BY <1>2, <1>7, SMT
  <2>2. Below(x) = {}
    BY <1>7, <2>1, FS_EmptySet
  <2> QED BY <1>0, <1>5, <2>1, <2>2, SMT
<1>12. \A x \in T : IsOpen(x)
  BY <1>2, Zenon DEF OpenBetween
<1>13. T \in SUBSET (start..last)
  BY <1>0, <1>2, Zenon
<1> HIDE DEF T, S, last
<1> QED BY <1>5, <1>6, <1>9, <1>10, <1>11, <1>12, <1>13, Zenon DEF T, last

(* Of the sessions S, those before and those through a day, and the count  *)
(* with fewer than count before them, as next_sessions collects them.      *)
Before(S, day) == {x \in S : x < day}
Through(S, day) == {x \in S : x <= day}
FirstFew(S, count) == {day \in S : Cardinality(Before(S, day)) < count}

LEMMA SomeOf ==
  ASSUME NEW a \in Int, NEW b \in Int, NEW S \in SUBSET (a..b)
  PROVE  /\ IsFiniteSet(S) /\ Cardinality(S) \in Nat
         /\ \A x \in S : x \in Int
         /\ \A day : /\ Before(S, day) \in SUBSET S /\ IsFiniteSet(Before(S, day))
                     /\ Cardinality(Before(S, day)) \in Nat
         /\ \A day, x : x \in Before(S, day) <=> x \in S /\ x < day
         /\ \A day, x : x \in Through(S, day) <=> x \in S /\ x <= day
         /\ \A count, x : x \in FirstFew(S, count)
                            <=> x \in S /\ Cardinality(Before(S, x)) < count
<1>1. IsFiniteSet(S) /\ Cardinality(S) \in Nat
  BY FS_Interval, FS_Subset, FS_CardinalityType
<1>2. \A x \in S : x \in Int
  BY SMT
<1>3. \A day : /\ Before(S, day) \in SUBSET S /\ IsFiniteSet(Before(S, day))
               /\ Cardinality(Before(S, day)) \in Nat
  <2> TAKE day
  <2>1. Before(S, day) \in SUBSET S
    BY DEF Before
  <2> QED BY <1>1, <2>1, FS_Subset, FS_CardinalityType
<1>4. \A day, x : x \in Before(S, day) <=> x \in S /\ x < day
  BY Zenon DEF Before
<1>5. \A day, x : x \in Through(S, day) <=> x \in S /\ x <= day
  BY Zenon DEF Through
<1>6. \A count, x : x \in FirstFew(S, count)
                     <=> x \in S /\ Cardinality(Before(S, x)) < count
  BY Zenon DEF FirstFew
<1> QED BY <1>1, <1>2, <1>3, <1>4, <1>5, <1>6, Zenon

(* They are the first count, and one has rank count.                       *)
LEMMA FirstOf ==
  ASSUME NEW a \in Int, NEW b \in Int, NEW S \in SUBSET (a..b),
         NEW count \in Nat \ {0}, count <= Cardinality(S)
  PROVE  /\ Cardinality(FirstFew(S, count)) = count
         /\ \E hi \in S : /\ hi \in FirstFew(S, count)
                          /\ FirstFew(S, count) = Through(S, hi)
<1> DEFINE T == FirstFew(S, count)
<1>1. /\ IsFiniteSet(S) /\ Cardinality(S) \in Nat
      /\ \A x \in S : x \in Int
      /\ \A day : /\ Before(S, day) \in SUBSET S /\ IsFiniteSet(Before(S, day))
                  /\ Cardinality(Before(S, day)) \in Nat
      /\ \A day, x : x \in Before(S, day) <=> x \in S /\ x < day
      /\ \A day, x : x \in Through(S, day) <=> x \in S /\ x <= day
  BY SomeOf
<1>2. \A x : x \in T <=> x \in S /\ Cardinality(Before(S, x)) < count
  BY SomeOf
<1> HIDE DEF T
<1>3. S # {}
  BY <1>1, FS_EmptySet, SMT
<1>4. PICK lo \in S : \A x \in S : lo <= x
  BY <1>3, Ends, Zenon
<1>5. lo \in T
  <2>1. ASSUME NEW x \in Before(S, lo) PROVE FALSE
    <3>1. x \in S /\ x < lo /\ x \in Int /\ lo \in Int
      BY <1>1
    <3>2. lo <= x
      BY <1>4, <3>1
    <3> QED BY <3>1, <3>2, SMT
  <2>2. Cardinality(Before(S, lo)) = 0
    BY <2>1, FS_EmptySet
  <2> QED BY <1>2, <1>4, <2>2, SMT
<1>6. T \in SUBSET (a..b) /\ T # {} /\ T \in SUBSET S
  BY <1>2, <1>5
<1>7. ASSUME NEW x \in T, NEW y \in S, y <= x PROVE y \in T
  <2>0. x \in S /\ x \in Int /\ y \in Int /\ Cardinality(Before(S, x)) < count
    BY <1>1, <1>2
  <2>1. ASSUME NEW z \in Before(S, y) PROVE z \in Before(S, x)
    <3>1. z \in S /\ z < y /\ z \in Int
      BY <1>1
    <3>2. z < x
      BY <1>7, <2>0, <3>1, SMT
    <3> QED BY <1>1, <3>1, <3>2
  <2>2. Cardinality(Before(S, y)) <= Cardinality(Before(S, x))
    <3>1. Before(S, y) \in SUBSET Before(S, x)
      BY <2>1
    <3> QED BY <1>1, <3>1, FS_Subset
  <2>3. Cardinality(Before(S, x)) \in Nat /\ Cardinality(Before(S, y)) \in Nat
    BY <1>1
  <2>4. Cardinality(Before(S, y)) < count
    BY <2>0, <2>2, <2>3, SMT
  <2> QED BY <1>2, <2>4
<1>8. PICK hi \in T : \A x \in T : x <= hi
  BY <1>6, Ends, Zenon
<1>9. hi \in S /\ hi \in Int /\ Cardinality(Before(S, hi)) < count
  BY <1>1, <1>2
<1>10. T = Through(S, hi)
  <2>1. \A x \in T : x \in Through(S, hi)
    BY <1>1, <1>6, <1>8
  <2>2. ASSUME NEW x \in Through(S, hi) PROVE x \in T
    BY <1>1, <1>7
  <2> QED BY <2>1, <2>2
<1>11. IsFiniteSet(T) /\ Cardinality(T) \in Nat
  BY <1>1, <1>6, FS_Subset, FS_CardinalityType
<1>12. Cardinality(T) = Cardinality(Before(S, hi)) + 1
  <2>1. hi \notin Before(S, hi)
    BY <1>1, <1>9, SMT
  <2>2. ASSUME NEW x \in T PROVE x \in Before(S, hi) \cup {hi}
    BY <1>1, <1>6, <1>8, <1>9, SMT
  <2>3. ASSUME NEW x \in Before(S, hi) PROVE x \in T
    <3>1. x \in S /\ x < hi /\ x \in Int
      BY <1>1
    <3>2. x <= hi
      BY <1>9, <3>1, SMT
    <3> QED BY <1>7, <3>1, <3>2
  <2>4. T = Before(S, hi) \cup {hi}
    BY <2>2, <2>3
  <2> QED BY <1>1, <2>1, <2>4, FS_AddElement
<1>13. ~(Cardinality(T) < count)
  <2> SUFFICES ASSUME Cardinality(T) < count PROVE FALSE
    OBVIOUS
  <2>1. S # T
    BY <1>1, <1>11, SMT
  <2>2. S \ T # {} /\ S \ T \in SUBSET (a..b)
    BY <1>6, <2>1
  <2>3. PICK m \in S \ T : \A x \in S \ T : m <= x
    <3> DEFINE R == S \ T
    <3>1. R # {} /\ R \in SUBSET (a..b)
      BY <2>2
    <3> HIDE DEF R
    <3>2. \E m \in R : \A x \in R : m <= x
      BY <3>1, Ends, Zenon
    <3> QED BY <3>2 DEF R
  <2>4. ASSUME NEW x \in Before(S, m) PROVE x \in T
    <3>1. x \in S /\ x < m /\ x \in Int /\ m \in Int
      BY <1>1
    <3>2. ~(m <= x)
      BY <3>1, SMT
    <3> QED BY <2>3, <3>1, <3>2
  <2>5. ASSUME NEW x \in T PROVE x \in Before(S, m)
    <3>1. x \in S /\ x \in Int /\ m \in Int /\ m \in S
      BY <1>1, <1>6
    <3>2. ~(m <= x)
      BY <1>7, <2>3
    <3>3. x < m
      BY <3>1, <3>2, SMT
    <3> QED BY <1>1, <3>1, <3>3
  <2>6. Before(S, m) = T
    BY <2>4, <2>5
  <2>7. ~(Cardinality(Before(S, m)) < count)
    BY <1>2, <2>3
  <2> QED BY <2>6, <2>7
<1>14. Cardinality(T) = count
  BY <1>1, <1>9, <1>11, <1>12, <1>13, SMT
<1> QED BY <1>8, <1>9, <1>10, <1>14 DEF T

(* next_sessions returns as many sessions as it was asked for, from its    *)
(* start on and none left out, for every count: the days the model looks   *)
(* at are enough for the code's loop.                                      *)
THEOREM NextSessionsCounted ==
  ASSUME NEW start \in Int, NEW count \in Nat \ {0},
         \A day \in start..(start + 2 * count + 5) : Known(day)
  PROVE  /\ Cardinality(NextSessions(count, start)) = count
         /\ \E last \in NextSessions(count, start) :
              NextSessions(count, start) = OpenBetween(start, last)
<1> DEFINE b == start + 2 * count + 5
           S == OpenBetween(start, b)
           T == NextSessions(count, start)
<1>1. b \in Int /\ start + 2 * count + 4 \in Int
  BY SMT
<1>2. S \in SUBSET (start..b) /\ IsFiniteSet(S) /\ Cardinality(S) \in Nat
  <2> HIDE DEF b
  <2> QED BY <1>1, OpenFinite
<1>3. count <= Cardinality(S)
  <2>1. Cardinality(OpenBetween(start, start + 2 * count + 4)) >= count
    <3>1. \A day \in start..(start + 2 * count + 4) : Known(day)
      BY SMT
    <3> QED BY <3>1, EnoughOpen, Zenon
  <2>2. OpenBetween(start, start + 2 * count + 4) \in SUBSET S
    BY SMT DEF OpenBetween
  <2>3. /\ Cardinality(OpenBetween(start, start + 2 * count + 4)) \in Nat
        /\ Cardinality(OpenBetween(start, start + 2 * count + 4)) <= Cardinality(S)
    <3>1. Cardinality(OpenBetween(start, start + 2 * count + 4)) \in Nat
      BY <1>1, OpenFinite
    <3> QED BY <1>2, <2>2, <3>1, FS_Subset
  <2> HIDE DEF S
  <2> QED BY <1>2, <2>1, <2>3, SMT
<1>4. T = FirstFew(S, count)
  BY Zenon DEF NextSessions, FirstFew, Before
<1>5. \A hi : \A x : /\ x \in OpenBetween(start, hi) <=> x \in start..hi /\ IsOpen(x)
                     /\ x \in S <=> x \in start..b /\ IsOpen(x)
  BY Zenon DEF OpenBetween
<1> HIDE DEF T, S, b
<1>6. Cardinality(T) = count /\ \E hi \in S : hi \in T /\ T = Through(S, hi)
  <2>1. /\ Cardinality(FirstFew(S, count)) = count
        /\ \E hi \in S : hi \in FirstFew(S, count) /\ FirstFew(S, count) = Through(S, hi)
    BY <1>1, <1>2, <1>3, FirstOf
  <2> QED BY <1>4, <2>1
<1>7. PICK hi \in S : hi \in T /\ T = Through(S, hi)
  BY <1>6
<1>8. \A x : x \in Through(S, hi) <=> x \in OpenBetween(start, hi)
  <2>1. \A x : x \in Through(S, hi) <=> x \in S /\ x <= hi
    BY <1>1, <1>2, SomeOf
  <2>2. hi \in start..b
    BY <1>2
  <2> QED BY <1>1, <1>5, <2>1, <2>2, SMT
<1>9. T = OpenBetween(start, hi)
  BY <1>7, <1>8
<1> QED BY <1>6, <1>7, <1>9 DEF T

(* previous_sessions(before, count)[-1], the entry session of a strategy   *)
(* that enters count sessions before an ex-date: it is open, and with it   *)
(* exactly count sessions lie before that day.                             *)
THEOREM PreviousSessionCounted ==
  ASSUME NEW before \in Int, NEW count \in Nat \ {0},
         \A day \in (before - 2 * count - 5)..(before - 1) : Known(day)
  PROVE  LET entry == PreviousSession(before, count) IN
         /\ entry \in (before - 2 * count - 5)..(before - 1) /\ IsOpen(entry)
         /\ Cardinality(OpenBetween(entry, before - 1)) = count
<1> DEFINE a == before - 2 * count - 5
           b == before - 1
           S == OpenBetween(a, b)
           n == Cardinality(S) - count + 1
           entry == NthSession(S, n)
<1>1. a \in Int /\ b \in Int /\ b = a + 2 * count + 4
  BY SMT
<1>2. \A day \in a..(a + 2 * count + 4) : Known(day)
  BY <1>1, SMT
<1>3. PreviousSession(before, count) = entry
  BY Zenon DEF PreviousSession
<1> HIDE DEF a, b
<1>4. S \in SUBSET (a..b) /\ IsFiniteSet(S) /\ Cardinality(S) \in Nat
  BY <1>1, OpenFinite
<1>5. Cardinality(S) >= count
  BY <1>1, <1>2, EnoughOpen, SMT
<1>6. \A x \in S : IsOpen(x) /\ x \in Int
  BY <1>1, <1>4, SMT DEF OpenBetween
<1>7. \A day : \A x : /\ x \in OpenBetween(day, b) <=> x \in day..b /\ IsOpen(x)
                      /\ x \in S <=> x \in a..b /\ IsOpen(x)
  BY Zenon DEF OpenBetween
<1> HIDE DEF S
<1>8. \A day, x : x \in Through(S, day) <=> x \in S /\ x <= day
  <2>1. S \in SUBSET (a..b) /\ a \in Int /\ b \in Int
    BY <1>1, <1>4
  <2> QED BY <2>1, SomeOf, Zenon
<1>9. n \in Nat \ {0} /\ n <= Cardinality(S)
  BY <1>4, <1>5, SMT
<1>10. entry \in S /\ Cardinality(Through(S, entry)) = n
  <2> HIDE DEF n
  <2>1. \E hi \in S : Cardinality(Through(S, hi)) = n
    <3>1. S \in SUBSET (a..b) /\ a \in Int /\ b \in Int
      BY <1>1, <1>4
    <3>2. /\ Cardinality(FirstFew(S, n)) = n
          /\ \E hi \in S : hi \in FirstFew(S, n) /\ FirstFew(S, n) = Through(S, hi)
      BY <1>9, <3>1, FirstOf, Zenon
    <3> QED BY <3>2
  <2>2. \A hi : Through(S, hi) = {x \in S : x <= hi}
    BY Zenon DEF Through
  <2>3. entry = CHOOSE day \in S : Cardinality(Through(S, day)) = n
    BY <2>2, Zenon DEF NthSession, Through
  <2> HIDE DEF entry
  <2> QED BY <2>1, <2>3, Zenon
<1> HIDE DEF entry, n
<1>11. entry \in Int /\ entry \in a..b
  BY <1>4, <1>6, <1>10
<1> DEFINE U == Through(S, entry)
           V == S \ U
<1>12. OpenBetween(entry, b) = V \cup {entry}
  <2>1. \A x \in OpenBetween(entry, b) : x \in V \cup {entry}
    BY <1>1, <1>7, <1>8, <1>11, SMT
  <2>2. \A x \in V : x \in OpenBetween(entry, b)
    BY <1>1, <1>6, <1>7, <1>8, <1>11, SMT
  <2>3. entry \in OpenBetween(entry, b)
    BY <1>1, <1>6, <1>7, <1>10, <1>11, SMT
  <2> QED BY <2>1, <2>2, <2>3
<1>13. IsFiniteSet(V) /\ Cardinality(V) = Cardinality(S) - n /\ entry \notin V
  <2>1. S \cap U = U /\ entry \in U
    BY <1>8, <1>10, <1>11, SMT
  <2> HIDE DEF U
  <2>2. IsFiniteSet(U)
    BY <1>4, <2>1, FS_Subset
  <2>3. IsFiniteSet(S \ U) /\ Cardinality(S \ U) = Cardinality(S) - Cardinality(S \cap U)
    BY <1>4, <2>2, FS_Difference
  <2> QED BY <1>10, <2>1, <2>3 DEF U
<1> HIDE DEF U, V
<1>14. Cardinality(V \cup {entry}) = Cardinality(S) - n + 1
  BY <1>13, FS_AddElement
<1>15. Cardinality(S) - n + 1 = count
  BY <1>4, SMT DEF n
<1>16. entry \in a..b /\ IsOpen(entry) /\ Cardinality(OpenBetween(entry, b)) = count
  BY <1>6, <1>10, <1>11, <1>12, <1>14, <1>15
<1> QED BY <1>3, <1>16 DEF a, b

(* The entry session is the last before the ex-date.                       *)
LEMMA EntrySession ==
  ASSUME NEW ex \in Int, NEW open \in (ex - 7)..(ex - 1), IsOpen(open)
  PROVE  /\ DividendEntry(ex, 1) \in (ex - 7)..(ex - 1)
         /\ IsOpen(DividendEntry(ex, 1))
         /\ \A day \in (DividendEntry(ex, 1) + 1)..(ex - 1) : ~IsOpen(day)
<1> DEFINE a == ex - 2 * 1 - 5
           S == OpenBetween(a, ex - 1)
           entry == NthSession(S, Cardinality(S) - 1 + 1)
<1>1. a = ex - 7 /\ a \in Int /\ ex - 1 \in Int
  BY SMT
<1>2. DividendEntry(ex, 1) = entry
  BY DEF DividendEntry, PreviousSession
<1>3. S = {day \in a..(ex - 1) : IsOpen(day)}
  BY DEF OpenBetween
<1> HIDE DEF S, a
<1>4. S \in SUBSET (a..(ex - 1)) /\ S # {}
  BY <1>1, <1>3, SMT
<1>5. entry \in S /\ \A x \in S : x <= entry
  BY <1>1, <1>4, LastSession, Zenon
<1> HIDE DEF entry
<1> QED BY <1>1, <1>2, <1>3, <1>5, SMT

(* A session can be traded from the actionable start on, and no earlier.   *)
LEMMA Actionable ==
  ASSUME today \in Int, NEW open \in (today + 1)..(today + 7), IsOpen(open)
  PROVE  /\ ActionableStart \in Int /\ today <= ActionableStart
         /\ IsOpen(ActionableStart)
         /\ \A day \in Int : IsOpen(day) =>
              (ActionableStart <= day <=> day > today \/ (day = today /\ ~afterClose))
<1>1. CASE IsOpen(today) /\ ~afterClose
  <2>1. ActionableStart = today
    BY <1>1 DEF ActionableStart
  <2> QED BY <1>1, <2>1, SMT
<1>2. CASE ~(IsOpen(today) /\ ~afterClose)
  <2> DEFINE T == NextSessions(1, today + 1)
  <2>1. today + 1 \in Int /\ 1 \in Nat \ {0} /\ open \in (today + 1)..(today + 1 + 7)
    BY SMT
  <2>2. /\ T \in SUBSET ((today + 1)..(today + 1 + 2 * 1 + 5)) /\ (\A x \in T : IsOpen(x))
        /\ \E lo \in T : /\ \A x \in (today + 1)..(today + 1 + 2 * 1 + 5) : IsOpen(x) => lo <= x
                         /\ T = {lo}
    BY <2>1, FirstSessions, SMT
  <2> HIDE DEF T
  <2>3. PICK lo \in T : /\ \A x \in (today + 1)..(today + 1 + 2 * 1 + 5) : IsOpen(x) => lo <= x
                        /\ T = {lo}
    BY <2>2
  <2>4. lo \in Int /\ today + 1 <= lo /\ lo <= today + 8 /\ IsOpen(lo)
    BY <2>2, <2>3, SMT
  <2>5. Min(T) = lo
    BY <2>3, <2>4, SMT DEF Min
  <2>6. ActionableStart = lo
    BY <1>2, <2>5, Zenon DEF ActionableStart, T
  <2>7. ASSUME NEW day \in Int, IsOpen(day)
        PROVE  lo <= day <=> day > today \/ (day = today /\ ~afterClose)
    <3>1. ~(day = today /\ ~afterClose)
      BY <1>2, <2>7
    <3>2. day > today => lo <= day
      BY <2>3, <2>4, <2>7, SMT
    <3> QED BY <2>4, <3>1, <3>2, SMT
  <2> QED BY <2>4, <2>6, <2>7, SMT
<1> QED BY <1>1, <1>2

CalendarInv ==
  today \in Int /\ DateOf(FirstDate) <= today /\ today <= DateOf(LastDate)

LEMMA CalendarInvOffers == CalendarInv => EntryOffered
<1> SUFFICES ASSUME CalendarInv PROVE EntryOffered
  OBVIOUS
<1> USE DEF CalendarInv
<1>1. today \in Int /\ \A day \in (today - 7)..(today + 8) : Known(day)
  BY CalendarAssumption, SMT DEF Known
<1>2. \E open \in (today + 1)..(today + 7) : IsOpen(open)
  <2>1. today + 1 \in Int /\ \A day \in (today + 1)..(today + 1 + 6) : Known(day)
    BY <1>1, SMT
  <2>2. \E open \in (today + 1)..(today + 1 + 6) : IsOpen(open)
    <3>1. PICK a \in Int : a = today + 1
      BY <2>1
    <3>2. \A day \in a..(a + 6) : Known(day)
      BY <2>1, <3>1
    <3>3. \E open \in a..(a + 6) : IsOpen(open)
      BY <3>2, SomeDayOpen, Zenon
    <3> QED BY <3>1, <3>3
  <2> QED BY <1>1, <2>2, SMT
<1> DEFINE start == ActionableStart
           calendar == NextSessions(ShownSessions, start)
           last == Max(calendar)
<1>3. /\ start \in Int /\ today <= start /\ IsOpen(start)
      /\ \A day \in Int : IsOpen(day) =>
           (start <= day <=> day > today \/ (day = today /\ ~afterClose))
  BY <1>1, <1>2, Actionable, Zenon
<1>4. /\ calendar \in SUBSET (start..(start + 2 * ShownSessions + 5)) /\ calendar # {}
      /\ \A x \in calendar : IsOpen(x)
      /\ \A x \in calendar : \A y \in start..x : IsOpen(y) => y \in calendar
  <2>1. ShownSessions \in Nat \ {0} /\ start \in start..(start + 7)
    BY <1>3, CalendarAssumption, SMT
  <2> QED BY <1>3, <2>1, FirstSessions, Zenon
<1>5. start + 2 * ShownSessions + 5 \in Int
  BY <1>3, CalendarAssumption, SMT
<1>6. last \in calendar /\ \A x \in calendar : x <= last
  <2> HIDE DEF calendar
  <2>1. PICK hi \in calendar : \A x \in calendar : x <= hi
    BY <1>3, <1>4, <1>5, Ends, Zenon
  <2>2. \A x \in calendar : hi >= x
    BY <1>3, <1>4, <1>5, <2>1, SMT
  <2>3. \A x \in calendar : last >= x
    BY <2>2, Zenon DEF Max
  <2>4. last \in calendar
    BY <2>2, Zenon DEF Max
  <2> QED BY <1>3, <1>4, <1>5, <2>3, <2>4, SMT
<1>7. ShownDates = {ex \in start..(last + 1) : DividendEntry(ex, 1) \in calendar}
  BY Zenon DEF ShownDates
<1> HIDE DEF start, calendar, last
<1>8. last \in Int /\ start <= last /\ IsOpen(last)
  BY <1>3, <1>4, <1>5, <1>6, SMT
<1>9. ASSUME NEW ex \in (today + 1)..(today + 8), NEW entry, entry = DividendEntry(ex, 1),
             NEW tradable \in BOOLEAN,
             tradable <=> entry > today \/ (entry = today /\ ~afterClose)
      PROVE  /\ entry < ex /\ ExchangeOpen(entry)
             /\ \A day \in (entry + 1)..(ex - 1) : ~ExchangeOpen(day)
             /\ LapsesFor(entry) <=> ~tradable
             /\ ex \in ShownDates => tradable
             /\ tradable /\ entry < last => ex \in ShownDates
  <2>1. ex \in Int /\ \A day \in (ex - 8)..ex : Known(day)
    BY <1>1, SMT
  <2>2. \E open \in (ex - 7)..(ex - 1) : IsOpen(open)
    <3>1. ex - 7 \in Int /\ \A day \in (ex - 7)..(ex - 7 + 6) : Known(day)
      BY <2>1, SMT
    <3>2. \E open \in (ex - 7)..(ex - 7 + 6) : IsOpen(open)
      BY <3>1, SomeDayOpen, Zenon
    <3> QED BY <2>1, <3>2, SMT
  <2>3. /\ entry \in (ex - 7)..(ex - 1) /\ IsOpen(entry)
        /\ \A day \in (entry + 1)..(ex - 1) : ~IsOpen(day)
    BY <1>9, <2>1, <2>2, EntrySession, Zenon
  <2>4. \A day \in (ex - 7)..(ex - 1) : IsOpen(day) <=> ExchangeOpen(day)
    <3> SUFFICES ASSUME NEW day \in (ex - 7)..(ex - 1)
                 PROVE  IsOpen(day) <=> ExchangeOpen(day)
      OBVIOUS
    <3>1. day \in Int /\ Known(day - 1) /\ Known(day) /\ Known(day + 1)
      BY <2>1, SMT
    <3> QED BY <3>1, OpenAsRuled, Zenon
  <2>5. entry \in Int /\ entry < ex
    BY <2>1, <2>3, SMT
  <2>6. \A day \in (entry + 1)..(ex - 1) : ~ExchangeOpen(day)
    BY <2>1, <2>3, <2>4, SMT
  <2>7. start <= entry <=> tradable
    BY <1>3, <1>9, <2>3, <2>5, Zenon
  <2>8. LapsesFor(entry) <=> ~tradable
    BY <1>3, <2>5, <2>7, SMT DEF LapsesFor, start
  <2>9. ASSUME ex \in ShownDates PROVE tradable
    <3>1. entry \in calendar
      BY <1>7, <1>9, <2>9, Zenon
    <3>2. start <= entry
      BY <1>3, <1>4, <1>5, <3>1, SMT
    <3> QED BY <2>7, <3>2
  <2>10. ASSUME tradable, entry < last PROVE ex \in ShownDates
    <3>1. entry \in start..last
      BY <1>3, <1>8, <2>5, <2>7, <2>10, SMT
    <3>2. entry \in calendar
      BY <1>4, <1>6, <2>3, <3>1, Zenon
    <3>3. ~(ex > last)
      BY <1>8, <2>1, <2>3, <2>5, <2>10, SMT
    <3>4. ex \in start..(last + 1)
      BY <1>3, <1>8, <2>1, <2>5, <3>1, <3>3, SMT
    <3> QED BY <1>7, <1>9, <3>2, <3>4, Zenon
  <2> QED BY <2>3, <2>4, <2>5, <2>6, <2>8, <2>9, <2>10, Zenon
<1> QED BY <1>9, Zenon DEF EntryOffered, last, calendar, start

(* The calendar, any years of the almanac: on every day it runs through,   *)
(* the entry session of each ex-date of the next weeks is the last day     *)
(* before it on which the exchange's own rule lets it open; a plan for it  *)
(* lapses exactly when that session has closed; and the dividend calendar  *)
(* shows the ex-date only while it can be traded, and misses it only if    *)
(* that is the last session shown.                                         *)
THEOREM EntriesOffered == CalendarSpec => []EntryOffered
<1>1. CalendarInit => CalendarInv
  BY CalendarAssumption DEF CalendarInit, CalendarInv
<1>2. CalendarInv /\ [CalendarNext]_calendarVars => CalendarInv'
  <2> SUFFICES ASSUME CalendarInv, [CalendarNext]_calendarVars PROVE CalendarInv'
    OBVIOUS
  <2> USE DEF CalendarInv
  <2>1. CASE SessionCloses
    BY <2>1 DEF SessionCloses
  <2>2. CASE Midnight
    BY <2>2, CalendarAssumption DEF Midnight
  <2>3. CASE UNCHANGED calendarVars
    BY <2>3 DEF calendarVars
  <2> QED BY <2>1, <2>2, <2>3 DEF CalendarNext
<1> QED BY <1>1, <1>2, CalendarInvOffers, PTL DEF CalendarSpec

-----------------------------------------------------------------------------
(* The services together                                                   *)

LEMMA ServicesRun ==
  ResearchSpec => /\ RiskSpec /\ PaperSpec /\ CouncilSpec /\ ScannerSpec
                  /\ ExitSpec /\ NoticeSpec /\ ThrottleSpec /\ LoginSpec
                  /\ CalendarSpec
<1>1. Init => /\ RiskInit /\ PaperInit /\ CouncilInit /\ ScannerInit
              /\ ExitInit /\ NoticeInit /\ ThrottleInit /\ LoginInit /\ CalendarInit
  BY DEF Init
<1>2. [Next]_researchVars =>
        /\ [RiskNext]_riskVars /\ [PaperNext]_paperVars
        /\ [CouncilNext]_councilVars /\ [ScannerNext]_scannerVars
        /\ [ExitNext]_exitVars /\ [NoticeNext]_noticeVars
        /\ [ThrottleNext]_throttleVars /\ [LoginNext]_loginVars
        /\ [CalendarNext]_calendarVars
  BY DEF Next, researchVars, judging, serving, RiskStep, PaperStep, CouncilStep, ScannerStep,
         ExitStep, NoticeStep, ThrottleStep, LoginStep, CalendarStep
<1>3. QED
  BY <1>1, <1>2, PTL
  DEF ResearchSpec, RiskSpec, PaperSpec, CouncilSpec, ScannerSpec, ExitSpec, NoticeSpec,
      ThrottleSpec, LoginSpec, CalendarSpec

(* Every row, counter and record of the services has its type.             *)
THEOREM ResearchTypeCorrect == ResearchSpec => []TypeOK
<1>1. ResearchSpec => [](RiskTypeOK /\ PaperTypeOK /\ CouncilTypeOK /\ ScannerTypeOK)
  BY ServicesRun, RiskTypeCorrect, PaperTypeCorrect, CouncilTypeCorrect, ScannerTypeCorrect, PTL
<1>2. ResearchSpec => [](ExitTypeOK /\ NoticeTypeOK /\ ThrottleTypeOK /\ LoginTypeOK)
  BY ServicesRun, ExitTypeCorrect, NoticeTypeCorrect, ThrottleTypeCorrect,
     LoginTypeCorrect, PTL
<1>3. QED BY <1>1, <1>2, PTL DEF TypeOK

(* Every day of the composition, an ex-date of the next eight days has as  *)
(* its entry session the last on which the exchange opens before it, the   *)
(* plan lapses when that session has closed, and the calendar shows it     *)
(* while it can be traded.                                                 *)
THEOREM OfferedDaily == ResearchSpec => []EntryOfferedDaily
<1>1. EntryOffered => EntryOfferedDaily
  BY DEF EntryOfferedDaily
<1> QED BY <1>1, ServicesRun, EntriesOffered, PTL

(* What each service promises, their composition promises: the properties  *)
(* of the risk engine, the paper simulator, the council, the scanner, the  *)
(* exits, the notices, the throttle, the sessions and the calendar that    *)
(* the research_services run checks.                                       *)
THEOREM ResearchIsSafe ==
  ResearchSpec =>
    /\ [](TripHeld /\ OneAuthorization /\ OneActivePolicy /\ NeverLoosened)
    /\ [](SerialLedger /\ StatusIsConsensus /\ DecisionCurrent)
    /\ [](ExitEvidence /\ OneExitAuthorization)
    /\ [](OperatorTold /\ AttemptsSpaced /\ SessionBounded /\ EntryOfferedDaily)
<1>1. ResearchSpec => [](TripHeld /\ OneAuthorization /\ OneActivePolicy /\ NeverLoosened)
  BY ServicesRun, TripsHold, AuthorizedOnce, ActiveOnce, PolicyNeverLoosened, PTL
<1>2. ResearchSpec => [](SerialLedger /\ StatusIsConsensus /\ DecisionCurrent)
  BY ServicesRun, LedgerIsBooked, StatusesAreConsensus, DecisionsAreCurrent, PTL
<1>3. ResearchSpec => [](ExitEvidence /\ OneExitAuthorization)
  BY ServicesRun, ExitsAreEvidenced, ExitsAuthorizedOnce, PTL
<1>4. ResearchSpec => [](OperatorTold /\ AttemptsSpaced /\ SessionBounded)
  BY ServicesRun, NoticesAreTold, AttemptsAreSpaced, SessionsBounded, PTL
<1>5. QED BY <1>1, <1>2, <1>3, <1>4, OfferedDaily, PTL
=============================================================================
