----------------------------- MODULE DateProofs -----------------------------
(***************************************************************************)
(* Dates and rounding, proved for every date of the supported range and    *)
(* every argument.  The proofs about the state machines of dates, POSIX    *)
(* strings and datetimes rest on these.                                    *)
(*                                                                         *)
(*  - Number to date and back (UnixDaysDateInverts, UnixDaysDateSound).    *)
(*    Both directions split a number into a century, a year of it that     *)
(*    begins in March, a month and a day.  The year comes out of one       *)
(*    32-bit product because 2939745 * 1461 = 2^32 + 149 (YearByProduct),  *)
(*    the month out of one 16-bit shift (MonthOfDay, MonthBack).           *)
(*  - Stepping and shifting (TomorrowIsNext, ShiftDaysAdds); what every    *)
(*    operation on a date returns is a date or None (Returns).             *)
(*  - Dates are ordered as their numbers are (DateOrder).                  *)
(*  - Rounding (RoundsByMode).                                             *)
(*  - Differences in calendar units.  A later month or year has later      *)
(*    dates (LaterMonth, LaterYear), also when the date on the way has a   *)
(*    day that its month lacks.  Each unit goes as far as it can: its      *)
(*    target lies between the date it leads to and the one that an         *)
(*    increment more leads to (YearsLand, MonthsLand, WeeksLand, DaysLand).*)
(*    The truncated quotient of years or months overshoots by at most one  *)
(*    increment, and only where it is exact, which is why the code may     *)
(*    correct it by one step.  Several units: after each one, its fields so*)
(*    far lead to the date on the way (AfterYears to AfterDays), and one   *)
(*    more of the smallest unit leads past the target (DifferenceLeads).   *)
(***************************************************************************)
EXTENDS Difference, FiniteSetTheorems, TLAPS

-----------------------------------------------------------------------------
\* A quotient and a remainder are determined by a = b * q + r.
LEMMA DivUnique ==
    ASSUME NEW a \in Int, NEW b \in Nat \ {0}, NEW q \in Int, NEW r \in Nat, r < b, a = b * q + r
    PROVE  a \div b = q /\ a % b = r
  BY SMT

\* Every number is its quotient times the divisor, and its remainder.
LEMMA DivSplit ==
    ASSUME NEW a \in Int, NEW b \in Nat \ {0}
    PROVE  a = b * (a \div b) + (a % b) /\ a \div b \in Int /\ a % b \in Nat /\ a % b < b
  BY SMT

\* The days before a year (days_before) grow by the length of each year.
LEMMA YearLength ==
    ASSUME NEW y \in Int
    PROVE  days_before(y + 1) = days_before(y) + DaysInYear(y)
  BY SMT DEF days_before, DaysInYear, is_leap

\* The century of a day, and its day of that century, from the day number.
LEMMA Century ==
    ASSUME NEW c \in Nat, NEW n \in Nat, n <= 36524, n = 36524 => c % 4 = 3
    PROVE  LET n1 == 4 * ((146097 * c) \div 4 + n) + 3
           IN  n1 \div 146097 = c /\ (n1 % 146097) \div 4 = n
<1> DEFINE k == c \div 4
           e == c % 4
           n1 == 4 * ((146097 * c) \div 4 + n) + 3
           r == 4 * n + 3 - e
<1>1. k \in Int /\ e \in 0 .. 3 /\ c = 4 * k + e
  BY SMT
<1>2. (146097 * c) \div 4 = 146097 * k + 36524 * e
  <2>1. 146097 * c = 4 * (146097 * k + 36524 * e) + e
    BY <1>1, SMT
  <2> QED BY <1>1, <2>1, DivUnique, SMT
<1>3. n1 \in Int /\ n1 = 146097 * c + r
  BY <1>1, <1>2, SMT
<1>4. r \in Nat /\ r < 146097
  <2>1. n = 36524 => e = 3
    BY SMT
  <2> HIDE DEF e
  <2> QED BY <1>1, <2>1, SMT
<1>5. n1 \div 146097 = c /\ n1 % 146097 = r
  <2> HIDE DEF n1, r
  <2> QED BY <1>3, <1>4, DivUnique, SMT
<1>6. r \div 4 = n
  BY <1>1, SMT
<1> QED BY <1>5, <1>6, SMT

Low(n2) == 2939745 * (n2 % 512)
Whole(n2) == 2939745 * (n2 \div 512) + Low(n2) \div 512
YearDay(n2) == ((Whole(n2) % 8388608) * 128 + (Low(n2) % 512) \div 4) \div 2939745

\* The year of the century and the day of that year from the two halves of the
\* product in UnixDays::date, for every day of a century.
LEMMA YearByProduct ==
    ASSUME NEW n2 \in Nat, n2 < 146100
    PROVE  Whole(n2) \div 8388608 = n2 \div 1461 /\ YearDay(n2) = (n2 % 1461) \div 4
<1> DEFINE z == n2 \div 1461
           s == n2 % 1461
           low == 2939745 * (n2 % 512)
           whole == 2939745 * (n2 \div 512) + low \div 512
           rest == low % 512
           low4 == rest \div 4
           p == 149 * z + 2939745 * s
           a == whole \div 8388608
           b == whole % 8388608
<1>0. z \in 0 .. 99 /\ s \in 0 .. 1460 /\ n2 = 1461 * z + s
  BY SMT
<1> HIDE DEF z, s
<1>1. n2 \in Int /\ n2 = 512 * (n2 \div 512) + (n2 % 512) /\ n2 \div 512 \in Int /\ n2 % 512 \in Nat
  BY DivSplit, SMT
<1>2. low = 512 * (low \div 512) + rest /\ low \div 512 \in Int /\ rest \in 0 .. 511
  BY <1>1, SMT
<1>3. whole \in Int /\ 512 * whole + rest = 2939745 * n2
  BY <1>1, <1>2, SMT
<1>4. 2939745 * n2 = (8388608 * 512) * z + p /\ p \in Nat /\ p < 8388608 * 512
  BY <1>0, SMT
<1>5. whole = 8388608 * a + b /\ a \in Int /\ b \in Nat /\ b < 8388608
  <2> HIDE DEF whole
  <2> QED BY <1>3, DivSplit, SMT
<1> HIDE DEF low, rest, p, whole, a, b
<1>6. a = z /\ 512 * b + rest = p
  BY <1>0, <1>2, <1>3, <1>4, <1>5, SMT
<1>7. rest = 4 * low4 + (rest % 4) /\ low4 \in Int /\ rest % 4 \in 0 .. 3
  BY <1>2, SMT
<1>8. s \div 4 \in Int /\ s % 4 \in 0 .. 3 /\ s = 4 * (s \div 4) + (s % 4)
  BY <1>0, SMT
<1>9. (b * 128 + low4) \div 2939745 = s \div 4
  <2> DEFINE v == b * 128 + low4
             q == s \div 4
             e == rest % 4
             f == s % 4
  <2>1. v \in Int
    BY <1>5, <1>7, SMT
  <2>2. 4 * v + e = 149 * z + 2939745 * (4 * q + f) /\ e \in 0 .. 3 /\ f \in 0 .. 3 /\ q \in Int
    <3> HIDE DEF low4
    <3>1. 4 * v + e = 512 * b + rest
      BY <1>2, <1>5, <1>7, SMT
    <3> QED BY <3>1, <1>6, <1>7, <1>8, SMT DEF p
  <2> HIDE DEF v, q, e, f
  <2>3. v - 2939745 * q \in Nat /\ v - 2939745 * q < 2939745
    BY <1>0, <2>1, <2>2, SMT
  <2>4. v \div 2939745 = q
    BY <2>1, <2>2, <2>3, DivUnique, SMT
  <2> QED BY <2>4, SMT DEF v, q
<1> QED BY <1>6, <1>9, SMT DEF z, s, low, rest, low4, whole, a, b, Whole, Low, YearDay

-----------------------------------------------------------------------------
\* The day of a year that begins in March, from 0
MarchYear(d) == d.year - Truth(d.month <= 2)
MarchDay(d) == IF d.month <= 2 THEN DaysBeforeMonth[d.month] + 305 + d.day
                               ELSE DaysBeforeMonth[d.month] - 60 + d.day

\* The two month tables: where each month begins and how long it is.
LEMMA Tables ==
    ASSUME NEW m \in Months
    PROVE  /\ MaxMonthDays[m] \in 28 .. 31 /\ DaysBeforeMonth[m] \in 0 .. 334
           /\ m < 12 => DaysBeforeMonth[m + 1] = DaysBeforeMonth[m] + MaxMonthDays[m]
           /\ MaxMonthDays[12] = 31 /\ DaysBeforeMonth[12] = 334 /\ DaysBeforeMonth[1] = 0
           /\ MaxMonthDays[2] = 28 /\ DaysBeforeMonth[2] = 31
           /\ DaysBeforeMonth[m] + MaxMonthDays[m] <= 365
           /\ m > 2 => DaysBeforeMonth[m] >= 59
           /\ m = 1 => DaysBeforeMonth[m] = 0 /\ MaxMonthDays[m] = 31
  BY SMT DEF Months, MaxMonthDays, DaysBeforeMonth

\* The month and day of a day of the March-based year, from the 16-bit product.
LEMMA MonthOfDay ==
    ASSUME NEW d, IsDate(d)
    PROVE  LET n3 == 2141 * MarchDay(d) + 197913
               m == n3 \div 65536
           IN  /\ MarchDay(d) >= 306 <=> d.month <= 2
               /\ (IF MarchDay(d) >= 306 THEN m - 12 ELSE m) = d.month
               /\ (n3 % 65536) \div 2141 + 1 = d.day
<1> DEFINE dd == d.day
           t == MarchDay(d)
           n3 == 2141 * t + 197913
           m == IF d.month <= 2 THEN d.month + 12 ELSE d.month
           r == n3 - 65536 * m
<1>1. d.month \in 1 .. 12 /\ dd \in 1 .. 31 /\ dd <= MaxMonthDays[d.month] + Truth(d.month = 2)
  BY SMT DEF IsDate, Months, days_in_month, Truth, MaxMonthDays
<1>2. /\ t \in Nat
      /\ r \in Nat /\ r < 65536
      /\ r - 2141 * (dd - 1) \in Nat /\ r - 2141 * (dd - 1) < 2141
      /\ t >= 306 <=> d.month <= 2
  <2>1. CASE d.month = 1
    BY <1>1, <2>1, SMT DEF MarchDay, MaxMonthDays, DaysBeforeMonth, Truth
  <2>2. CASE d.month = 2
    BY <1>1, <2>2, SMT DEF MarchDay, MaxMonthDays, DaysBeforeMonth, Truth
  <2>3. CASE d.month = 3
    BY <1>1, <2>3, SMT DEF MarchDay, MaxMonthDays, DaysBeforeMonth, Truth
  <2>4. CASE d.month = 4
    BY <1>1, <2>4, SMT DEF MarchDay, MaxMonthDays, DaysBeforeMonth, Truth
  <2>5. CASE d.month = 5
    BY <1>1, <2>5, SMT DEF MarchDay, MaxMonthDays, DaysBeforeMonth, Truth
  <2>6. CASE d.month = 6
    BY <1>1, <2>6, SMT DEF MarchDay, MaxMonthDays, DaysBeforeMonth, Truth
  <2>7. CASE d.month = 7
    BY <1>1, <2>7, SMT DEF MarchDay, MaxMonthDays, DaysBeforeMonth, Truth
  <2>8. CASE d.month = 8
    BY <1>1, <2>8, SMT DEF MarchDay, MaxMonthDays, DaysBeforeMonth, Truth
  <2>9. CASE d.month = 9
    BY <1>1, <2>9, SMT DEF MarchDay, MaxMonthDays, DaysBeforeMonth, Truth
  <2>10. CASE d.month = 10
    BY <1>1, <2>10, SMT DEF MarchDay, MaxMonthDays, DaysBeforeMonth, Truth
  <2>11. CASE d.month = 11
    BY <1>1, <2>11, SMT DEF MarchDay, MaxMonthDays, DaysBeforeMonth, Truth
  <2>12. CASE d.month = 12
    BY <1>1, <2>12, SMT DEF MarchDay, MaxMonthDays, DaysBeforeMonth, Truth
  <2> QED BY <1>1, <2>1, <2>2, <2>3, <2>4, <2>5, <2>6, <2>7, <2>8, <2>9, <2>10, <2>11, <2>12, SMT
<1>3. n3 \in Int /\ n3 = 65536 * m + r /\ m \in Int
  BY <1>1, <1>2, SMT
<1> HIDE DEF t, r, n3, m
<1>4. n3 \div 65536 = m /\ n3 % 65536 = r
  BY <1>2, <1>3, DivUnique, SMT
<1>5. r \div 2141 = dd - 1
  <2> DEFINE e == r - 2141 * (dd - 1)
  <2>1. r = 2141 * (dd - 1) + e /\ dd - 1 \in Int
    BY <1>1, <1>2, SMT
  <2> QED BY <1>2, <2>1, DivUnique, SMT
<1>6. (IF t >= 306 THEN m - 12 ELSE m) = d.month
  BY <1>1, <1>2, SMT DEF m
<1>7. (n3 % 65536) \div 2141 + 1 = dd
  BY <1>1, <1>4, <1>5, SMT
<1> QED BY <1>2, <1>4, <1>6, <1>7, SMT DEF t, n3

\* The days before a year, by its century and the year of that.
LEMMA DaysByCentury ==
    ASSUME NEW C \in Int, NEW z \in 0 .. 99
    PROVE  days_before(100 * C + z + 1) + 146097 * 82
           = (146097 * (C + 328)) \div 4 + (1461 * z) \div 4
<1> DEFINE y == 100 * C + z
<1>1. y \div 4 = 25 * C + (z \div 4)
  BY SMT
<1>2. y \div 100 = C
  BY SMT
<1>3. y \div 400 = C \div 4
  BY SMT
<1>4. (146097 * (C + 328)) \div 4 = 146097 * 82 + 36524 * C + (C \div 4)
  BY SMT
<1>5. (1461 * z) \div 4 = 365 * z + (z \div 4)
  BY SMT
<1>6. days_before(y + 1) = 365 * y + y \div 4 - y \div 100 + y \div 400
  BY SMT DEF days_before
<1> QED BY <1>1, <1>2, <1>3, <1>4, <1>5, <1>6, SMT

\* The years of the range.
LEMMA YearsRange ==
    ASSUME NEW y \in Years
    PROVE  y \in Int /\ 1 <= y /\ y <= 9999
  BY SMT DEF Years

\* The years of the range, the other way round.
LEMMA InYears ==
    ASSUME NEW y \in Int, 1 <= y, y <= 9999
    PROVE  y \in Years
  BY SMTT(40) DEF Years

\* What IsDate says of the fields of a date.
LEMMA PartsOfDate ==
    ASSUME NEW d, IsDate(d)
    PROVE  /\ d = Date(d.year, d.month, d.day)
           /\ d.year \in Int /\ 1 <= d.year /\ d.year <= 9999
           /\ d.month \in 1 .. 12 /\ d.day \in 1 .. 31
           /\ d.day <= days_in_month(d.year, d.month)
<1>1. d \in [year : Years, month : Months, day : 1 .. 31]
  BY SMT DEF IsDate
<1>2. d = [year |-> d.year, month |-> d.month, day |-> d.day]
  BY <1>1, SMT
<1>3. d.year \in Years /\ d.month \in 1 .. 12 /\ d.day \in 1 .. 31
  BY <1>1, SMT DEF Months
<1>4. d.year \in Int /\ 1 <= d.year /\ d.year <= 9999
  BY <1>3, YearsRange, SMT
<1>5. d.day <= days_in_month(d.year, d.month)
  BY SMT DEF IsDate
<1> QED BY <1>2, <1>3, <1>4, <1>5, SMT DEF Date

\* The number of a date is a number.
LEMMA UnixDaysType ==
    ASSUME NEW d, IsDate(d)
    PROVE  unix_days(d) \in Int /\ days_before(d.year) \in Int /\ days_before_month(d.year, d.month) \in Int
<1>1. d.year \in Int /\ d.month \in Months /\ d.day \in Int
  BY PartsOfDate, SMT DEF Months
<1>2. days_before(d.year) \in Int
  BY <1>1, SMT DEF days_before
<1>3. DaysBeforeMonth[d.month] \in Int
  BY <1>1, Tables, SMTT(40)
<1>4. days_before_month(d.year, d.month) \in Int
  BY <1>3, SMT DEF days_before_month, Truth
<1> QED BY <1>1, <1>2, <1>4, SMT DEF unix_days, UnixDaysMin

\* The number of a date, counted in March-based years.
LEMMA MarchDays ==
    ASSUME NEW d, IsDate(d)
    PROVE  /\ MarchYear(d) \in Nat
           /\ MarchDay(d) \in 0 .. 365
           /\ MarchDay(d) = 365 => is_leap(MarchYear(d) + 1)
           /\ unix_days(d) + 719468 = days_before(MarchYear(d) + 1) + MarchDay(d)
<1> DEFINE y == d.year
           m == d.month
           k == d.day
           b == DaysBeforeMonth[m]
           x == MaxMonthDays[m]
           v == days_before(y)
           leap == Truth(is_leap(y))
<1>1. y \in Int /\ 1 <= y /\ m \in 1 .. 12 /\ k \in 1 .. 31 /\ k <= x + Truth(m = 2 /\ is_leap(y))
  BY PartsOfDate, SMT DEF days_in_month
<1>2. b \in 0 .. 334 /\ x \in 28 .. 31 /\ b + x <= 365 /\ (m > 2 => b >= 59)
      /\ (m = 2 => b = 31 /\ x = 28) /\ (m = 1 => b = 0)
  BY <1>1, Tables, SMT DEF Months
<1>3. v \in Int
  BY <1>1, SMT DEF days_before
<1>4. leap \in 0 .. 1 /\ (leap = 1 => is_leap(y)) /\ (leap = 0 => ~is_leap(y))
  BY SMT DEF Truth
<1>5. unix_days(d) = v + days_before_month(y, m) + k - 719163
  <2>1. days_before_month(y, m) \in Int
    BY UnixDaysType, SMT
  <2>2. unix_days(d) = v + days_before_month(y, m) + k + (-719162) - 1
    BY SMT DEF unix_days, UnixDaysMin
  <2> HIDE DEF v, k, m, y
  <2> QED BY <1>1, <1>3, <2>1, <2>2, SMT
<1>6. m > 2 => days_before_month(y, m) = b + leap
  BY SMT DEF days_before_month, Truth
<1>7. m <= 2 => days_before_month(y, m) = b
  BY <1>1, <1>2, SMT DEF days_before_month, Truth
<1>8. days_before(y + 1) = v + 365 + leap
  BY <1>1, <1>3, YearLength, SMT DEF DaysInYear, Truth
<1>9. MarchYear(d) = (IF m <= 2 THEN y - 1 ELSE y)
  BY <1>1, SMT DEF MarchYear, Truth
<1>10. MarchDay(d) = (IF m <= 2 THEN b + 305 + k ELSE b - 60 + k)
  BY SMT DEF MarchDay
<1>11. k <= (IF m = 2 THEN x + leap ELSE x)
  BY <1>1, <1>2, SMT DEF Truth
<1> HIDE DEF y, m, k, b, x, v, leap
<1>12. CASE m <= 2
  <2>1. MarchYear(d) = y - 1 /\ MarchDay(d) = b + 305 + k
    BY <1>9, <1>10, <1>12, SMT
  <2>2. MarchDay(d) \in 0 .. 365 /\ (MarchDay(d) = 365 => leap = 1)
    BY <1>1, <1>2, <1>4, <1>11, <1>12, <2>1, SMT
  <2>3. y - 1 + 1 = y
    BY <1>1, SMT
  <2>4. unix_days(d) + 719468 = v + MarchDay(d)
    BY <1>1, <1>2, <1>3, <1>5, <1>7, <1>12, <2>1, SMT
  <2> QED BY <1>1, <1>4, <2>1, <2>2, <2>3, <2>4, SMT DEF v
<1>13. CASE m > 2
  <2>1. MarchYear(d) = y /\ MarchDay(d) = b - 60 + k
    BY <1>1, <1>9, <1>10, <1>13, SMT
  <2>2. MarchDay(d) \in 0 .. 305
    BY <1>1, <1>2, <1>11, <1>13, <2>1, SMT
  <2>3. unix_days(d) + 719468 = v + 365 + leap + MarchDay(d)
    BY <1>1, <1>2, <1>3, <1>4, <1>5, <1>6, <1>13, <2>1, SMT
  <2> QED BY <1>1, <1>8, <2>1, <2>2, <2>3, SMT
<1> QED BY <1>1, <1>12, <1>13, SMT

\* UnixDays::date is the inverse of Date::unix_days, for every date of the range.
THEOREM UnixDaysDateInverts ==
    ASSUME NEW d, IsDate(d)
    PROVE  UnixDaysDate(unix_days(d)) = d
<1> DEFINE Y == MarchYear(d)
           t == MarchDay(d)
           C == Y \div 100
           z == Y % 100
           c == C + 328
           u == (1461 * z) \div 4
           n == u + t
           s == 4 * t + 3 - (z % 4)
<1>1. Y \in Nat /\ t \in 0 .. 365 /\ (t = 365 => is_leap(Y + 1))
      /\ unix_days(d) + 719468 = days_before(Y + 1) + t
  BY MarchDays, SMT
<1>2. Y = 100 * C + z /\ C \in Nat /\ z \in 0 .. 99
  <2> HIDE DEF Y
  <2> QED BY <1>1, SMT
<1> HIDE DEF Y, t, C, z
<1>3. t = 365 => z % 4 = 3
  BY <1>1, <1>2, SMT DEF is_leap
<1>4. u \in Int /\ 0 <= u /\ u <= 36159 /\ (u = 36159 => z = 99)
  BY <1>2, SMT
<1>5. n \in Nat /\ n <= 36524 /\ (n = 36524 => c % 4 = 3)
  <2>1. n \in Nat /\ n <= 36524 /\ (n = 36524 => z = 99 /\ t = 365)
    <3> HIDE DEF u
    <3> QED BY <1>1, <1>4, SMT
  <2>2. ASSUME z = 99, t = 365
        PROVE  c % 4 = 3
    BY <1>1, <1>2, <2>2, SMT DEF is_leap
  <2> QED BY <2>1, <2>2, SMT
<1>6. days_before(Y + 1) + 146097 * 82 = (146097 * c) \div 4 + u /\ days_before(Y + 1) \in Int
  <2>1. days_before(100 * C + z + 1) + 146097 * 82 = (146097 * (C + 328)) \div 4 + u
    BY <1>2, DaysByCentury, SMT
  <2> QED BY <1>1, <1>2, <2>1, SMT DEF days_before
<1>7. unix_days(d) + 719468 + 146097 * 82 = (146097 * c) \div 4 + n
  <2>1. (146097 * c) \div 4 \in Int
    BY <1>2, SMT
  <2>2. unix_days(d) \in Int
    BY UnixDaysType
  <2> HIDE DEF u, c
  <2> QED BY <1>1, <1>4, <1>6, <2>1, <2>2, SMT
<1> DEFINE n1 == 4 * (unix_days(d) + 719468 + 146097 * 82) + 3
           n2 == 4 * ((n1 % 146097) \div 4) + 3
           whole == Whole(n2)
           ny == YearDay(n2)
           n3 == 2141 * ny + 197913
<1>8. n1 \div 146097 = c /\ (n1 % 146097) \div 4 = n
  <2> HIDE DEF n
  <2>1. c \in Nat
    BY <1>2, SMT
  <2> HIDE DEF c
  <2>2. LET k == 4 * ((146097 * c) \div 4 + n) + 3
        IN  k \div 146097 = c /\ (k % 146097) \div 4 = n
    BY <1>5, <2>1, Century, SMT
  <2> QED BY <1>7, <2>2, SMT
<1> HIDE DEF n1
<1>9. n2 = 1461 * z + s /\ s \in 0 .. 1460 /\ s \div 4 = t
  <2>1. n2 = 4 * (u + t) + 3
    BY <1>8, SMT
  <2> HIDE DEF n2
  <2> QED BY <1>1, <1>2, <1>3, <2>1, SMT
<1> HIDE DEF n2, s
<1>10. whole \div 8388608 = z /\ ny = t
  <2> HIDE DEF n3
  <2>1. n2 \in Nat /\ n2 < 146100 /\ n2 \div 1461 = z /\ n2 % 1461 = s
    BY <1>2, <1>9, SMT
  <2>2. Whole(n2) \div 8388608 = z /\ YearDay(n2) = s \div 4
    BY <2>1, YearByProduct, SMT
  <2> QED BY <1>9, <2>2, SMT
<1>11. /\ t >= 306 <=> d.month <= 2
       /\ (IF t >= 306 THEN (n3 \div 65536) - 12 ELSE n3 \div 65536) = d.month
       /\ (n3 % 65536) \div 2141 + 1 = d.day
  BY <1>10, MonthOfDay, SMT DEF t
<1>12. 100 * c + z - 400 * 82 + Truth(t >= 306) = d.year
  <2>1. Y = d.year - Truth(t >= 306) /\ d.year \in Int /\ Truth(t >= 306) \in Int
    BY <1>11, PartsOfDate, SMT DEF Y, MarchYear, Truth
  <2> QED BY <1>1, <1>2, <2>1, SMT
<1>13. UnixDaysDate(unix_days(d)) =
         Date(100 * (n1 \div 146097) + whole \div 8388608 - 400 * 82 + Truth(ny >= 306),
              IF ny >= 306 THEN (n3 \div 65536) - 12 ELSE n3 \div 65536,
              (n3 % 65536) \div 2141 + 1)
  BY SMT DEF UnixDaysDate, n1, n2, Whole, Low, YearDay
<1> HIDE DEF whole, ny, n3
<1>14. UnixDaysDate(unix_days(d)) = Date(d.year, d.month, d.day)
  BY <1>8, <1>10, <1>11, <1>12, <1>13, SMT
<1> QED BY <1>14, PartsOfDate, SMT
-----------------------------------------------------------------------------
\* What a day of a 400-year cycle leaves after its century.
LEMMA CenturyRest ==
    ASSUME NEW n \in Int, NEW c \in Int, NEW r \in Nat, r < 146097, 4 * n + 3 = 146097 * c + r,
           NEW k \in Int, NEW f \in 0 .. 3, r = 4 * k + f,
           NEW q \in Int, NEW e \in 0 .. 3, c = 4 * q + e
    PROVE  /\ k \in Nat /\ k <= 36524 /\ (k = 36524 => e = 3)
           /\ n = (146097 * c) \div 4 + k
<1>1. f = 3 - e
  BY SMT
<1>2. (146097 * c) \div 4 = 146097 * q + 36524 * e
  <2>1. 146097 * c = 4 * (146097 * q + 36524 * e) + e
    BY SMT
  <2> QED BY <2>1, DivUnique, SMT
<1>3. n = 146097 * q + 36524 * e + k
  BY <1>1, SMT
<1>4. k \in Nat /\ k <= 36524 /\ (k = 36524 => e = 3)
  BY <1>1, SMT
<1> QED BY <1>2, <1>3, <1>4, SMT

\* A century and its place in the 400-year cycle.
LEMMA Quarters ==
    ASSUME NEW c \in Int
    PROVE  c \div 4 \in Int /\ c % 4 \in 0 .. 3 /\ c = 4 * (c \div 4) + (c % 4)
  BY SMT

\* A day number, from its century and its day of that.
LEMMA CenturyBack ==
    ASSUME NEW n \in Int, NEW c, c = (4 * n + 3) \div 146097, NEW k, k = ((4 * n + 3) % 146097) \div 4
    PROVE  /\ c \in Int /\ k \in Nat /\ k <= 36524 /\ (k = 36524 => c % 4 = 3)
           /\ n = (146097 * c) \div 4 + k
<1> DEFINE r == (4 * n + 3) % 146097
           f == r % 4
           q == c \div 4
           e == c % 4
<1>1. 4 * n + 3 = 146097 * c + r /\ c \in Int /\ r \in Nat /\ r < 146097
  BY DivSplit, SMT
<1>2. q \in Int /\ e \in 0 .. 3 /\ c = 4 * q + e
  BY <1>1, Quarters
<1>3. k = r \div 4
  BY SMT
<1> HIDE DEF r
<1>4. k \in Int /\ f \in 0 .. 3 /\ r = 4 * k + f
  BY <1>1, <1>3, Quarters
<1> HIDE DEF q, e, f
<1>5. k \in Nat /\ k <= 36524 /\ (k = 36524 => e = 3) /\ n = (146097 * c) \div 4 + k
  BY <1>1, <1>2, <1>4, CenturyRest, SMT
<1> QED BY <1>1, <1>5, SMT DEF e

\* A day of a century, from its year and its day of that.
LEMMA YearBack ==
    ASSUME NEW k \in Nat, k <= 36524,
           NEW z, z = (4 * k + 3) \div 1461, NEW t, t = ((4 * k + 3) % 1461) \div 4
    PROVE  /\ z \in 0 .. 99 /\ t \in 0 .. 365 /\ (t = 365 => z % 4 = 3)
           /\ k = (1461 * z) \div 4 + t
           /\ z = 99 /\ t = 365 => k = 36524
  BY SMT

\* A day of the March-based year, from the month and day computed for it; the
\* day exists in that month.
LEMMA MonthBack ==
    ASSUME NEW t \in 0 .. 365, NEW m, m = (2141 * t + 197913) \div 65536,
           NEW k, k = ((2141 * t + 197913) % 65536) \div 2141 + 1,
           NEW b, b = IF t >= 306 THEN m - 12 ELSE m
    PROVE  /\ b \in Months /\ (t >= 306 <=> b <= 2) /\ k \in 1 .. 31
           /\ k <= MaxMonthDays[b] + Truth(b = 2 /\ t = 365)
           /\ t = IF t >= 306 THEN DaysBeforeMonth[b] + 305 + k ELSE DaysBeforeMonth[b] - 60 + k
<1> DEFINE n3 == 2141 * t + 197913
           In(from, to) == from <= t /\ t <= to
           Found(month, from) == m = month /\ k = t - from + 1
<1>1. In(0, 30) => Found(3, 0)
  BY SMT
<1>2. In(31, 60) => Found(4, 31)
  BY SMT
<1>3. In(61, 91) => Found(5, 61)
  BY SMT
<1>4. In(92, 121) => Found(6, 92)
  BY SMT
<1>5. In(122, 152) => Found(7, 122)
  BY SMT
<1>6. In(153, 183) => Found(8, 153)
  BY SMT
<1>7. In(184, 213) => Found(9, 184)
  BY SMT
<1>8. In(214, 244) => Found(10, 214)
  BY SMT
<1>9. In(245, 274) => Found(11, 245)
  BY SMT
<1>10. In(275, 305) => Found(12, 275)
  BY SMT
<1>11. In(306, 336) => Found(13, 306)
  BY SMT
<1>12. In(337, 365) => Found(14, 337)
  BY SMT
<1> QED BY <1>1, <1>2, <1>3, <1>4, <1>5, <1>6, <1>7, <1>8, <1>9, <1>10, <1>11, <1>12, SMT DEF Months, MaxMonthDays, DaysBeforeMonth, Truth

\* A number of the range of dates belongs to a year of the range.
LEMMA YearInRange ==
    ASSUME NEW y \in Int, NEW t \in 0 .. 365,
           306 <= days_before(y + 1) + t, days_before(y + 1) + t <= 3652364
    PROVE  /\ 0 <= y /\ y <= 9999
           /\ y = 0 => t >= 306
           /\ y = 9999 => t <= 305
<1>1. days_before(y + 1) = 365 * y + y \div 4 - y \div 100 + y \div 400
  BY SMT DEF days_before
<1> QED BY <1>1, SMT

\* The numbers of the range of dates.
LEMMA UnixDaysRange ==
    ASSUME NEW n \in UnixDays
    PROVE  n \in Int /\ -719162 <= n /\ n <= 2932896
<1>1. UnixDaysMin \in Int /\ UnixDaysMax \in Int
  BY SMT DEF UnixDaysMin, UnixDaysMax
<1>2. n \in Int /\ UnixDaysMin <= n /\ n <= UnixDaysMax
  BY <1>1, SMT DEF UnixDays
<1> QED BY <1>2, SMT DEF UnixDaysMin, UnixDaysMax

\* The numbers of the range of dates, the other way round.
LEMMA InUnixDays ==
    ASSUME NEW n \in Int, -719162 <= n, n <= 2932896
    PROVE  n \in UnixDays
<1>1. UnixDaysMin \in Int /\ UnixDaysMax \in Int /\ UnixDaysMin <= n /\ n <= UnixDaysMax
  BY SMT DEF UnixDaysMin, UnixDaysMax
<1> QED BY <1>1, SMT DEF UnixDays

\* The date that UnixDays::date computes exists, and has that number.
THEOREM UnixDaysDateSound ==
    ASSUME NEW n \in UnixDays
    PROVE  IsDate(UnixDaysDate(n)) /\ unix_days(UnixDaysDate(n)) = n
<1> DEFINE n0 == n + 719468 + 146097 * 82
           n1 == 4 * n0 + 3
           c == n1 \div 146097
           k == (n1 % 146097) \div 4
           n2 == 4 * k + 3
           z == n2 \div 1461
           t == (n2 % 1461) \div 4
           n3 == 2141 * t + 197913
           m == n3 \div 65536
           b == IF t >= 306 THEN m - 12 ELSE m
           dd == (n3 % 65536) \div 2141 + 1
           C == c - 328
           Y == 100 * C + z
           d == Date(Y + Truth(t >= 306), b, dd)
<1>1. n \in Int /\ -719162 <= n /\ n <= 2932896
  BY UnixDaysRange, SMT
<1>2. /\ c \in Int /\ k \in Nat /\ k <= 36524 /\ (k = 36524 => c % 4 = 3)
      /\ n0 = (146097 * c) \div 4 + k
  <2>1. n0 \in Int
    BY <1>1, SMT
  <2> HIDE DEF n0
  <2> QED BY <2>1, CenturyBack, SMT
<1>3. /\ z \in 0 .. 99 /\ t \in 0 .. 365 /\ (t = 365 => z % 4 = 3)
      /\ k = (1461 * z) \div 4 + t
      /\ z = 99 /\ t = 365 => k = 36524
  <2> HIDE DEF k
  <2> QED BY <1>2, YearBack, SMTT(40)
<1>4. /\ b \in Months /\ (t >= 306 <=> b <= 2) /\ dd \in 1 .. 31
      /\ dd <= MaxMonthDays[b] + Truth(b = 2 /\ t = 365)
      /\ t = IF t >= 306 THEN DaysBeforeMonth[b] + 305 + dd ELSE DaysBeforeMonth[b] - 60 + dd
  <2> HIDE DEF t
  <2>1. m = (2141 * t + 197913) \div 65536
    BY SMT
  <2>2. dd = ((2141 * t + 197913) % 65536) \div 2141 + 1
    BY SMT
  <2> HIDE DEF m, dd
  <2>3. b = IF t >= 306 THEN m - 12 ELSE m
    BY SMT
  <2> HIDE DEF b
  <2> QED BY <1>3, <2>1, <2>2, <2>3, MonthBack, SMT
<1>5. UnixDaysDate(n) = d
  <2>1. Whole(n2) \div 8388608 = z /\ YearDay(n2) = t
    <3>1. n2 \in Nat /\ n2 < 146100
      <4> HIDE DEF k
      <4> QED BY <1>2, SMT
    <3> HIDE DEF n2
    <3> QED BY <3>1, YearByProduct, SMT
  <2> DEFINE ny == YearDay(n2)
             p3 == 2141 * ny + 197913
  <2>2. UnixDaysDate(n) =
         Date(100 * (n1 \div 146097) + Whole(n2) \div 8388608 - 400 * 82 + Truth(ny >= 306),
              IF ny >= 306 THEN (p3 \div 65536) - 12 ELSE p3 \div 65536,
              (p3 % 65536) \div 2141 + 1)
    BY SMT DEF UnixDaysDate, Whole, Low, YearDay
  <2> HIDE DEF n2
  <2>3. UnixDaysDate(n) = Date(100 * c + z - 400 * 82 + Truth(t >= 306), b, dd)
    BY <2>1, <2>2, SMT
  <2> HIDE DEF c, z, t
  <2>4. 100 * c + z - 400 * 82 + Truth(t >= 306) = Y + Truth(t >= 306)
    BY <1>2, <1>3, SMT DEF Truth
  <2> QED BY <2>3, <2>4, SMT
<1> HIDE DEF c, k, z, t, b, dd
<1>6. Y \in Int /\ C \in Int
  BY <1>2, <1>3, SMT
<1>7. n + 719468 = days_before(Y + 1) + t
  <2>1. C + 328 = c
    BY <1>2, SMT
  <2>2. days_before(Y + 1) + 146097 * 82 = (146097 * c) \div 4 + (1461 * z) \div 4
    <3> HIDE DEF C
    <3> QED BY <1>3, <1>6, <2>1, DaysByCentury, SMT
  <2>3. days_before(Y + 1) \in Int
    <3> HIDE DEF Y
    <3> QED BY <1>6, SMT DEF days_before
  <2>4. (146097 * c) \div 4 \in Int /\ (1461 * z) \div 4 \in Int
    BY <1>2, <1>3, SMT
  <2> HIDE DEF Y
  <2> QED BY <1>1, <1>2, <1>3, <2>2, <2>3, <2>4, SMT
<1>8. 0 <= Y /\ Y <= 9999 /\ (Y = 0 => t >= 306) /\ (Y = 9999 => t <= 305)
  <2> HIDE DEF Y
  <2>1. 306 <= n + 719468 /\ n + 719468 <= 3652364
    BY <1>1, SMT
  <2> QED BY <1>3, <1>6, <1>7, <2>1, YearInRange, SMT
<1>9. t = 365 => is_leap(Y + 1)
  BY <1>2, <1>3, SMT DEF is_leap
<1> HIDE DEF C, Y
<1>10. d.year = Y + Truth(t >= 306) /\ d.month = b /\ d.day = dd
  BY SMT DEF Date
<1>11. d.year \in Years /\ (b <= 2 => d.year = Y + 1) /\ (b > 2 => d.year = Y)
  <2>1. b \in Int
    BY <1>4, SMT DEF Months
  <2>2. Y + Truth(t >= 306) = IF b <= 2 THEN Y + 1 ELSE Y
    BY <1>4, <1>6, SMT DEF Truth
  <2>3. 1 <= Y + Truth(t >= 306) /\ Y + Truth(t >= 306) <= 9999 /\ Y + Truth(t >= 306) \in Int
    BY <1>3, <1>4, <1>6, <1>8, <2>2, SMT
  <2> HIDE DEF d
  <2> QED BY <1>10, <2>1, <2>2, <2>3, InYears, SMT
<1>12. dd <= days_in_month(d.year, b)
  BY <1>3, <1>4, <1>9, <1>11, Tables, SMT DEF days_in_month, Truth
<1>13. IsDate(d)
  BY <1>4, <1>10, <1>11, <1>12, SMT DEF IsDate, Date
<1>14. MarchYear(d) = Y /\ MarchDay(d) = t
  BY <1>3, <1>4, <1>6, <1>10, <1>11, SMT DEF MarchYear, MarchDay, Truth, Months
<1>15. unix_days(d) + 719468 = days_before(Y + 1) + t
  BY <1>13, <1>14, MarchDays, SMT
<1>16. unix_days(d) \in Int
  BY <1>13, UnixDaysType, SMT
<1> HIDE DEF d
<1> QED BY <1>1, <1>5, <1>7, <1>13, <1>15, <1>16, SMT

-----------------------------------------------------------------------------
\* The number of a date is in the range of Unix days.
LEMMA UnixDaysInRange ==
    ASSUME NEW d, IsDate(d)
    PROVE  unix_days(d) \in UnixDays
<1> DEFINE Y == MarchYear(d)
           t == MarchDay(d)
           v == days_before(Y + 1)
           n == unix_days(d)
<1>1. Y \in Nat /\ t \in 0 .. 365 /\ n + 719468 = v + t
  BY MarchDays, SMT
<1>2. n \in Int
  BY UnixDaysType, SMT
<1>3. t >= 306 <=> d.month <= 2
  BY MonthOfDay, SMT
<1>4. (Y = 0 => t >= 306) /\ Y <= 9999 /\ (Y = 9999 => t <= 305)
  <2>1. d.year \in Int /\ 1 <= d.year /\ d.year <= 9999
    BY PartsOfDate, SMT
  <2>2. Y = IF t >= 306 THEN d.year - 1 ELSE d.year
    BY <1>3, <2>1, SMT DEF MarchYear, Truth
  <2> HIDE DEF Y, t
  <2> QED BY <1>1, <2>1, <2>2, SMT
<1>5. v = 365 * Y + Y \div 4 - Y \div 100 + Y \div 400
  <2> HIDE DEF Y
  <2> QED BY <1>1, SMT DEF days_before
<1> HIDE DEF Y, t, v, n
<1>6. 306 <= v + t /\ v + t <= 3652364
  BY <1>1, <1>4, <1>5, SMT
<1>7. -719162 <= n /\ n <= 2932896
  <2>1. v \in Int
    BY <1>1, <1>5, SMT
  <2> QED BY <1>1, <1>2, <1>6, <2>1, SMT
<1> QED BY <1>2, <1>7, InUnixDays, SMT DEF n

\* The days before a month grow by the length of each month.
LEMMA MonthLength ==
    ASSUME NEW y \in Int, NEW m \in Months
    PROVE  /\ days_in_month(y, m) \in 28 .. 31 /\ days_before_month(y, m) \in 0 .. 335
           /\ m < 12 => days_before_month(y, m + 1) = days_before_month(y, m) + days_in_month(y, m)
           /\ days_in_month(y, 12) = 31
           /\ days_before_month(y, 12) + 31 = DaysInYear(y)
           /\ days_before_month(y, 1) = 0
<1>1. days_in_month(y, m) \in 28 .. 31 /\ days_before_month(y, m) \in 0 .. 335
  BY Tables, SMTT(40) DEF days_in_month, days_before_month, Truth, Months
<1>2. m < 12 => days_before_month(y, m + 1) = days_before_month(y, m) + days_in_month(y, m)
  <2> DEFINE b == DaysBeforeMonth[m]
             x == MaxMonthDays[m]
             a == DaysBeforeMonth[m + 1]
  <2> SUFFICES ASSUME m < 12
               PROVE  days_before_month(y, m + 1) = days_before_month(y, m) + days_in_month(y, m)
    BY SMT
  <2>1. a = b + x /\ b \in Int /\ x \in Int /\ m \in Int
    BY Tables, SMTT(40) DEF Months
  <2>2. /\ days_before_month(y, m + 1) = a + Truth(m + 1 > 2 /\ is_leap(y))
        /\ days_before_month(y, m) = b + Truth(m > 2 /\ is_leap(y))
        /\ days_in_month(y, m) = x + Truth(m = 2 /\ is_leap(y))
    BY SMT DEF days_before_month, days_in_month
  <2> HIDE DEF a, b, x
  <2> QED BY <2>1, <2>2, SMT DEF Truth
<1>3. 12 \in Months /\ 1 \in Months
  BY SMT DEF Months
<1>4. days_in_month(y, 12) = 31 /\ days_before_month(y, 1) = 0
  BY <1>3, Tables, SMT DEF days_in_month, days_before_month, Truth
<1>5. days_before_month(y, 12) + 31 = DaysInYear(y)
  BY <1>3, Tables, SMT DEF DaysInYear, days_before_month, Truth
<1> QED BY <1>1, <1>2, <1>4, <1>5, SMT

\* The fields of a date.
LEMMA DateFields ==
    ASSUME NEW y, NEW m, NEW k
    PROVE  Date(y, m, k).year = y /\ Date(y, m, k).month = m /\ Date(y, m, k).day = k
  BY SMT DEF Date

\* A year, a month and a day of it make a date.
LEMMA MakesDate ==
    ASSUME NEW y \in Years, NEW m \in Months, NEW k \in 1 .. 31, k <= days_in_month(y, m)
    PROVE  IsDate(Date(y, m, k))
  BY SMT DEF IsDate, Date

\* The number of the date made of a year, a month and a day.
LEMMA UnixDaysOf ==
    ASSUME NEW y, NEW m, NEW k
    PROVE  unix_days(Date(y, m, k)) = days_before(y) + days_before_month(y, m) + k + UnixDaysMin - 1
  BY DateFields, SMT DEF unix_days

\* What becomes of a date when the next day is taken, by the kind of its day
LEMMA TomorrowCases ==
    ASSUME NEW y \in Years, NEW m \in Months, NEW k \in 1 .. 31, k <= days_in_month(y, m)
    PROVE  LET d == Date(y, m, k) IN
           /\ k < days_in_month(y, m) => tomorrow(d) = Date(y, m, k + 1)
           /\ k = days_in_month(y, m) /\ m < 12 => tomorrow(d) = Date(y, m + 1, 1)
           /\ k = days_in_month(y, m) /\ m = 12 => tomorrow(d) = NewDate(y + 1, 1, 1)
<1> DEFINE d == Date(y, m, k)
<1>0. d.year = y /\ d.month = m /\ d.day = k
  BY DateFields, SMT
<1>1. [d EXCEPT !.day = @ + 1] = Date(y, m, k + 1)
  BY SMT DEF Date
<1>2. days_in_month(y, m) \in Int /\ k \in Int /\ m \in Int
  BY YearsRange, MonthLength, SMT DEF Months
<1> HIDE DEF d
<1> QED BY <1>0, <1>1, <1>2, SMT DEF tomorrow, d

\* What becomes of a date when the day before is taken, by the kind of its day
LEMMA YesterdayCases ==
    ASSUME NEW y \in Int, NEW m \in Months, NEW k \in 1 .. 31
    PROVE  LET d == Date(y, m, k) IN
           /\ k > 1 => yesterday(d) = Date(y, m, k - 1)
           /\ k = 1 /\ m > 1 => yesterday(d) = Date(y, m - 1, days_in_month(y, m - 1))
           /\ k = 1 /\ m = 1 => yesterday(d) = NewDate(y - 1, 12, 31)
<1> DEFINE d == Date(y, m, k)
<1>0. d.year = y /\ d.month = m /\ d.day = k
  BY DateFields, SMT
<1>1. [d EXCEPT !.day = @ - 1] = Date(y, m, k - 1)
  BY SMT DEF Date
<1> HIDE DEF d
<1> QED BY <1>0, <1>1, SMT DEF yesterday, d, Months

\* Date::tomorrow, for every date: it has the next number and the next weekday,
\* Date::yesterday leads back from it, and only after the last date there is none.
THEOREM TomorrowIsNext ==
    ASSUME NEW d, IsDate(d)
    PROVE  /\ d # DateMax => /\ IsDate(tomorrow(d))
                             /\ unix_days(tomorrow(d)) = unix_days(d) + 1
                             /\ yesterday(tomorrow(d)) = d
                             /\ tomorrow(d).year = d.year =>
                                    day_of_year(tomorrow(d)) = day_of_year(d) + 1
           /\ d = DateMax => tomorrow(d) = NoDate
<1> DEFINE y == d.year
           m == d.month
           k == d.day
           v == days_before(y)
           b == days_before_month(y, m)
           x == days_in_month(y, m)
<1>1. /\ d = Date(y, m, k) /\ y \in Int /\ 1 <= y /\ y <= 9999 /\ y \in Years
      /\ m \in Months /\ m \in 1 .. 12 /\ k \in 1 .. 31 /\ k <= x
  BY PartsOfDate, InYears, SMT DEF Months
<1>2. x \in 28 .. 31 /\ b \in 0 .. 335 /\ v \in Int
  BY <1>1, MonthLength, UnixDaysType, SMT
<1>3. unix_days(d) = v + b + k - 719163
  <2>1. unix_days(d) = v + b + k + (-719162) - 1
    BY SMT DEF unix_days, UnixDaysMin
  <2> HIDE DEF v, b, k
  <2> QED BY <1>1, <1>2, <2>1, SMT
<1>4. day_of_year(d) = b + k
  BY SMT DEF day_of_year
<1> HIDE DEF y, m, k
<1>5. CASE k < x
  <2> DEFINE e == Date(y, m, k + 1)
  <2>1. tomorrow(d) = e
    BY <1>1, <1>5, TomorrowCases, SMT
  <2>2. k + 1 \in 1 .. 31 /\ k + 1 <= x /\ k + 1 > 1 /\ (k + 1) - 1 = k
    BY <1>1, <1>2, <1>5, SMT
  <2>3. IsDate(e)
    BY <1>1, <2>2, MakesDate, SMT
  <2>4. yesterday(e) = d
    BY <1>1, <2>2, YesterdayCases, SMT
  <2>5. unix_days(e) = v + b + (k + 1) + (-719162) - 1
    BY UnixDaysOf, SMT DEF UnixDaysMin
  <2>6. day_of_year(e) = b + (k + 1)
    BY DateFields, SMT DEF day_of_year
  <2>7. d # DateMax
    <3>1. ASSUME d = DateMax
          PROVE  FALSE
      <4>1. m = 12 /\ k = 31
        BY <3>1, DateFields, SMT DEF DateMax, m, k
      <4> QED BY <1>1, <1>2, <1>5, <4>1, SMT
    <3> QED BY <3>1, SMT
  <2> HIDE DEF e, v, b
  <2>8. unix_days(e) = unix_days(d) + 1 /\ day_of_year(e) = day_of_year(d) + 1
    BY <1>1, <1>2, <1>3, <1>4, <2>5, <2>6, SMT
  <2> QED BY <2>1, <2>3, <2>4, <2>7, <2>8, SMT
<1>6. CASE k = x /\ m < 12
  <2> DEFINE e == Date(y, m + 1, 1)
  <2>1. tomorrow(d) = e
    BY <1>1, <1>6, TomorrowCases, SMT
  <2>2. m + 1 \in Months /\ 1 \in 1 .. 31 /\ m + 1 > 1 /\ (m + 1) - 1 = m
    BY <1>1, <1>6, SMT DEF Months
  <2>3. IsDate(e)
    <3>1. days_in_month(y, m + 1) \in 28 .. 31
      BY <1>1, <2>2, MonthLength, SMT
    <3> QED BY <1>1, <2>2, <3>1, MakesDate, SMT
  <2>4. yesterday(e) = d
    BY <1>1, <1>6, <2>2, YesterdayCases, SMT
  <2>5. days_before_month(y, m + 1) = b + x
    BY <1>1, <1>6, MonthLength, SMT
  <2>6. unix_days(e) = v + (b + x) + 1 + (-719162) - 1
    BY <2>5, UnixDaysOf, SMT DEF UnixDaysMin
  <2>7. day_of_year(e) = b + x + 1
    BY <2>5, DateFields, SMT DEF day_of_year
  <2>8. d # DateMax
    <3>1. ASSUME d = DateMax
          PROVE  FALSE
      <4>1. m = 12
        BY <3>1, DateFields, SMT DEF DateMax, m
      <4> QED BY <1>1, <1>6, <4>1, SMT
    <3> QED BY <3>1, SMT
  <2> HIDE DEF e, v, b, x
  <2>9. unix_days(e) = unix_days(d) + 1 /\ day_of_year(e) = day_of_year(d) + 1
    BY <1>1, <1>2, <1>3, <1>4, <1>6, <2>6, <2>7, SMT
  <2> QED BY <2>1, <2>3, <2>4, <2>8, <2>9, SMT
<1>7. CASE k = x /\ m = 12 /\ y < 9999
  <2> DEFINE e == Date(y + 1, 1, 1)
  <2>1. tomorrow(d) = NewDate(y + 1, 1, 1)
    BY <1>1, <1>7, TomorrowCases, SMT
  <2>2. 1 \in Months /\ 12 \in Months /\ y + 1 \in Int /\ y + 1 \in Years /\ (y + 1) - 1 = y /\ y # y + 1
    BY <1>1, <1>7, InYears, SMT DEF Months
  <2>3. days_in_month(y + 1, 1) \in 28 .. 31 /\ days_in_month(y, 12) = 31
        /\ days_before_month(y + 1, 1) = 0 /\ b + 31 = DaysInYear(y)
    BY <1>1, <1>7, <2>2, MonthLength, SMT
  <2>4. NewDate(y + 1, 1, 1) = e
    BY <2>2, <2>3, SMT DEF NewDate
  <2>5. IsDate(e)
    BY <2>2, <2>3, MakesDate, SMT
  <2>6. yesterday(e) = d
    <3>1. yesterday(e) = NewDate(y, 12, 31)
      BY <2>2, YesterdayCases, SMT
    <3>2. NewDate(y, 12, 31) = Date(y, 12, 31)
      BY <1>1, <2>2, <2>3, SMT DEF NewDate
    <3> QED BY <1>1, <1>7, <2>3, <3>1, <3>2, SMT
  <2>7. unix_days(e) = days_before(y + 1) + 0 + 1 + (-719162) - 1
    BY <2>3, UnixDaysOf, SMT DEF UnixDaysMin
  <2>8. days_before(y + 1) = v + DaysInYear(y)
    BY <1>1, YearLength, SMT
  <2>9. d # DateMax
    <3>1. ASSUME d = DateMax
          PROVE  FALSE
      <4>1. y = 9999
        BY <3>1, DateFields, SMT DEF DateMax, y
      <4> QED BY <1>1, <1>7, <4>1, SMT
    <3> QED BY <3>1, SMT
  <2>10. e.year # d.year
    BY <2>2, DateFields, SMT DEF y
  <2>11. x = 31
    BY <1>7, <2>3, SMT
  <2> HIDE DEF e, v, b, x
  <2>12. unix_days(e) = unix_days(d) + 1
    BY <1>1, <1>2, <1>3, <1>7, <2>3, <2>7, <2>8, <2>11, SMT
  <2> QED BY <2>1, <2>4, <2>5, <2>6, <2>9, <2>10, <2>12, SMT
<1>8. CASE k = x /\ m = 12 /\ y = 9999
  <2>1. k = 31
    BY <1>1, <1>8, MonthLength, SMT
  <2>2. d = DateMax
    BY <1>1, <1>8, <2>1, SMT DEF DateMax
  <2>3. tomorrow(d) = NewDate(9999 + 1, 1, 1)
    BY <1>1, <1>8, TomorrowCases, SMT
  <2>4. 9999 + 1 \notin Years
    <3>1. ASSUME 9999 + 1 \in Years
          PROVE  FALSE
      <4>1. 9999 + 1 <= 9999
        BY <3>1, YearsRange, SMT
      <4> QED BY <4>1, SMT
    <3> QED BY <3>1, SMT
  <2>5. tomorrow(d) = NoDate
    BY <2>3, <2>4, SMT DEF NewDate
  <2> QED BY <2>2, <2>5, SMT
<1> QED
  <2>1. k < x \/ k = x
    BY <1>1, <1>2, SMT
  <2>2. m < 12 \/ m = 12
    BY <1>1, SMT
  <2>3. y < 9999 \/ y = 9999
    BY <1>1, SMT
  <2> QED BY <1>5, <1>6, <1>7, <1>8, <2>1, <2>2, <2>3, SMT

-----------------------------------------------------------------------------
\* Weekdays run from 1 to 7 and follow the numbers.
LEMMA WeekdayStep ==
    ASSUME NEW n \in Int
    PROVE  day_of_week(n) \in 1 .. 7 /\ day_of_week(n + 1) = (day_of_week(n) % 7) + 1
  BY SMT DEF day_of_week

\* None is not a date.
LEMMA NoneIsNoDate ==
    ASSUME NEW d, IsDate(d)
    PROVE  d # NoDate
<1>1. d.year # 0
  BY PartsOfDate, SMT
<1> QED BY <1>1, SMT DEF NoDate

\* Date::shift_days, for every date and number of days: the number of the result
\* is the sum, and there is no result exactly where the sum is out of range.
THEOREM ShiftDaysAdds ==
    ASSUME NEW d, IsDate(d), NEW n \in Int
    PROVE  IF unix_days(d) + n \in UnixDays
           THEN IsDate(shift_days(d, n)) /\ unix_days(shift_days(d, n)) = unix_days(d) + n
           ELSE shift_days(d, n) = NoDate
<1> DEFINE u == unix_days(d) + n
<1>1. NoDays \notin UnixDays
  <2>1. ASSUME NoDays \in UnixDays
        PROVE  FALSE
    <3>1. -719162 <= NoDays
      BY <2>1, UnixDaysRange, SMT
    <3> QED BY <3>1, SMT DEF NoDays, UnixDaysMin
  <2> QED BY <2>1, SMT
<1>2. CASE u \in UnixDays
  <2>1. shift_days(d, n) = UnixDaysDate(u)
    BY <1>1, <1>2, SMT DEF shift_days, DateOrNone, ShiftUnix
  <2> HIDE DEF u
  <2>2. IsDate(UnixDaysDate(u)) /\ unix_days(UnixDaysDate(u)) = u
    BY <1>2, UnixDaysDateSound, SMT
  <2> QED BY <1>2, <2>1, <2>2, SMT DEF u
<1>3. CASE u \notin UnixDays
  <2>1. shift_days(d, n) = NoDate
    BY <1>3, SMT DEF shift_days, DateOrNone, ShiftUnix
  <2> QED BY <1>3, <2>1, SMT
<1> QED BY <1>2, <1>3, SMT

\* A call returns a date of the range, or None
Returns(d) == d = NoDate \/ IsDate(d)

\* Date::shift_days returns a date of the range, or None.
LEMMA ShiftDaysReturns ==
    ASSUME NEW d, IsDate(d), NEW n \in Int
    PROVE  Returns(shift_days(d, n))
  BY ShiftDaysAdds, SMT DEF Returns

\* Date::new returns a date of the range, or None.
LEMMA NewDateReturns ==
    ASSUME NEW y, NEW m, NEW k
    PROVE  Returns(NewDate(y, m, k))
<1>1. CASE y \in Years /\ m \in Months /\ k \in 1 .. days_in_month(y, m)
  <2>1. y \in Int
    BY <1>1, YearsRange, SMT
  <2>2. days_in_month(y, m) \in 28 .. 31
    BY <1>1, <2>1, MonthLength, SMT
  <2>3. k \in 1 .. 31 /\ k <= days_in_month(y, m)
    BY <1>1, <2>2, SMT
  <2>4. IsDate(Date(y, m, k))
    BY <1>1, <2>3, MakesDate, SMT
  <2> QED BY <1>1, <2>4, SMT DEF NewDate, Returns
<1>2. CASE ~(y \in Years /\ m \in Months /\ k \in 1 .. days_in_month(y, m))
  BY <1>2, SMT DEF NewDate, Returns
<1> QED BY <1>1, <1>2, SMT

\* Date::shift_months, the day cut to the month, returns a date or None.
LEMMA ShiftMonthsReturns ==
    ASSUME NEW d, IsDate(d), NEW n \in Int
    PROVE  Returns(shift_months(d, n))
<1> DEFINE y == d.year + (d.month + n - 1) \div 12
           m == ((d.month + n - 1) % 12) + 1
           x == days_in_month(y, m)
           k == IF d.day <= x THEN d.day ELSE x
<1>1. d.year \in Int /\ d.month \in 1 .. 12 /\ d.day \in 1 .. 31
  BY PartsOfDate, SMT
<1>2. y \in Int /\ m \in Months
  <2> DEFINE a == d.month + n - 1
  <2>1. a \in Int
    BY <1>1, SMT
  <2> HIDE DEF a
  <2>2. a \div 12 \in Int /\ a % 12 \in 0 .. 11
    BY <2>1, SMT
  <2>3. y = d.year + a \div 12 /\ m = (a % 12) + 1
    BY SMT DEF a
  <2> HIDE DEF y, m
  <2> QED BY <1>1, <2>2, <2>3, SMT DEF Months
<1>3. shift_months(d, n) = IF y \in Years THEN Date(y, m, k) ELSE NoDate
  BY SMT DEF shift_months, MonthShift, new_clamp_days
<1> HIDE DEF y, m
<1>4. x \in 28 .. 31
  BY <1>2, MonthLength, SMT
<1>5. k \in 1 .. 31 /\ k <= x
  <2> HIDE DEF x
  <2> QED BY <1>1, <1>4, SMT
<1> HIDE DEF k
<1>6. ASSUME y \in Years
      PROVE  IsDate(Date(y, m, k))
  BY <1>2, <1>5, <1>6, MakesDate, SMT
<1> QED BY <1>3, <1>6, SMT DEF Returns

\* A shift by months and then days returns a date or None.
LEMMA ShiftReturns ==
    ASSUME NEW d, IsDate(d), NEW months \in Int, NEW days \in Int
    PROVE  Returns(ShiftDate(d, months, days))
<1> DEFINE e == shift_months(d, months)
<1>1. e = NoDate \/ IsDate(e)
  BY ShiftMonthsReturns, SMT DEF Returns
<1> HIDE DEF e
<1>2. CASE e = NoDate
  BY <1>2, SMT DEF ShiftDate, OrNoDate, Returns, e
<1>3. CASE IsDate(e)
  <2>1. e # NoDate
    BY <1>3, NoneIsNoDate, SMT
  <2>2. ShiftDate(d, months, days) = shift_days(e, days)
    BY <2>1, SMT DEF ShiftDate, OrNoDate, e
  <2> QED BY <1>3, <2>2, ShiftDaysReturns, SMT
<1> QED BY <1>1, <1>2, <1>3, SMT

\* start_of and end_of return a date or None.
LEMMA BoundaryReturns ==
    ASSUME NEW d, IsDate(d), NEW unit \in DateBoundaryUnit
    PROVE  Returns(DateStartOf(d, unit)) /\ Returns(DateEndOf(d, unit))
<1> DEFINE y == d.year
           m == d.month
           dow == day_of_week(unix_days(d))
<1>1. y \in Int /\ y \in Years /\ m \in Months
  BY PartsOfDate, InYears, SMT DEF Months
<1>2. 1 \in Months /\ 12 \in Months /\ 1 \in 1 .. 31 /\ 31 \in 1 .. 31
  BY SMT DEF Months
<1>3. /\ days_in_month(y, m) \in 28 .. 31 /\ days_in_month(y, 1) \in 28 .. 31
      /\ days_in_month(y, 12) = 31
  BY <1>1, <1>2, MonthLength, SMT
<1>4. /\ IsDate(Date(y, m, 1)) /\ IsDate(Date(y, m, days_in_month(y, m)))
      /\ IsDate(Date(y, 1, 1)) /\ IsDate(Date(y, 12, 31))
  <2> HIDE DEF y, m
  <2>1. days_in_month(y, m) \in 1 .. 31 /\ days_in_month(y, m) <= days_in_month(y, m)
    BY <1>3, SMT
  <2>2. 1 <= days_in_month(y, m) /\ 1 <= days_in_month(y, 1) /\ 31 <= days_in_month(y, 12)
    BY <1>3, SMT
  <2> QED BY <1>1, <1>2, <2>1, <2>2, MakesDate, SMT
<1>5. dow \in 1 .. 7
  BY UnixDaysType, WeekdayStep, SMT
<1>6. 1 - dow \in Int /\ -(dow % 7) \in Int /\ 7 - dow \in Int /\ (6 - dow) % 7 \in Int
  <2> HIDE DEF dow
  <2> QED BY <1>5, SMT
<1>7. /\ Returns(shift_days(d, 1 - dow)) /\ Returns(shift_days(d, -(dow % 7)))
      /\ Returns(shift_days(d, 7 - dow)) /\ Returns(shift_days(d, (6 - dow) % 7))
  <2> HIDE DEF dow
  <2> QED BY <1>6, ShiftDaysReturns, SMT
<1>8. /\ unit = "week_mon" => DateStartOf(d, unit) = shift_days(d, 1 - dow)
                               /\ DateEndOf(d, unit) = shift_days(d, 7 - dow)
      /\ unit = "week_sun" => DateStartOf(d, unit) = shift_days(d, -(dow % 7))
                               /\ DateEndOf(d, unit) = shift_days(d, (6 - dow) % 7)
      /\ unit = "month" => DateStartOf(d, unit) = Date(y, m, 1)
                            /\ DateEndOf(d, unit) = Date(y, m, days_in_month(y, m))
      /\ unit = "year" => DateStartOf(d, unit) = Date(y, 1, 1)
                           /\ DateEndOf(d, unit) = Date(y, 12, 31)
  BY SMT DEF DateStartOf, DateEndOf
<1>9. unit \in {"week_mon", "week_sun", "month", "year"}
  BY SMT DEF DateBoundaryUnit
<1> HIDE DEF dow, y, m
<1> QED BY <1>4, <1>7, <1>8, <1>9, SMT DEF Returns


\* The deltas the operations take are numbers.
LEMMA DeltasAreInt == DeltaMonths \subseteq Int /\ DeltaDays \subseteq Int
<1>1. \A a \in Int, b \in Int : a .. b \subseteq Int
  BY SMT
<1>2. -(9999 * 12) \in Int /\ 9999 * 12 \in Int
  BY SMT
<1>3. UnixDaysMin - UnixDaysMax - 1 \in Int /\ UnixDaysMax - UnixDaysMin + 1 \in Int
  BY SMT DEF UnixDaysMin, UnixDaysMax
<1> QED BY <1>1, <1>2, <1>3, SMT DEF DeltaMonths, DeltaDays

-----------------------------------------------------------------------------
\* Two dates with one number are the same date.
LEMMA SameNumberSameDate ==
    ASSUME NEW d, IsDate(d), NEW e, IsDate(e), unix_days(d) = unix_days(e)
    PROVE  d = e
<1>1. UnixDaysDate(unix_days(d)) = d /\ UnixDaysDate(unix_days(e)) = e
  BY UnixDaysDateInverts, SMT
<1> QED BY <1>1, SMT

\* The day of the year, and the number of the first day of the year.
LEMMA DaysOfYear ==
    ASSUME NEW d, IsDate(d)
    PROVE  /\ day_of_year(d) \in Int /\ 1 <= day_of_year(d) /\ day_of_year(d) <= DaysInYear(d.year)
           /\ unix_days(d) = days_before(d.year) + day_of_year(d) - 719163
<1> DEFINE y == d.year
           m == d.month
           k == d.day
           b == DaysBeforeMonth[m]
           x == MaxMonthDays[m]
           v == days_before(y)
<1>1. y \in Int /\ m \in Months /\ m \in Int /\ k \in 1 .. 31 /\ k <= x + Truth(m = 2 /\ is_leap(y))
  BY PartsOfDate, SMT DEF days_in_month, Months
<1>2. b \in Int /\ 0 <= b /\ x \in Int /\ b + x <= 365 /\ v \in Int
  BY <1>1, Tables, UnixDaysType, SMTT(40)
<1>3. day_of_year(d) = b + Truth(m > 2 /\ is_leap(y)) + k
  BY SMT DEF day_of_year, days_before_month
<1>4. unix_days(d) = v + day_of_year(d) + (-719162) - 1
  <2>1. days_before_month(y, m) \in Int
    BY UnixDaysType, SMT
  <2>2. day_of_year(d) = days_before_month(y, m) + k
    BY SMT DEF day_of_year
  <2>3. unix_days(d) = v + days_before_month(y, m) + k + (-719162) - 1
    BY SMT DEF unix_days, UnixDaysMin
  <2> HIDE DEF v, k, m, y
  <2> QED BY <1>1, <1>2, <2>1, <2>2, <2>3, SMT
<1> HIDE DEF y, m, k, b, x, v
<1>5. /\ day_of_year(d) \in Int /\ 1 <= day_of_year(d)
      /\ day_of_year(d) <= 365 + Truth(is_leap(y))
  BY <1>1, <1>2, <1>3, SMT DEF Truth
<1>6. DaysInYear(y) = 365 + Truth(is_leap(y))
  BY SMT DEF DaysInYear, Truth
<1>7. unix_days(d) = v + day_of_year(d) - 719163
  BY <1>2, <1>4, <1>5, SMT
<1> QED BY <1>5, <1>6, <1>7, SMT DEF y, v

\* Years follow each other (days_before).
LEMMA YearOrder ==
    ASSUME NEW y \in Int, NEW z \in Int, y < z
    PROVE  days_before(y) + DaysInYear(y) <= days_before(z)
<1>1. days_before(y + 1) = days_before(y) + DaysInYear(y)
  BY YearLength, SMT
<1>2. days_before(y + 1) <= days_before(z)
  BY SMT DEF days_before
<1> QED BY <1>1, <1>2, SMT

\* The months of a year follow each other.
LEMMA MonthOrder ==
    ASSUME NEW y \in Int, NEW m \in Months, NEW n \in Months, m < n
    PROVE  days_before_month(y, m) + days_in_month(y, m) <= days_before_month(y, n)
<1>1. DaysBeforeMonth[m] + MaxMonthDays[m] <= DaysBeforeMonth[n]
  BY SMT DEF Months, DaysBeforeMonth, MaxMonthDays
<1>2. DaysBeforeMonth[m] \in Int /\ MaxMonthDays[m] \in Int /\ DaysBeforeMonth[n] \in Int
  BY SMT DEF Months, DaysBeforeMonth, MaxMonthDays
<1>3. m \in Int /\ n \in Int
  BY SMT DEF Months
<1>4. CASE is_leap(y)
  BY <1>1, <1>2, <1>3, <1>4, SMT DEF days_before_month, days_in_month, Truth
<1>5. CASE ~is_leap(y)
  BY <1>1, <1>2, <1>3, <1>5, SMT DEF days_before_month, days_in_month, Truth
<1> QED BY <1>4, <1>5

\* The tables of months hold numbers.
LEMMA MonthDaysType ==
    ASSUME NEW y \in Int, NEW m \in Months
    PROVE  days_before_month(y, m) \in Int /\ days_in_month(y, m) \in Int
  BY MonthLength, SMT

\* A date that is less has the smaller number.
LEMMA LessIsBefore ==
    ASSUME NEW d, IsDate(d), NEW e, IsDate(e), DateLess(d, e)
    PROVE  unix_days(d) < unix_days(e)
<1> DEFINE y == d.year
           m == d.month
           k == d.day
           z == e.year
           n == e.month
           l == e.day
<1>1. /\ y \in Int /\ m \in Months /\ k \in Int /\ 1 <= k /\ k <= days_in_month(y, m)
      /\ z \in Int /\ n \in Months /\ l \in Int /\ 1 <= l
  BY PartsOfDate, SMT DEF Months
<1>2. /\ day_of_year(d) \in Int /\ day_of_year(d) <= DaysInYear(y) /\ day_of_year(e) \in Int /\ 1 <= day_of_year(e)
      /\ unix_days(d) = days_before(y) + day_of_year(d) - 719163
      /\ unix_days(e) = days_before(z) + day_of_year(e) - 719163
  BY DaysOfYear, SMT
<1>3. day_of_year(d) = days_before_month(y, m) + k /\ day_of_year(e) = days_before_month(z, n) + l
  BY SMT DEF day_of_year
<1>4. /\ days_before(y) \in Int /\ days_before(z) \in Int /\ DaysInYear(y) \in Int
      /\ days_before_month(y, m) \in Int /\ days_before_month(z, n) \in Int /\ days_in_month(y, m) \in Int
  <2>1. days_before(y) \in Int /\ days_before(z) \in Int /\ DaysInYear(y) \in Int
    BY <1>1, SMT DEF days_before, DaysInYear
  <2>2. days_before_month(y, m) \in Int /\ days_in_month(y, m) \in Int
    BY <1>1, MonthLength, SMT
  <2>3. days_before_month(z, n) \in Int
    BY <1>1, MonthDaysType, SMT
  <2> QED BY <2>1, <2>2, <2>3
<1>5. y < z \/ (y = z /\ m < n) \/ (y = z /\ m = n /\ k < l)
  BY SMT DEF DateLess
<1> HIDE DEF y, m, k, z, n, l
<1>6. CASE y < z
  <2>1. days_before(y) + DaysInYear(y) <= days_before(z)
    BY <1>1, <1>6, YearOrder, SMT
  <2> QED BY <1>2, <1>4, <2>1, SMT
<1>7. CASE y = z /\ m < n
  <2>1. days_before_month(y, m) + days_in_month(y, m) <= days_before_month(y, n)
    BY <1>1, <1>7, MonthOrder, SMT
  <2> QED BY <1>1, <1>2, <1>3, <1>4, <1>7, <2>1, SMT
<1>8. CASE y = z /\ m = n /\ k < l
  BY <1>1, <1>2, <1>3, <1>4, <1>8, SMT
<1> QED BY <1>5, <1>6, <1>7, <1>8

\* Dates are compared field by field, and so are their numbers.
LEMMA DateOrder ==
    ASSUME NEW d, IsDate(d), NEW e, IsDate(e)
    PROVE  DateLess(d, e) <=> unix_days(d) < unix_days(e)
<1>1. unix_days(d) \in Int /\ unix_days(e) \in Int
  BY UnixDaysType, SMT
<1>2. d = e \/ DateLess(d, e) \/ DateLess(e, d)
  <2>1. /\ d = Date(d.year, d.month, d.day) /\ d.year \in Int /\ d.month \in Int /\ d.day \in Int
        /\ e = Date(e.year, e.month, e.day) /\ e.year \in Int /\ e.month \in Int /\ e.day \in Int
    BY PartsOfDate, SMT
  <2> QED BY <2>1, SMT DEF DateLess
<1>3. DateLess(e, d) => unix_days(e) < unix_days(d)
  BY LessIsBefore, SMT
<1>4. DateLess(d, e) => unix_days(d) < unix_days(e)
  BY LessIsBefore, SMT
<1> QED BY <1>1, <1>2, <1>3, <1>4, SMT

-----------------------------------------------------------------------------
\* When the next multiple is taken, by what is left of an increment
LEMMA WhenUp ==
    ASSUME NEW q \in Int, NEW inc \in Nat \ {0}, inc = 1 \/ inc % 2 = 0,
           NEW rem \in Nat, rem < inc
    PROVE  /\ ~(rem >= Threshold(q, inc, "trunc"))
           /\ rem >= Threshold(q, inc, "expand") <=> rem > 0
           /\ rem >= Threshold(q, inc, "half_trunc") <=> 2 * rem > inc
           /\ rem >= Threshold(q, inc, "half_expand") <=> 2 * rem >= inc
           /\ rem >= Threshold(q, inc, "half_even") <=>
                (2 * rem > inc \/ (2 * rem = inc /\ q % 2 # 0))
<1>1. /\ Threshold(q, inc, "trunc") = inc + 1
      /\ Threshold(q, inc, "expand") = 1
      /\ Threshold(q, inc, "half_trunc") = inc \div 2 + 1
      /\ Threshold(q, inc, "half_expand") = AtLeast1(inc \div 2)
      /\ Threshold(q, inc, "half_even") = AtLeast1(inc \div 2 + IF q % 2 = 0 THEN 1 ELSE 0)
  BY SMT DEF Threshold
<1>2. q % 2 \in 0 .. 1
  BY SMT
<1>3. CASE inc = 1
  BY <1>1, <1>2, <1>3, SMT DEF AtLeast1
<1>4. CASE inc % 2 = 0
  <2> DEFINE h == inc \div 2
             o == q % 2
  <2>1. h \in Nat /\ h >= 1 /\ inc = 2 * h
    BY <1>4, SMT
  <2>2. /\ Threshold(q, inc, "half_trunc") = h + 1
        /\ Threshold(q, inc, "half_expand") = h
        /\ Threshold(q, inc, "half_even") = IF o = 0 THEN h + 1 ELSE h
    <3> HIDE DEF h
    <3> QED BY <1>1, <1>2, <2>1, SMT DEF AtLeast1, h
  <2> HIDE DEF h, o
  <2> QED BY <1>1, <2>1, <2>2, SMT DEF o
<1> QED BY <1>3, <1>4

\* The threshold rounding that times, sub-seconds and time deltas share gives the
\* multiple each mode promises, for values of either sign and every increment that
\* is even or 1: with an odd increment "half" would not be the middle.
THEOREM RoundsByMode ==
    ASSUME NEW v \in Int, NEW inc \in Nat \ {0}, inc = 1 \/ inc % 2 = 0, NEW mode \in Mode
    PROVE  RoundsTo(v, inc, mode, RoundMultiple(v, inc, to_abs_euclid(mode, v < 0)))
<1> DEFINE q == v \div inc
           rem == v % inc
           abs == to_abs_euclid(mode, v < 0)
           up == rem >= Threshold(q, inc, abs)
           p == inc * q
           r == RoundMultiple(v, inc, abs)
<1>1. v = p + rem /\ q \in Int /\ rem \in Nat /\ rem < inc
  BY DivSplit, SMT
<1>2. r = (q + IF up THEN 1 ELSE 0) * inc
  BY SMT DEF RoundMultiple
<1>3. p \in Int /\ (v < 0 => p + inc <= 0) /\ (v >= 0 => p >= 0)
  <2> HIDE DEF q, rem
  <2>1. p \in Int
    BY <1>1, SMT
  <2>2. q <= -1 \/ q >= 0
    BY <1>1, SMT
  <2>3. q <= -1 => p <= -inc
    BY <1>1, SMT
  <2>4. q >= 0 => p >= 0
    BY <1>1, SMT
  <2> HIDE DEF p
  <2> QED BY <1>1, <2>1, <2>2, <2>3, <2>4, SMT
<1>4. /\ ~up => r = p
      /\ up => r = p + inc
      /\ r % inc = 0 /\ (r \div inc = IF up THEN q + 1 ELSE q)
  <2> HIDE DEF q, up
  <2>1. CASE up
    <3>1. r = inc * (q + 1) + 0 /\ q + 1 \in Int /\ r \in Int /\ r = p + inc
      BY <1>1, <1>2, <2>1, SMT
    <3> HIDE DEF r
    <3>2. r \div inc = q + 1 /\ r % inc = 0
      BY <3>1, DivUnique, SMT
    <3> QED BY <2>1, <3>1, <3>2, SMT
  <2>2. CASE ~up
    <3>1. r = inc * q + 0 /\ r \in Int /\ r = p
      BY <1>1, <1>2, <2>2, SMT
    <3> HIDE DEF r
    <3>2. r \div inc = q /\ r % inc = 0
      BY <1>1, <3>1, DivUnique, SMT
    <3> QED BY <2>2, <3>1, <3>2, SMT
  <2> QED BY <2>1, <2>2
<1>5. /\ abs = "trunc" => ~up
      /\ abs = "expand" => (up <=> rem > 0)
      /\ abs = "half_trunc" => (up <=> 2 * rem > inc)
      /\ abs = "half_expand" => (up <=> 2 * rem >= inc)
      /\ abs = "half_even" => (up <=> (2 * rem > inc \/ (2 * rem = inc /\ q % 2 # 0)))
  <2> HIDE DEF q, rem, abs
  <2> QED BY <1>1, WhenUp, SMT
<1>6. r = IF up THEN p + inc ELSE p
  BY <1>4
<1>7. Distance(r, v) < inc
  <2>1. ~up \/ rem > 0
    <3>1. abs \in {"trunc", "expand", "half_trunc", "half_expand", "half_even"}
      BY SMT DEF to_abs_euclid, Mode
    <3> HIDE DEF abs, up, rem
    <3> QED BY <1>1, <1>5, <3>1, SMT
  <2> HIDE DEF r, up, p, rem
  <2> QED BY <1>1, <1>3, <1>6, <2>1, SMT DEF Distance
<1>8. IsTie(v, inc) <=> 2 * rem = inc
  BY SMT DEF IsTie
<1> DEFINE Rest ==
    /\ mode = "floor" => r <= v
    /\ mode = "ceil" => r >= v
    /\ mode = "trunc" => Distance(0, r) <= Distance(0, v)
    /\ mode = "expand" => Distance(0, r) >= Distance(0, v)
    /\ mode \in {"half_floor", "half_ceil", "half_even", "half_trunc", "half_expand"} =>
            2 * Distance(r, v) <= inc
    /\ IsTie(v, inc) =>
            /\ mode = "half_floor" => r < v
            /\ mode = "half_ceil" => r > v
            /\ mode = "half_trunc" => Distance(0, r) < Distance(0, v)
            /\ mode = "half_expand" => Distance(0, r) > Distance(0, v)
            /\ mode = "half_even" => (r \div inc) % 2 = 0
<1>9. Rest
  <2> DEFINE e == (r \div inc) % 2
  <2>1. e = (IF up THEN q + 1 ELSE q) % 2
    BY <1>4
  <2>2. abs = (CASE mode = "floor" -> "trunc"
                 [] mode = "ceil" -> "expand"
                 [] mode = "trunc" -> IF v < 0 THEN "expand" ELSE "trunc"
                 [] mode = "expand" -> IF v < 0 THEN "trunc" ELSE "expand"
                 [] mode = "half_floor" -> "half_trunc"
                 [] mode = "half_ceil" -> "half_expand"
                 [] mode = "half_trunc" -> IF v < 0 THEN "half_expand" ELSE "half_trunc"
                 [] mode = "half_expand" -> IF v < 0 THEN "half_trunc" ELSE "half_expand"
                 [] mode = "half_even" -> "half_even")
    BY SMT DEF to_abs_euclid, Mode
  <2> HIDE DEF up, rem, abs, e
  <2>3. (q + 1) % 2 = (IF q % 2 = 0 THEN 1 ELSE 0) /\ q % 2 \in 0 .. 1
    <3> HIDE DEF q
    <3> QED BY <1>1, SMT
  <2>4. mode = "half_even" /\ 2 * rem = inc => e = 0
    <3> HIDE DEF q
    <3> QED BY <1>1, <1>5, <2>1, <2>2, <2>3, SMT
  <2> HIDE DEF r, p, q
  <2>5. CASE mode = "floor" \/ mode = "ceil"
    BY <1>1, <1>3, <1>5, <1>6, <2>2, <2>5, SMT
  <2>6. CASE mode = "trunc" \/ mode = "expand"
    BY <1>1, <1>3, <1>5, <1>6, <2>2, <2>6, SMT DEF Distance
  <2>7. CASE mode = "half_floor" \/ mode = "half_ceil"
    BY <1>1, <1>3, <1>5, <1>6, <1>8, <2>2, <2>7, SMT DEF Distance
  <2>8. CASE mode = "half_trunc" \/ mode = "half_expand"
    BY <1>1, <1>3, <1>5, <1>6, <1>8, <2>2, <2>8, SMT DEF Distance
  <2>9. CASE mode = "half_even"
    <3>1. 2 * Distance(r, v) <= inc
      BY <1>1, <1>3, <1>5, <1>6, <2>2, <2>9, SMT DEF Distance
    <3> QED BY <1>8, <2>4, <2>9, <3>1, SMT DEF e
  <2>10. mode \in {"floor", "ceil", "trunc", "expand", "half_floor", "half_ceil", "half_even", "half_trunc", "half_expand"}
    BY DEF Mode
  <2> HIDE DEF Rest
  <2> QED BY <2>5, <2>6, <2>7, <2>8, <2>9, <2>10, SMT
<1> QED BY <1>4, <1>7, <1>9, SMT DEF RoundsTo

-----------------------------------------------------------------------------
(***************************************************************************)
(* Shifts by months, and what they lead to.                                *)
(***************************************************************************)
\* Shifting by the months between two months leads to the other month, on the
\* same day or on its last.
LEMMA ShiftToMonth ==
    ASSUME NEW o, IsDate(o), NEW y \in Years, NEW m \in Months,
           NEW n, n = m - o.month + 12 * (y - o.year)
    PROVE  LET x == days_in_month(y, m)
               k == IF o.day <= x THEN o.day ELSE x
           IN  shift_months(o, n) = Date(y, m, k) /\ IsDate(Date(y, m, k)) /\ k \in 1 .. 31
<1> DEFINE x == days_in_month(y, m)
           k == IF o.day <= x THEN o.day ELSE x
           oy == o.year
           om == o.month
<1>1. oy \in Int /\ om \in 1 .. 12 /\ o.day \in 1 .. 31 /\ y \in Int /\ m \in 1 .. 12 /\ m \in Months
  BY PartsOfDate, YearsRange, SMT DEF Months
<1>2. x \in 28 .. 31
  BY <1>1, MonthLength, SMT
<1>3. k \in 1 .. 31 /\ k <= x
  <2> HIDE DEF x
  <2> QED BY <1>1, <1>2, SMT
<1>4. IsDate(Date(y, m, k))
  <2> HIDE DEF k
  <2> QED BY <1>1, <1>3, MakesDate, SMT
<1>5. oy + (om + n - 1) \div 12 = y /\ ((om + n - 1) % 12) + 1 = m
  <2> DEFINE a == om + n - 1
             b == y - oy
             r == m - 1
  <2>1. a = 12 * b + r /\ a \in Int /\ b \in Int /\ r \in Nat /\ r < 12
    <3> HIDE DEF oy, om
    <3>1. n = m - om + 12 * (y - oy)
      BY SMT DEF oy, om
    <3> QED BY <1>1, <3>1, SMT
  <2> HIDE DEF a, b, r
  <2>2. a \div 12 = b /\ a % 12 = r
    BY <2>1, DivUnique, SMT
  <2>3. oy + b = y /\ r + 1 = m
    BY <1>1, SMT DEF b, r
  <2> QED BY <2>2, <2>3, SMT DEF a
<1>6. shift_months(o, n) = Date(y, m, k)
  <2>1. MonthShift(o.year, o.month, n) = <<y, m>>
    BY <1>5, SMT DEF MonthShift
  <2> QED BY <2>1, SMT DEF shift_months, new_clamp_days
<1> QED BY <1>3, <1>4, <1>6

\* The days before a month, counted from year 1
Before1(y, m) == days_before(y) + days_before_month(y, m)

\* The number of a date, by the days before its month.
LEMMA Before1Type ==
    ASSUME NEW y \in Int, NEW m \in Months
    PROVE  Before1(y, m) \in Int /\ (\A k : unix_days(Date(y, m, k)) = Before1(y, m) + k + (-719162) - 1)
<1>1. days_before(y) \in Int
  BY SMT DEF days_before
<1>2. days_before_month(y, m) \in Int
  BY MonthLength, SMT
<1>3. ASSUME NEW k
      PROVE  unix_days(Date(y, m, k)) = Before1(y, m) + k + (-719162) - 1
  BY UnixDaysOf, SMT DEF Before1, UnixDaysMin
<1> QED BY <1>1, <1>2, <1>3, SMT DEF Before1

\* The next month, and the next year after December
LEMMA NextMonth ==
    ASSUME NEW y \in Int, NEW m \in Months
    PROVE  LET y1 == IF m = 12 THEN y + 1 ELSE y
               m1 == IF m = 12 THEN 1 ELSE m + 1
           IN  Before1(y1, m1) = Before1(y, m) + days_in_month(y, m)
<1>1. m \in 1 .. 12 /\ 12 \in Months /\ 1 \in Months /\ y + 1 \in Int
  BY SMT DEF Months
<1>2. days_before(y) \in Int
  BY SMT DEF days_before
<1>3. CASE m = 12
  <2>1. days_before(y + 1) = days_before(y) + DaysInYear(y)
    BY YearLength, SMT
  <2>2. days_before_month(y, 12) + 31 = DaysInYear(y) /\ days_in_month(y, 12) = 31
    BY <1>1, MonthLength, SMT
  <2>3. days_before_month(y, 12) \in Int
    <3>1. days_before_month(y, m) \in Int
      BY MonthLength, SMT
    <3> QED BY <1>3, <3>1, SMT
  <2>4. days_before_month(y + 1, 1) = 0
    BY <1>1, MonthLength, SMT
  <2>5. Before1(y + 1, 1) = Before1(y, 12) + days_in_month(y, 12)
    BY <1>2, <2>1, <2>2, <2>3, <2>4, SMT DEF Before1
  <2> QED BY <1>3, <2>5, SMT
<1>4. CASE m < 12
  <2>1. days_before_month(y, m + 1) = days_before_month(y, m) + days_in_month(y, m)
    BY <1>4, MonthLength, SMT
  <2>2. days_before_month(y, m) \in Int /\ days_in_month(y, m) \in Int
    BY MonthLength, SMT
  <2>3. Before1(y, m + 1) = Before1(y, m) + days_in_month(y, m)
    BY <1>2, <2>1, <2>2, SMT DEF Before1
  <2> QED BY <1>1, <1>4, <2>3, SMT
<1> QED BY <1>1, <1>3, <1>4, SMT

\* Shifting by months to a date and then by the days that are missing
LEMMA ShiftDateTo ==
    ASSUME NEW o, IsDate(o), NEW s, IsDate(s), NEW n, NEW e, e = shift_months(o, n), IsDate(e),
           NEW k \in Int, unix_days(e) + k = unix_days(s)
    PROVE  ShiftDate(o, n, k) = s
<1>1. ShiftDate(o, n, k) = shift_days(e, k)
  BY NoneIsNoDate, SMT DEF ShiftDate, OrNoDate
<1>2. unix_days(e) + k \in UnixDays
  BY UnixDaysInRange, SMT
<1>3. IsDate(shift_days(e, k)) /\ unix_days(shift_days(e, k)) = unix_days(s)
  BY <1>2, ShiftDaysAdds, SMT
<1> QED BY <1>1, <1>3, SameNumberSameDate, SMT

-----------------------------------------------------------------------------
(***************************************************************************)
(* Dates on the way: the day may be one that the month does not have, until *)
(* InterimResolve cuts it.                                                 *)
(***************************************************************************)
IsInterim(i) == i \in [year : Years, month : Months, day : 1 .. 31]
Number(i) == unix_days(InterimResolve(i))
MonthIndex(d) == 12 * d.year + d.month - 1

\* The fields of a date on the way.
LEMMA InterimParts ==
    ASSUME NEW i, IsInterim(i)
    PROVE  /\ i = Date(i.year, i.month, i.day)
           /\ i.year \in Years /\ i.year \in Int /\ 1 <= i.year /\ i.year <= 9999
           /\ i.month \in Months /\ i.month \in Int /\ 1 <= i.month /\ i.month <= 12
           /\ i.day \in 1 .. 31 /\ MonthIndex(i) \in Int
<1>1. i = Date(i.year, i.month, i.day) /\ i.year \in Years /\ i.month \in Months /\ i.day \in 1 .. 31
  BY SMT DEF IsInterim, Date
<1>2. i.year \in Int /\ 1 <= i.year /\ i.year <= 9999
  BY <1>1, YearsRange, SMT
<1>3. i.month \in Int /\ 1 <= i.month /\ i.month <= 12
  BY <1>1, SMT DEF Months
<1> QED BY <1>1, <1>2, <1>3, SMT DEF MonthIndex

\* A date is a date on the way that needs no cutting.
LEMMA DateIsInterim ==
    ASSUME NEW d, IsDate(d)
    PROVE  IsInterim(d) /\ InterimResolve(d) = d /\ Number(d) = unix_days(d)
<1>1. IsInterim(d)
  BY SMT DEF IsInterim, IsDate
<1>2. d = Date(d.year, d.month, d.day) /\ d.day <= days_in_month(d.year, d.month)
  BY PartsOfDate, SMT
<1>3. InterimResolve(d) = d
  BY <1>2, SMT DEF InterimResolve, new_clamp_days
<1> QED BY <1>1, <1>3, SMT DEF Number

\* Date::new_clamp_days returns a date of the month asked for.
LEMMA ClampIsDate ==
    ASSUME NEW y \in Years, NEW m \in Months, NEW k \in 1 .. 31
    PROVE  /\ IsDate(new_clamp_days(y, m, k))
           /\ new_clamp_days(y, m, k).year = y /\ new_clamp_days(y, m, k).month = m
<1> DEFINE x == days_in_month(y, m)
           l == IF k <= x THEN k ELSE x
<1>1. y \in Int
  BY YearsRange, SMT
<1>2. x \in 28 .. 31
  BY <1>1, MonthLength, SMT
<1>3. l \in 1 .. 31 /\ l <= x
  <2> HIDE DEF x
  <2> QED BY <1>2, SMT
<1>4. new_clamp_days(y, m, k) = Date(y, m, l)
  BY SMT DEF new_clamp_days
<1> HIDE DEF l
<1>5. IsDate(Date(y, m, l))
  BY <1>3, MakesDate, SMT
<1> QED BY <1>4, <1>5, DateFields, SMT

\* InterimDate::resolve returns a date of the same month.
LEMMA ResolveIsDate ==
    ASSUME NEW i, IsInterim(i)
    PROVE  /\ IsDate(InterimResolve(i))
           /\ InterimResolve(i).year = i.year /\ InterimResolve(i).month = i.month
           /\ MonthIndex(InterimResolve(i)) = MonthIndex(i)
           /\ Number(i) \in Int
<1>1. /\ IsDate(InterimResolve(i))
      /\ InterimResolve(i).year = i.year /\ InterimResolve(i).month = i.month
  BY InterimParts, ClampIsDate, SMT DEF InterimResolve
<1>2. Number(i) \in Int
  BY <1>1, UnixDaysType, SMT DEF Number
<1> QED BY <1>1, <1>2, SMT DEF MonthIndex

\* A later month has later dates.
LEMMA LaterMonth ==
    ASSUME NEW d, IsDate(d), NEW e, IsDate(e), MonthIndex(d) < MonthIndex(e)
    PROVE  unix_days(d) < unix_days(e)
<1>1. /\ d.year \in Int /\ d.month \in 1 .. 12 /\ e.year \in Int /\ e.month \in 1 .. 12
  BY PartsOfDate, SMT
<1>2. DateLess(d, e)
  BY <1>1, SMT DEF MonthIndex, DateLess
<1> QED BY <1>2, LessIsBefore, SMT

\* A later year has later dates.
LEMMA LaterYear ==
    ASSUME NEW d, IsDate(d), NEW e, IsDate(e), d.year < e.year
    PROVE  unix_days(d) < unix_days(e)
<1>1. DateLess(d, e)
  BY SMT DEF DateLess
<1> QED BY <1>1, LessIsBefore, SMT

\* Month::shift leads to the month that many months on.
LEMMA MonthShiftCounts ==
    ASSUME NEW y \in Int, NEW m \in Int, NEW n \in Int
    PROVE  \E z \in Int, k \in 1 .. 12 : MonthShift(y, m, n) = <<z, k>> /\ 12 * z + k = 12 * y + m + n
<1> DEFINE a == m + n - 1
           b == a \div 12
           c == a % 12
<1>1. MonthShift(y, m, n) = <<y + b, c + 1>>
  BY SMT DEF MonthShift
<1>2. a \in Int
  BY SMT
<1>3. a = 12 * b + c /\ b \in Int /\ c \in 0 .. 11
  <2> HIDE DEF a
  <2> QED BY <1>2, SMT
<1> HIDE DEF b, c
<1>4. y + b \in Int /\ c + 1 \in 1 .. 12 /\ 12 * (y + b) + (c + 1) = 12 * y + m + n
  BY <1>3, SMT
<1> QED BY <1>1, <1>4

\* InterimDate::shift_months leads to a date of the month that many months on.
LEMMA ShiftMonthsTo ==
    ASSUME NEW i, IsInterim(i), NEW n \in Int, shift_months(i, n) # NoDate
    PROVE  /\ IsDate(shift_months(i, n)) /\ IsInterim(shift_months(i, n))
           /\ Number(shift_months(i, n)) = unix_days(shift_months(i, n))
           /\ MonthIndex(shift_months(i, n)) = MonthIndex(i) + n
<1> DEFINE e == shift_months(i, n)
<1>1. i.year \in Int /\ i.month \in Int /\ i.day \in 1 .. 31
  BY InterimParts, SMT
<1>2. PICK y \in Int, m \in 1 .. 12 :
        MonthShift(i.year, i.month, n) = <<y, m>> /\ 12 * y + m = 12 * i.year + i.month + n
  BY <1>1, MonthShiftCounts
<1>3. e = IF y \in Years THEN new_clamp_days(y, m, i.day) ELSE NoDate
  BY <1>2, SMT DEF shift_months
<1>4. y \in Years /\ e = new_clamp_days(y, m, i.day) /\ m \in Months
  BY <1>3, SMT DEF Months
<1>5. IsDate(e) /\ e.year = y /\ e.month = m
  BY <1>1, <1>4, ClampIsDate, SMT
<1>6. MonthIndex(e) = MonthIndex(i) + n
  <2> HIDE DEF e
  <2> QED BY <1>1, <1>2, <1>5, SMT DEF MonthIndex
<1> HIDE DEF e
<1>7. IsInterim(e) /\ Number(e) = unix_days(e)
  BY <1>5, DateIsInterim, SMT
<1> QED BY <1>5, <1>6, <1>7, SMT DEF e

\* Month::shift depends only on the number of months since year 0.
LEMMA CountedMonth ==
    ASSUME NEW y \in Int, NEW m \in Int, NEW n \in Int
    PROVE  MonthShift(y, m, n) = MonthShift(0, 0, 12 * y + m + n)
<1> DEFINE a == m + n - 1
           b == 0 + (12 * y + m + n) - 1
           c == y + a \div 12
           r == a % 12
<1>1. a \in Int /\ b \in Int /\ b = 12 * y + a
  BY SMT
<1>2. a = 12 * (a \div 12) + r /\ a \div 12 \in Int /\ r \in Nat /\ r < 12
  <2> HIDE DEF a
  <2> QED BY <1>1, SMT
<1>3. b = 12 * c + r /\ c \in Int
  <2> HIDE DEF a, b, r
  <2> QED BY <1>1, <1>2, SMT
<1>4. b \div 12 = c /\ b % 12 = r
  <2> HIDE DEF a, b, c, r
  <2> QED BY <1>1, <1>2, <1>3, DivUnique, SMT
<1>5. 0 + b \div 12 = c
  <2> HIDE DEF b, c
  <2> QED BY <1>3, <1>4, SMT
<1>6. MonthShift(y, m, n) = <<c, r + 1>> /\ MonthShift(0, 0, 12 * y + m + n) = <<0 + b \div 12, (b % 12) + 1>>
  BY SMT DEF MonthShift
<1> HIDE DEF a, b, c, r
<1> QED BY <1>4, <1>5, <1>6, SMT

\* InterimDate::shift_months depends only on the month it leads to and the day.
LEMMA SameShift ==
    ASSUME NEW i, IsInterim(i), NEW j, IsInterim(j), i.day = j.day,
           NEW n \in Int, NEW k \in Int, MonthIndex(i) + n = MonthIndex(j) + k
    PROVE  shift_months(i, n) = shift_months(j, k)
<1> DEFINE iy == i.year
           im == i.month
           jy == j.year
           jm == j.month
           t == 12 * iy + im + n
           u == 12 * jy + jm + k
<1>1. iy \in Int /\ im \in Int /\ jy \in Int /\ jm \in Int
  BY InterimParts, SMT
<1>2. t = u
  BY <1>1, SMT DEF MonthIndex
<1>3. MonthShift(iy, im, n) = MonthShift(0, 0, t)
  <2> HIDE DEF iy, im
  <2> QED BY <1>1, CountedMonth, ZenonT(40)
<1>4. MonthShift(jy, jm, k) = MonthShift(0, 0, u)
  <2> HIDE DEF jy, jm
  <2> QED BY <1>1, CountedMonth, ZenonT(40)
<1>5. MonthShift(iy, im, n) = MonthShift(jy, jm, k)
  <2> HIDE DEF t, u
  <2> QED BY <1>2, <1>3, <1>4
<1> QED BY <1>5, SMT DEF shift_months

\* Shifting by no months cuts the day.
LEMMA ResolveIsShift ==
    ASSUME NEW i, IsInterim(i)
    PROVE  shift_months(i, 0) = InterimResolve(i)
<1> DEFINE iy == i.year
           im == i.month
<1>1. iy \in Int /\ im \in Int /\ 1 <= im /\ im <= 12 /\ iy \in Years /\ 0 \in Int
  BY InterimParts, SMT
<1>2. MonthShift(iy, im, 0) = <<iy, im>>
  <2> HIDE DEF iy, im
  <2>1. \E y \in Int, m \in 1 .. 12 : MonthShift(iy, im, 0) = <<y, m>> /\ 12 * y + m = 12 * iy + im + 0
    BY <1>1, MonthShiftCounts, Zenon
  <2>2. PICK y \in Int, m \in 1 .. 12 : MonthShift(iy, im, 0) = <<y, m>> /\ 12 * y + m = 12 * iy + im + 0
    BY <2>1
  <2>3. y = iy /\ m = im
    BY <1>1, <2>2, SMT
  <2> QED BY <2>2, <2>3
<1> QED BY <1>1, <1>2, SMT DEF shift_months, InterimResolve

\* CalendarIncrement::truncate: the nearest multiple towards zero.
LEMMA Truncates ==
    ASSUME NEW inc \in Nat \ {0}, NEW v \in Int
    PROVE  /\ truncate(inc, v) \in Int
           /\ v >= 0 => 0 <= truncate(inc, v) /\ truncate(inc, v) <= v /\ v < truncate(inc, v) + inc
           /\ v <= 0 => v <= truncate(inc, v) /\ truncate(inc, v) <= 0 /\ truncate(inc, v) - inc < v
           /\ \E q \in Int : truncate(inc, v) = inc * q
           /\ inc = 1 => truncate(inc, v) = v
<1>1. v % inc \in Nat /\ v % inc < inc /\ v \div inc \in Int /\ v = inc * (v \div inc) + (v % inc)
  BY DivSplit, SMT
<1> DEFINE w == -v
<1>2. w \in Int
  BY SMT
<1> HIDE DEF w
<1>3. w % inc \in Nat /\ w % inc < inc /\ w \div inc \in Int /\ w = inc * (w \div inc) + (w % inc)
  BY <1>2, DivSplit, SMT
<1>4. truncate(inc, v) = IF v >= 0 THEN v - (v % inc) ELSE -(w - (w % inc))
  BY SMT DEF truncate, w
<1>5. v + w = 0
  BY SMT DEF w
<1>6. CASE v >= 0
  <2> DEFINE r == v % inc
             q == v \div inc
  <2>1. truncate(inc, v) = v - r /\ r \in Nat /\ r < inc /\ q \in Int /\ v = inc * q + r
    BY <1>1, <1>4, <1>6, SMT
  <2> HIDE DEF r, q
  <2>2. truncate(inc, v) = inc * q
    <3> DEFINE x == inc * q
    <3>1. x \in Int /\ v = x + r
      BY <2>1, SMT
    <3> HIDE DEF x
    <3>2. truncate(inc, v) = x
      BY <2>1, <3>1, SMT
    <3> QED BY <3>2, SMT DEF x
  <2>3. inc = 1 => r = 0
    BY <2>1, SMT
  <2>4. v = 0 => r = 0
    <3>1. 0 % inc = 0
      BY SMT
    <3> QED BY <3>1, SMT DEF r
  <2>5. \E t \in Int : truncate(inc, v) = inc * t
    BY <2>1, <2>2
  <2> QED BY <1>6, <2>1, <2>3, <2>4, <2>5, SMT
<1>7. CASE v < 0
  <2> DEFINE r == w % inc
             q == w \div inc
  <2>1. truncate(inc, v) = -(w - r) /\ r \in Nat /\ r < inc /\ q \in Int /\ w = inc * q + r
    BY <1>3, <1>4, <1>7, SMT
  <2> HIDE DEF r, q
  <2>2. truncate(inc, v) = inc * (-q)
    BY <1>2, <2>1, SMT
  <2>3. inc = 1 => r = 0
    BY <2>1, SMT
  <2>4. r <= w
    <3>1. q >= 0
      BY <1>2, <1>5, <1>7, <2>1, SMT
    <3>2. inc * q >= 0
      BY <2>1, <3>1, SMT
    <3> QED BY <2>1, <3>2, SMT
  <2>5. \E t \in Int : truncate(inc, v) = inc * t
    <3>1. -q \in Int
      BY <2>1, SMT
    <3> QED BY <2>2, <3>1
  <2> QED BY <1>2, <1>5, <1>7, <2>1, <2>3, <2>4, <2>5, SMT
<1> QED BY <1>6, <1>7, SMT

-----------------------------------------------------------------------------
\* A date on the way has not passed its target, and the two neighbours of a
\* unit have it between them.
Reaches(i, a, neg) ==
    IsInterim(i) /\ IF neg THEN unix_days(a) <= Number(i) ELSE Number(i) <= unix_days(a)
Lands(d, a, neg) ==
    /\ IsInterim(d.trunc) /\ IsInterim(d.expand)
    /\ IF neg THEN Number(d.expand) < unix_days(a) /\ unix_days(a) <= Number(d.trunc)
       ELSE Number(d.trunc) <= unix_days(a) /\ unix_days(a) < Number(d.expand)
Multiple(v, inc) == \E q \in Int : v = inc * q
Forward(v, neg) == v \in Int /\ IF neg THEN v <= 0 ELSE v >= 0

\* The same day of another year lies on the side of the target that its year does.
LEMMA YearsAt ==
    ASSUME NEW i, IsInterim(i), NEW a, IsDate(a), NEW n \in Int, InterimYears(i, n) # NoDate
    PROVE  /\ IsInterim(InterimYears(i, n)) /\ InterimYears(i, n) = Date(i.year + n, i.month, i.day)
           /\ MonthIndex(InterimYears(i, n)) = MonthIndex(i) + 12 * n
           /\ n < a.year - i.year => Number(InterimYears(i, n)) < unix_days(a)
           /\ n > a.year - i.year => Number(InterimYears(i, n)) > unix_days(a)
           /\ n = 0 => Number(InterimYears(i, n)) = Number(i)
<1> DEFINE e == InterimYears(i, n)
           r == InterimResolve(e)
<1>1. /\ i = Date(i.year, i.month, i.day) /\ i.year \in Int /\ i.month \in Months /\ i.day \in 1 .. 31
      /\ i.month \in Int
  BY InterimParts, SMT
<1>2. i.year + n \in Years /\ e = [i EXCEPT !.year = @ + n]
  BY SMT DEF InterimYears
<1>3. e = Date(i.year + n, i.month, i.day)
  BY <1>1, <1>2, SMT DEF Date
<1>4. e.year = i.year + n /\ e.month = i.month /\ e.day = i.day
  BY <1>3, SMT DEF Date
<1>5. IsInterim(e)
  BY <1>1, <1>2, <1>3, SMT DEF IsInterim, Date
<1>6. MonthIndex(e) = MonthIndex(i) + 12 * n
  BY <1>1, <1>4, SMT DEF MonthIndex
<1>7. n = 0 => e = i
  BY <1>1, <1>3, SMT
<1> HIDE DEF e
<1>8. IsDate(r) /\ r.year = i.year + n /\ Number(e) = unix_days(r)
  BY <1>4, <1>5, ResolveIsDate, SMT DEF Number
<1>9. a.year \in Int
  BY PartsOfDate, SMT
<1> HIDE DEF r
<1>10. n < a.year - i.year => Number(e) < unix_days(a)
  <2>1. n < a.year - i.year => r.year < a.year
    BY <1>1, <1>8, <1>9, SMT
  <2> QED BY <1>8, <2>1, LaterYear, SMT
<1>11. n > a.year - i.year => Number(e) > unix_days(a)
  <2>1. n > a.year - i.year => a.year < r.year
    BY <1>1, <1>8, <1>9, SMT
  <2>2. unix_days(a) \in Int /\ unix_days(r) \in Int
    BY <1>8, UnixDaysType, SMT
  <2> QED BY <1>8, <2>1, <2>2, LaterYear, SMT
<1> QED BY <1>3, <1>5, <1>6, <1>7, <1>10, <1>11, SMT DEF e

\* So does a date so many months on.
LEMMA MonthsAt ==
    ASSUME NEW i, IsInterim(i), NEW a, IsDate(a), NEW n \in Int, InterimMonths(i, n) # NoDate
    PROVE  /\ InterimMonths(i, n) = shift_months(i, n) /\ IsDate(shift_months(i, n))
           /\ IsInterim(InterimMonths(i, n)) /\ Number(InterimMonths(i, n)) = unix_days(shift_months(i, n))
           /\ n < MonthIndex(a) - MonthIndex(i) => Number(InterimMonths(i, n)) < unix_days(a)
           /\ n > MonthIndex(a) - MonthIndex(i) => Number(InterimMonths(i, n)) > unix_days(a)
           /\ n = 0 => Number(InterimMonths(i, n)) = Number(i)
<1> DEFINE e == shift_months(i, n)
           ei == MonthIndex(e)
           ii == MonthIndex(i)
           ai == MonthIndex(a)
<1>1. InterimMonths(i, n) = e /\ e # NoDate
  BY SMT DEF InterimMonths
<1>2. IsDate(e) /\ IsInterim(e) /\ Number(e) = unix_days(e) /\ ei = ii + n
  BY <1>1, ShiftMonthsTo, SMT
<1>3. ii \in Int /\ ai \in Int
  BY InterimParts, DateIsInterim, SMT
<1>4. n = 0 => Number(e) = Number(i)
  <2>1. n = 0 => e = InterimResolve(i)
    BY ResolveIsShift, SMT
  <2> QED BY <1>2, <2>1, SMT DEF Number
<1>5. ei < ai => unix_days(e) < unix_days(a)
  BY <1>2, LaterMonth, SMT
<1>6. ai < ei => unix_days(a) < unix_days(e)
  BY <1>2, LaterMonth, SMT
<1>7. unix_days(a) \in Int /\ unix_days(e) \in Int
  BY <1>2, UnixDaysType, SMT
<1> HIDE DEF e, ei, ii, ai
<1>8. n < ai - ii => Number(e) < unix_days(a)
  BY <1>2, <1>3, <1>5, <1>7, SMT
<1>9. n > ai - ii => Number(e) > unix_days(a)
  BY <1>2, <1>3, <1>6, <1>7, SMT
<1> QED BY <1>1, <1>2, <1>4, <1>8, <1>9, SMT DEF e, ii, ai

\* An increment is not lost when a step goes back: what is truncated is zero or
\* at least one increment away from it.
LEMMA StepsBack ==
    ASSUME NEW inc \in Nat \ {0}, NEW D \in Int, NEW neg \in BOOLEAN, Forward(D, neg), NEW back \in BOOLEAN,
           NEW v, v = truncate(inc, D), NEW st, st = Step(inc, neg), NEW w, w = (IF back THEN v - st ELSE v),
           back => v = D /\ D # 0
    PROVE  /\ v \in Int /\ w \in Int /\ st \in Int /\ w + st \in Int /\ Forward(w, neg)
           /\ back => w + st = v /\ IF neg THEN w > D ELSE w < D
           /\ ~back => w = v /\ IF neg THEN w + st < D ELSE w + st > D
<1>1. /\ v \in Int
      /\ D >= 0 => 0 <= v /\ v <= D /\ D < v + inc
      /\ D <= 0 => D <= v /\ v <= 0 /\ v - inc < D
  BY Truncates, Zenon
<1>2. \E q \in Int : v = inc * q
  BY Truncates, Zenon
<1>3. PICK q \in Int : v = inc * q
  BY <1>2
<1>4. st = (IF neg THEN -inc ELSE inc) /\ st \in Int
  BY SMT DEF Step
<1>5. IF neg THEN D <= 0 ELSE D >= 0
  BY SMT DEF Forward
<1>6. back => v = D /\ D # 0
  OBVIOUS
<1>7. CASE back /\ neg
  <2>1. w = v + inc
    BY <1>1, <1>4, <1>7, SMT
  <2>2. w = inc * (q + 1) /\ q + 1 \in Int
    BY <1>3, <2>1, SMT
  <2>4. q + 1 <= 0
    <3>1. q < 0
      BY <1>3, <1>5, <1>6, <1>7, SMT
    <3> QED BY <3>1, SMT
  <2>5. w <= 0
    BY <2>2, <2>4, SMT
  <2> QED BY <1>1, <1>4, <1>6, <1>7, <2>1, <2>5, SMT DEF Forward
<1>8. CASE back /\ ~neg
  <2>1. w = v - inc
    BY <1>1, <1>4, <1>8, SMT
  <2>2. w = inc * (q - 1) /\ q - 1 \in Int
    BY <1>3, <2>1, SMT
  <2>4. q - 1 >= 0
    <3>1. q > 0
      BY <1>3, <1>5, <1>6, <1>8, SMT
    <3> QED BY <3>1, SMT
  <2>5. w >= 0
    BY <2>2, <2>4, SMT
  <2> QED BY <1>1, <1>4, <1>6, <1>8, <2>1, <2>5, SMT DEF Forward
<1>9. CASE ~back
  <2>1. w = v
    BY <1>9
  <2> QED BY <1>1, <1>4, <1>5, <1>9, <2>1, SMT DEF Forward
<1> QED BY <1>7, <1>8, <1>9

\* A date that has not passed the target is on the same side by year and by month.
LEMMA ReachesSide ==
    ASSUME NEW i, NEW a, IsDate(a), NEW neg \in BOOLEAN, Reaches(i, a, neg)
    PROVE  /\ IsInterim(i) /\ Forward(a.year - i.year, neg) /\ Forward(MonthIndex(a) - MonthIndex(i), neg)
           /\ Forward(unix_days(a) - Number(i), neg)
<1> DEFINE r == InterimResolve(i)
           ay == a.year
           iy == i.year
           ai == MonthIndex(a)
           ii == MonthIndex(i)
           ua == unix_days(a)
           ur == unix_days(r)
<1>1. IsInterim(i) /\ IF neg THEN ua <= Number(i) ELSE Number(i) <= ua
  BY SMT DEF Reaches
<1>2. IsDate(r) /\ r.year = iy /\ MonthIndex(r) = ii /\ Number(i) \in Int /\ Number(i) = ur
  BY <1>1, ResolveIsDate, SMT DEF Number
<1>3. ay \in Int /\ iy \in Int /\ ai \in Int /\ ii \in Int /\ ua \in Int
  BY <1>1, DateIsInterim, InterimParts, UnixDaysType, SMT
<1>4. (ay < iy => ua < ur) /\ (iy < ay => ur < ua)
  BY <1>2, LaterYear, SMT
<1>5. (ai < ii => ua < ur) /\ (ii < ai => ur < ua)
  BY <1>2, LaterMonth, SMT
<1> HIDE DEF ay, iy, ai, ii, ua, ur
<1>6. Forward(ay - iy, neg) /\ Forward(ai - ii, neg) /\ Forward(ua - Number(i), neg)
  BY <1>1, <1>2, <1>3, <1>4, <1>5, SMT DEF Forward
<1> QED BY <1>1, <1>6, SMT DEF ay, iy, ai, ii, ua

\* Overshot compares the numbers.
LEMMA OvershotIsPast ==
    ASSUME NEW a, IsDate(a), NEW v \in Int, NEW e, IsInterim(e)
    PROVE  Overshot(a, v, e) <=> (v > 0 /\ unix_days(a) < Number(e)) \/ (v < 0 /\ Number(e) < unix_days(a))
<1>1. IsDate(InterimResolve(e))
  BY ResolveIsDate, SMT
<1>2. /\ DateLess(a, InterimResolve(e)) <=> unix_days(a) < Number(e)
      /\ DateLess(InterimResolve(e), a) <=> Number(e) < unix_days(a)
  BY <1>1, DateOrder, SMT DEF Number
<1> QED BY <1>2, SMT DEF Overshot

\* What InterimDate::years_diff returns: a number of whole increments towards the
\* target, with the target between the date it leads to and the next one.
LEMMA YearsLand ==
    ASSUME NEW i, NEW a, IsDate(a), NEW neg \in BOOLEAN, Reaches(i, a, neg), NEW inc \in Nat \ {0},
           NEW d, d = years_diff(a, i, inc, neg), d.ok
    PROVE  /\ Forward(d.value, neg) /\ Lands(d, a, neg) /\ Reaches(d.trunc, a, neg)
           /\ Multiple(d.value, inc)
           /\ d.trunc = InterimYears(i, d.value) /\ d.trunc # NoDate
           /\ d.expand = InterimYears(i, d.value + Step(inc, neg)) /\ d.expand # NoDate
<1> DEFINE D == a.year - i.year
           v == truncate(inc, D)
           st == Step(inc, neg)
           e == InterimYears(i, v)
           back == Overshot(a, v, e)
           w == IF back THEN v - st ELSE v
           t == InterimYears(i, w)
           x == InterimYears(i, w + st)
           ua == unix_days(a)
<1>1. IsInterim(i) /\ Forward(D, neg) /\ D \in Int
  <2>1. IsInterim(i) /\ Forward(D, neg)
    BY ReachesSide, Zenon
  <2> QED BY <2>1 DEF Forward
<1>2. e # NoDate /\ t # NoDate /\ x # NoDate /\ d.value = w /\ d.trunc = t /\ d.expand = x
  <2>1. d = IF e = NoDate THEN NoDiff ELSE Between(w, t, x)
    BY SMT DEF years_diff, Towards, Around
  <2> HIDE DEF e, t, x, w
  <2> QED BY <2>1, SMT DEF Between, Diff, NoDiff
<1> HIDE DEF D
<1>3. v \in Int /\ (IF neg THEN v <= 0 /\ D <= v ELSE v >= 0 /\ v <= D)
  <2>1. /\ v \in Int
        /\ D >= 0 => 0 <= v /\ v <= D
        /\ D <= 0 => D <= v /\ v <= 0
    BY <1>1, Truncates, Zenon
  <2> HIDE DEF v
  <2> QED BY <1>1, <2>1, SMT DEF Forward
<1> HIDE DEF v
<1>4. /\ IsInterim(e) /\ Number(e) \in Int
      /\ v < D => Number(e) < ua
      /\ v > D => Number(e) > ua
      /\ v = 0 => Number(e) = Number(i)
  BY <1>1, <1>2, <1>3, YearsAt, ResolveIsDate, SMT DEF D
<1>5. ua \in Int /\ Number(i) \in Int /\ IF neg THEN ua <= Number(i) ELSE Number(i) <= ua
  BY <1>1, UnixDaysType, ResolveIsDate, SMT DEF Reaches
<1> HIDE DEF e
<1>6. back <=> (v > 0 /\ ua < Number(e)) \/ (v < 0 /\ Number(e) < ua)
  BY <1>3, <1>4, OvershotIsPast, SMT
<1>7. back \in BOOLEAN /\ (back => v = D /\ D # 0)
  <2>1. back \in BOOLEAN
    BY SMT DEF Overshot
  <2> HIDE DEF back, ua
  <2> QED BY <1>1, <1>3, <1>4, <1>5, <1>6, <2>1, SMT DEF Forward
<1> HIDE DEF back
<1> HIDE DEF st
<1>8. /\ w \in Int /\ st \in Int /\ w + st \in Int /\ Forward(w, neg)
      /\ back => w + st = v /\ IF neg THEN w > D ELSE w < D
      /\ ~back => w = v /\ IF neg THEN w + st < D ELSE w + st > D
  BY <1>1, <1>7, StepsBack, SMT DEF v, st
<1>9. \E q \in Int : w = inc * q
  <2>1. \E q \in Int : v = inc * q
    BY <1>1, Truncates, Zenon DEF v
  <2>2. PICK q \in Int : v = inc * q
    BY <2>1
  <2>3. q - 1 \in Int /\ q + 1 \in Int /\ (w = inc * q \/ w = inc * (q - 1) \/ w = inc * (q + 1))
    BY <2>2, SMT DEF st, Step
  <2> HIDE DEF w
  <2> QED BY <2>3
<1>10. back => x = e
  BY <1>8, SMT DEF e
<1>11. ~back => t = e
  BY <1>8, SMT DEF e
<1> HIDE DEF w
<1>12. /\ IsInterim(t) /\ Number(t) \in Int
       /\ w < D => Number(t) < ua
       /\ w > D => Number(t) > ua
  BY <1>1, <1>2, <1>8, YearsAt, ResolveIsDate, SMT DEF D
<1> DEFINE w1 == w + st
<1>13. /\ IsInterim(x) /\ Number(x) \in Int
       /\ w1 < D => Number(x) < ua
       /\ w1 > D => Number(x) > ua
  <2> HIDE DEF w1
  <2>1. w1 \in Int /\ x = InterimYears(i, w1)
    BY <1>8, SMT DEF w1
  <2> QED BY <1>1, <1>2, <2>1, YearsAt, ResolveIsDate, SMT DEF D
<1> HIDE DEF t, x, ua
<1>14. IF neg THEN Number(x) < ua /\ ua <= Number(t) ELSE Number(t) <= ua /\ ua < Number(x)
  <2>1. CASE back
    BY <1>1, <1>3, <1>4, <1>5, <1>6, <1>8, <1>10, <1>12, <1>13, <2>1, SMT DEF Forward
  <2>2. CASE ~back
    BY <1>1, <1>3, <1>4, <1>5, <1>6, <1>8, <1>11, <1>12, <1>13, <2>2, SMT DEF Forward
  <2> QED BY <2>1, <2>2
<1>15. Lands(d, a, neg) /\ Reaches(d.trunc, a, neg)
  BY <1>2, <1>12, <1>13, <1>14, SMT DEF Lands, Reaches, ua
<1>16. d.trunc = InterimYears(i, d.value) /\ d.expand = InterimYears(i, d.value + Step(inc, neg))
  BY <1>2, SMT DEF t, x, st
<1>17. Multiple(d.value, inc)
  BY <1>2, <1>9 DEF Multiple
<1> QED BY <1>2, <1>8, <1>15, <1>16, <1>17

\* InterimDate::months_diff, likewise.
LEMMA MonthsLand ==
    ASSUME NEW i, NEW a, IsDate(a), NEW neg \in BOOLEAN, Reaches(i, a, neg), NEW inc \in Nat \ {0},
           NEW d, d = months_diff(a, i, inc, neg), d.ok
    PROVE  /\ Forward(d.value, neg) /\ Lands(d, a, neg) /\ Reaches(d.trunc, a, neg)
           /\ Multiple(d.value, inc)
           /\ d.trunc = InterimMonths(i, d.value) /\ d.trunc # NoDate
           /\ d.expand = InterimMonths(i, d.value + Step(inc, neg)) /\ d.expand # NoDate
<1> DEFINE D == MonthIndex(a) - MonthIndex(i)
           v == truncate(inc, D)
           st == Step(inc, neg)
           e == InterimMonths(i, v)
           back == Overshot(a, v, e)
           w == IF back THEN v - st ELSE v
           t == InterimMonths(i, w)
           x == InterimMonths(i, w + st)
           ua == unix_days(a)
<1>1. IsInterim(i) /\ Forward(D, neg) /\ D \in Int
  <2>1. IsInterim(i) /\ Forward(D, neg)
    BY ReachesSide, Zenon
  <2> QED BY <2>1 DEF Forward
<1>2. e # NoDate /\ t # NoDate /\ x # NoDate /\ d.value = w /\ d.trunc = t /\ d.expand = x
  <2>0. (a.year - i.year) * 12 + a.month - i.month = D
    <3>1. a.year \in Int /\ a.month \in Int /\ i.year \in Int /\ i.month \in Int
      BY <1>1, DateIsInterim, InterimParts, SMT
    <3> QED BY <3>1, SMT DEF MonthIndex
  <2> HIDE DEF D
  <2>1. d = IF e = NoDate THEN NoDiff ELSE Between(w, t, x)
    BY <2>0, SMT DEF months_diff, Towards, Around
  <2> HIDE DEF e, t, x, w
  <2> QED BY <2>1, SMT DEF Between, Diff, NoDiff
<1> HIDE DEF D
<1>3. v \in Int /\ (IF neg THEN v <= 0 /\ D <= v ELSE v >= 0 /\ v <= D)
  <2>1. /\ v \in Int
        /\ D >= 0 => 0 <= v /\ v <= D
        /\ D <= 0 => D <= v /\ v <= 0
    BY <1>1, Truncates, Zenon
  <2> HIDE DEF v
  <2> QED BY <1>1, <2>1, SMT DEF Forward
<1> HIDE DEF v
<1>4. /\ IsInterim(e) /\ Number(e) \in Int
      /\ v < D => Number(e) < ua
      /\ v > D => Number(e) > ua
      /\ v = 0 => Number(e) = Number(i)
  BY <1>1, <1>2, <1>3, MonthsAt, ResolveIsDate, SMT DEF D
<1>5. ua \in Int /\ Number(i) \in Int /\ IF neg THEN ua <= Number(i) ELSE Number(i) <= ua
  BY <1>1, UnixDaysType, ResolveIsDate, SMT DEF Reaches
<1> HIDE DEF e
<1>6. back <=> (v > 0 /\ ua < Number(e)) \/ (v < 0 /\ Number(e) < ua)
  BY <1>3, <1>4, OvershotIsPast, SMT
<1>7. back \in BOOLEAN /\ (back => v = D /\ D # 0)
  <2>1. back \in BOOLEAN
    BY SMT DEF Overshot
  <2> HIDE DEF back, ua
  <2> QED BY <1>1, <1>3, <1>4, <1>5, <1>6, <2>1, SMT DEF Forward
<1> HIDE DEF back
<1> HIDE DEF st
<1>8. /\ w \in Int /\ st \in Int /\ w + st \in Int /\ Forward(w, neg)
      /\ back => w + st = v /\ IF neg THEN w > D ELSE w < D
      /\ ~back => w = v /\ IF neg THEN w + st < D ELSE w + st > D
  BY <1>1, <1>7, StepsBack, SMT DEF v, st
<1>9. \E q \in Int : w = inc * q
  <2>1. \E q \in Int : v = inc * q
    BY <1>1, Truncates, Zenon DEF v
  <2>2. PICK q \in Int : v = inc * q
    BY <2>1
  <2>3. q - 1 \in Int /\ q + 1 \in Int /\ (w = inc * q \/ w = inc * (q - 1) \/ w = inc * (q + 1))
    BY <2>2, SMT DEF st, Step
  <2> HIDE DEF w
  <2> QED BY <2>3
<1>10. back => x = e
  BY <1>8, SMT DEF e
<1>11. ~back => t = e
  BY <1>8, SMT DEF e
<1> HIDE DEF w
<1>12. /\ IsInterim(t) /\ Number(t) \in Int
       /\ w < D => Number(t) < ua
       /\ w > D => Number(t) > ua
  BY <1>1, <1>2, <1>8, MonthsAt, ResolveIsDate, SMT DEF D
<1> DEFINE w1 == w + st
<1>13. /\ IsInterim(x) /\ Number(x) \in Int
       /\ w1 < D => Number(x) < ua
       /\ w1 > D => Number(x) > ua
  <2> HIDE DEF w1
  <2>1. w1 \in Int /\ x = InterimMonths(i, w1)
    BY <1>8, SMT DEF w1
  <2> QED BY <1>1, <1>2, <2>1, MonthsAt, ResolveIsDate, SMT DEF D
<1> HIDE DEF t, x, ua
<1>14. IF neg THEN Number(x) < ua /\ ua <= Number(t) ELSE Number(t) <= ua /\ ua < Number(x)
  <2>1. CASE back
    BY <1>1, <1>3, <1>4, <1>5, <1>6, <1>8, <1>10, <1>12, <1>13, <2>1, SMT DEF Forward
  <2>2. CASE ~back
    BY <1>1, <1>3, <1>4, <1>5, <1>6, <1>8, <1>11, <1>12, <1>13, <2>2, SMT DEF Forward
  <2> QED BY <2>1, <2>2
<1>15. Lands(d, a, neg) /\ Reaches(d.trunc, a, neg)
  BY <1>2, <1>12, <1>13, <1>14, SMT DEF Lands, Reaches, ua
<1>16. d.trunc = InterimMonths(i, d.value) /\ d.expand = InterimMonths(i, d.value + Step(inc, neg))
  BY <1>2, SMT DEF t, x, st
<1>17. Multiple(d.value, inc)
  BY <1>2, <1>9 DEF Multiple
<1> QED BY <1>2, <1>8, <1>15, <1>16, <1>17

\* UnixDays::shift on the way.
LEMMA DaysAt ==
    ASSUME NEW i, IsInterim(i), NEW n \in Int, NEW e, e = shift_days(InterimResolve(i), n), e # NoDate
    PROVE  IsDate(e) /\ IsInterim(e) /\ Number(e) = Number(i) + n
<1>1. IsDate(InterimResolve(i)) /\ Number(i) \in Int /\ Number(i) = unix_days(InterimResolve(i))
  BY ResolveIsDate, SMT DEF Number
<1> DEFINE r == InterimResolve(i)
<1> HIDE DEF r
<1>2. IsDate(r) /\ e = shift_days(r, n) /\ Number(i) = unix_days(r)
  BY <1>1, SMT DEF r
<1>3. unix_days(r) + n \in UnixDays
  BY <1>2, ShiftDaysAdds, SMT
<1>4. IsDate(e) /\ unix_days(e) = unix_days(r) + n
  BY <1>2, <1>3, ShiftDaysAdds, SMT
<1>5. IsInterim(e) /\ Number(e) = unix_days(e)
  BY <1>4, DateIsInterim, SMT
<1> QED BY <1>2, <1>4, <1>5, SMT

\* InterimDate::days_diff.
LEMMA DaysLand ==
    ASSUME NEW i, NEW a, IsDate(a), NEW neg \in BOOLEAN, Reaches(i, a, neg), NEW inc \in Nat \ {0},
           NEW d, d = days_diff(a, i, inc, neg), d.ok
    PROVE  /\ Forward(d.value, neg) /\ Lands(d, a, neg) /\ Reaches(d.trunc, a, neg)
           /\ Multiple(d.value, inc)
           /\ Number(d.trunc) = Number(i) + d.value
           /\ Number(d.expand) = Number(i) + (d.value + Step(inc, neg))
           /\ inc = 1 => Number(d.trunc) = unix_days(a)
<1> DEFINE ua == unix_days(a)
           ui == Number(i)
           D == ua - ui
           v == truncate(inc, D)
           st == Step(inc, neg)
           v1 == v + st
           t == shift_days(InterimResolve(i), v)
           x == shift_days(InterimResolve(i), v1)
<1>1. IsInterim(i) /\ Forward(D, neg) /\ ua \in Int /\ ui \in Int
  BY ReachesSide, ResolveIsDate, UnixDaysType, SMT
<1>2. t # NoDate /\ x # NoDate /\ d.value = v /\ d.trunc = t /\ d.expand = x
  <2>1. d = Between(v, t, x)
    BY SMT DEF days_diff, Around, Number
  <2> HIDE DEF t, x, v
  <2> QED BY <2>1, SMT DEF Between, Diff, NoDiff
<1> HIDE DEF ua, ui
<1>3. D \in Int /\ (IF neg THEN D <= 0 ELSE D >= 0) /\ ui + D = ua
  BY <1>1, SMT DEF Forward
<1> HIDE DEF D
<1>4. /\ v \in Int
      /\ D >= 0 => 0 <= v /\ v <= D /\ D < v + inc
      /\ D <= 0 => D <= v /\ v <= 0 /\ v - inc < D
      /\ inc = 1 => v = D
  BY <1>3, Truncates, Zenon
<1>5. \E q \in Int : v = inc * q
  BY <1>3, Truncates, Zenon
<1> HIDE DEF v
<1>6. st = (IF neg THEN -inc ELSE inc) /\ v1 \in Int
  BY <1>4, SMT DEF Step
<1> HIDE DEF v1, t, x
<1>7. /\ IsInterim(t) /\ Number(t) = ui + v
      /\ IsInterim(x) /\ Number(x) = ui + v1
  <2>1. t = shift_days(InterimResolve(i), v) /\ x = shift_days(InterimResolve(i), v1)
    BY DEF t, x
  <2> QED BY <1>1, <1>2, <1>4, <1>6, <2>1, DaysAt, SMT DEF ui
<1>8. IF neg THEN Number(x) < ua /\ ua <= Number(t) ELSE Number(t) <= ua /\ ua < Number(x)
  <2>1. v1 = v + st
    BY DEF v1
  <2> HIDE DEF st
  <2> QED BY <1>1, <1>3, <1>4, <1>6, <1>7, <2>1, SMT
<1>9. inc = 1 => Number(t) = ua
  BY <1>1, <1>3, <1>4, <1>7, SMT
<1>10. Lands(d, a, neg) /\ Reaches(d.trunc, a, neg)
  BY <1>2, <1>7, <1>8, SMT DEF Lands, Reaches, ua
<1>11. Multiple(d.value, inc)
  BY <1>2, <1>5 DEF Multiple
<1>12. Forward(d.value, neg)
  BY <1>2, <1>3, <1>4, SMT DEF Forward
<1>13. Number(d.trunc) = Number(i) + d.value /\ Number(d.expand) = Number(i) + (d.value + Step(inc, neg))
  BY <1>2, <1>7, SMT DEF ui, v1
<1>14. inc = 1 => Number(d.trunc) = unix_days(a)
  BY <1>2, <1>9, SMT DEF ua
<1> QED BY <1>10, <1>11, <1>12, <1>13, <1>14

\* InterimDate::weeks_diff: whole increments of seven days.
LEMMA WeeksLand ==
    ASSUME NEW i, NEW a, IsDate(a), NEW neg \in BOOLEAN, Reaches(i, a, neg), NEW inc \in Nat \ {0},
           NEW d, d = weeks_diff(a, i, inc, neg), d.ok
    PROVE  /\ Forward(d.value, neg) /\ Lands(d, a, neg) /\ Reaches(d.trunc, a, neg)
           /\ Multiple(d.value, inc)
           /\ Number(d.trunc) = Number(i) + 7 * d.value
           /\ Number(d.expand) = Number(i) + 7 * (d.value + Step(inc, neg))
<1> DEFINE k == inc * 7
           e == days_diff(a, i, k, neg)
<1>1. e.ok /\ d = Diff(e.value \div 7, e.trunc, e.expand)
  <2>1. d = IF CalendarIncrementOk(k) THEN InWeeks(e) ELSE NoDiff
    BY SMT DEF weeks_diff
  <2> HIDE DEF k, e
  <2> QED BY <2>1, SMT DEF InWeeks, Diff, NoDiff
<1>2. d.value = e.value \div 7 /\ d.trunc = e.trunc /\ d.expand = e.expand
  BY <1>1, SMT DEF Diff
<1>3. k \in Nat \ {0}
  BY SMT
<1> HIDE DEF k, e
<1>4. e = days_diff(a, i, k, neg)
  BY DEF e
<1>5. /\ Forward(e.value, neg) /\ Lands(e, a, neg) /\ Reaches(e.trunc, a, neg)
      /\ Number(e.trunc) = Number(i) + e.value
      /\ Number(e.expand) = Number(i) + (e.value + Step(k, neg))
      /\ Multiple(e.value, k)
  BY <1>1, <1>3, <1>4, DaysLand, SMT
<1>6. Multiple(e.value, k)
  BY <1>5
<1>7. PICK q \in Int : e.value = k * q
  BY <1>6 DEF Multiple
<1>8. e.value = 7 * (inc * q) /\ inc * q \in Int
  BY <1>7, SMT DEF k
<1> DEFINE w == inc * q
<1> HIDE DEF w
<1>9. e.value = 7 * w /\ w \in Int
  BY <1>8, SMT DEF w
<1>10. d.value = w
  <2>1. (7 * w) \div 7 = w
    BY <1>9, SMT
  <2> QED BY <1>2, <1>9, <2>1, SMT
<1>11. Forward(d.value, neg)
  BY <1>5, <1>9, <1>10, SMT DEF Forward
<1>12. Lands(d, a, neg) /\ Reaches(d.trunc, a, neg)
  BY <1>2, <1>5, SMT DEF Lands
<1>13. Multiple(d.value, inc)
  BY <1>10 DEF w, Multiple
<1>14. Step(k, neg) = 7 * Step(inc, neg) /\ Step(inc, neg) \in Int
  BY SMT DEF Step, k
<1>15. Number(i) \in Int
  <2>1. IsInterim(i)
    BY DEF Reaches
  <2> QED BY <2>1, ResolveIsDate, SMT
<1> DEFINE st == Step(inc, neg)
<1> HIDE DEF st
<1>16. 7 * w + 7 * st = 7 * (w + st)
  BY <1>9, <1>14, SMT DEF st
<1>17. Number(d.trunc) = Number(i) + 7 * d.value /\ Number(d.expand) = Number(i) + 7 * (d.value + st)
  BY <1>2, <1>5, <1>9, <1>10, <1>14, <1>16, SMT DEF st
<1> QED BY <1>11, <1>12, <1>13, <1>17 DEF st

\* What every unit has in common (CalendarUnit::diff_into).
LEMMA UnitLands ==
    ASSUME NEW i, NEW a, IsDate(a), NEW neg \in BOOLEAN, Reaches(i, a, neg), NEW inc \in Nat \ {0},
           NEW unit \in Names(CalendarUnit), NEW d, d = UnitDiff(unit, a, i, inc, neg), d.ok
    PROVE  Forward(d.value, neg) /\ Lands(d, a, neg) /\ Multiple(d.value, inc)
<1>1. unit \in {"years", "months", "weeks", "days"}
  BY SMT DEF Names, CalendarUnit
<1>2. CASE unit = "years"
  <2>1. d = years_diff(a, i, inc, neg)
    BY <1>2 DEF UnitDiff
  <2> QED BY <2>1, YearsLand, SMT
<1>3. CASE unit = "months"
  <2>1. d = months_diff(a, i, inc, neg)
    BY <1>3 DEF UnitDiff
  <2> QED BY <2>1, MonthsLand, SMT
<1>4. CASE unit = "weeks"
  <2>1. d = weeks_diff(a, i, inc, neg)
    BY <1>4 DEF UnitDiff
  <2> QED BY <2>1, WeeksLand, SMT
<1>5. CASE unit = "days"
  <2>1. d = days_diff(a, i, inc, neg)
    BY <1>5 DEF UnitDiff
  <2> QED BY <2>1, DaysLand, SMT
<1> QED BY <1>1, <1>2, <1>3, <1>4, <1>5

\* The smallest unit is the last of them in the order of CalendarUnit.
LEMMA SmallestUnit ==
    ASSUME NEW units
    PROVE  /\ "days" \in units => smallest(CalendarUnit, units) = "days"
           /\ "weeks" \in units /\ "days" \notin units => smallest(CalendarUnit, units) = "weeks"
           /\ "months" \in units /\ {"weeks", "days"} \cap units = {} => smallest(CalendarUnit, units) = "months"
           /\ "years" \in units /\ {"months", "weeks", "days"} \cap units = {} =>
                    smallest(CalendarUnit, units) = "years"
<1> DEFINE S == {i \in 1 .. 4 : CalendarUnit[i] \in units}
<1>1. /\ CalendarUnit[1] = "years" /\ CalendarUnit[2] = "months"
      /\ CalendarUnit[3] = "weeks" /\ CalendarUnit[4] = "days" /\ DOMAIN CalendarUnit = 1 .. 4
  BY SMT DEF CalendarUnit
<1>2. smallest(CalendarUnit, units) = CalendarUnit[Max(S)]
  BY <1>1 DEF smallest
<1>3. ASSUME NEW k \in S, \A j \in S : j <= k
      PROVE  Max(S) = k
  <2>1. S \subseteq Int
    BY SMT
  <2> HIDE DEF S
  <2>2. \E x \in S : \A y \in S : x >= y
    BY <1>3, <2>1, SMT
  <2>3. Max(S) \in S /\ \A y \in S : Max(S) >= y
    BY <2>2 DEF Max
  <2> DEFINE x == Max(S)
  <2> HIDE DEF x
  <2>4. x \in Int /\ k \in Int /\ x >= k /\ x <= k
    BY <1>3, <2>1, <2>3 DEF x
  <2>5. x = k
    BY <2>4, SMT
  <2> QED BY <2>5 DEF x
<1>4. "days" \in units => Max(S) = 4
  <2>1. "days" \in units => 4 \in S /\ \A j \in S : j <= 4
    BY <1>1, SMT
  <2> HIDE DEF S
  <2> QED BY <1>3, <2>1
<1>5. "weeks" \in units /\ "days" \notin units => Max(S) = 3
  <2>1. "weeks" \in units /\ "days" \notin units => 3 \in S /\ \A j \in S : j <= 3
    BY <1>1, SMT
  <2> HIDE DEF S
  <2> QED BY <1>3, <2>1
<1>6. "months" \in units /\ {"weeks", "days"} \cap units = {} => Max(S) = 2
  <2>1. "months" \in units /\ {"weeks", "days"} \cap units = {} => 2 \in S /\ \A j \in S : j <= 2
    BY <1>1, SMT
  <2> HIDE DEF S
  <2> QED BY <1>3, <2>1
<1>7. "years" \in units /\ {"months", "weeks", "days"} \cap units = {} => Max(S) = 1
  <2>1. "years" \in units /\ {"months", "weeks", "days"} \cap units = {} => 1 \in S /\ \A j \in S : j <= 1
    BY <1>1, SMT
  <2> HIDE DEF S
  <2> QED BY <1>3, <2>1
<1> QED BY <1>1, <1>2, <1>4, <1>5, <1>6, <1>7

\* A difference in one unit: what that unit returns
InUnit(unit, e) == Diff([u \in {unit} |-> e.value], e.trunc, e.expand)
\* Only the unit that was asked for is taken.
LEMMA SingleUnit ==
    ASSUME NEW a, NEW b, NEW inc, NEW unit \in Names(CalendarUnit), NEW neg,
           NEW d, d = date_diff(a, b, inc, {unit}, neg),
           NEW e, e = UnitDiff(unit, a, b, inc, neg), d.ok \/ e.ok
    PROVE  d.ok /\ e.ok /\ d = InUnit(unit, e)
<1> DEFINE z == Diff([u \in {unit} |-> 0], b, a)
<1>1. unit \in {"years", "months", "weeks", "days"}
  BY SMT DEF Names, CalendarUnit
<1>2. smallest(CalendarUnit, {unit}) = unit
  BY <1>1, SmallestUnit, SMT
<1>3. z.ok /\ z.value = [u \in {unit} |-> 0] /\ z.trunc = b
  BY DEF Diff
<1> HIDE DEF z
<1>4. ASSUME NEW acc, NEW u, u # unit
      PROVE  TakeUnit(acc, u, a, inc, {unit}, neg) = acc
  BY <1>4 DEF TakeUnit
<1>5. TakeUnit(z, unit, a, inc, {unit}, neg) = Further(z, unit, e)
  BY <1>2, <1>3 DEF TakeUnit
<1>6. d = TakeUnit(TakeUnit(TakeUnit(TakeUnit(z, "years", a, inc, {unit}, neg),
                                     "months", a, inc, {unit}, neg),
                            "weeks", a, inc, {unit}, neg), "days", a, inc, {unit}, neg)
  BY DEF date_diff, z
<1>7. d = Further(z, unit, e)
  <2>1. CASE unit = "years"
    BY <1>4, <1>5, <1>6, <2>1
  <2>2. CASE unit = "months"
    BY <1>4, <1>5, <1>6, <2>2
  <2>3. CASE unit = "weeks"
    BY <1>4, <1>5, <1>6, <2>3
  <2>4. CASE unit = "days"
    BY <1>4, <1>5, <1>6, <2>4
  <2> QED BY <1>1, <2>1, <2>2, <2>3, <2>4
<1>8. e.ok
  BY <1>7, SMT DEF Further, NoDiff
<1>9. d = Diff([z.value EXCEPT ![unit] = e.value], e.trunc, e.expand)
  BY <1>7, <1>8 DEF Further
<1>10. [z.value EXCEPT ![unit] = e.value] = [u \in {unit} |-> e.value]
  BY <1>3, SMT
<1>11. d.ok
  BY <1>9 DEF Diff
<1> QED BY <1>8, <1>9, <1>10, <1>11 DEF InUnit

\* The date that is counted from has not passed the target: the sign says where it lies.
LEMMA StartReaches ==
    ASSUME NEW a, IsDate(a), NEW b, IsDate(b), NEW neg, neg = DateLess(a, b)
    PROVE  neg \in BOOLEAN /\ Reaches(b, a, neg)
<1>1. neg \in BOOLEAN
  BY DEF DateLess
<1>2. neg <=> unix_days(a) < unix_days(b)
  BY DateOrder
<1>3. IsInterim(b) /\ Number(b) = unix_days(b) /\ unix_days(a) \in Int /\ unix_days(b) \in Int
  BY DateIsInterim, UnixDaysType, SMT
<1> QED BY <1>1, <1>2, <1>3, SMT DEF Reaches

-----------------------------------------------------------------------------
(***************************************************************************)
(* A difference in several units.  What is collected so far leads, added   *)
(* to the date that is counted from, to the date on the way.               *)
(***************************************************************************)
MonthsIn(value) == FieldOr0(value, "years") * 12 + FieldOr0(value, "months")
DaysIn(value) == FieldOr0(value, "weeks") * 7 + FieldOr0(value, "days")
Leads(b, months, days, i) ==
    /\ IsInterim(i) /\ IsDate(shift_months(b, months))
    /\ Number(i) = unix_days(shift_months(b, months)) + days

\* Setting a field of a delta leaves the others alone.
LEMMA SetField ==
    ASSUME NEW units, NEW value \in [units -> Int], NEW u \in units, NEW n \in Int,
           NEW next, next = [value EXCEPT ![u] = n]
    PROVE  /\ next \in [units -> Int] /\ FieldOr0(next, u) = n /\ next[u] = n
           /\ \A w : w # u => FieldOr0(next, w) = FieldOr0(value, w)
           /\ \A w \in units : w # u => next[w] = value[w]
  BY DEF FieldOr0

\* The fields of a delta; those that it lacks are 0.
LEMMA FieldType ==
    ASSUME NEW units, NEW value \in [units -> Int], NEW u
    PROVE  /\ FieldOr0(value, u) \in Int
           /\ u \notin units => FieldOr0(value, u) = 0
           /\ u \in units => FieldOr0(value, u) = value[u]
<1>1. CASE u \in units
  BY <1>1, SMT DEF FieldOr0
<1>2. CASE u \notin units
  BY <1>2, SMT DEF FieldOr0
<1> QED BY <1>1, <1>2

\* Where only months were added, the day was cut at most.
LEMMA MonthsLead ==
    ASSUME NEW b, IsDate(b), NEW i, IsInterim(i), i.day = b.day, NEW n \in Int,
           MonthIndex(i) = MonthIndex(b) + n
    PROVE  shift_months(b, n) = InterimResolve(i) /\ Leads(b, n, 0, i)
<1>1. IsInterim(b) /\ MonthIndex(b) \in Int /\ MonthIndex(i) \in Int
  BY DateIsInterim, InterimParts, SMT
<1>2. MonthIndex(b) + n = MonthIndex(i) + 0
  BY <1>1, SMT
<1>3. shift_months(b, n) = shift_months(i, 0)
  BY <1>1, <1>2, SameShift, SMT
<1>4. shift_months(b, n) = InterimResolve(i)
  BY <1>3, ResolveIsShift, SMT
<1>5. IsDate(InterimResolve(i)) /\ Number(i) \in Int
  BY ResolveIsDate, SMT
<1> QED BY <1>4, <1>5, SMT DEF Leads, Number

\* Further months go from where the years lead.
LEMMA MoreMonthsLead ==
    ASSUME NEW b, IsDate(b), NEW i, IsInterim(i), i.day = b.day, NEW n \in Int,
           MonthIndex(i) = MonthIndex(b) + n, NEW k \in Int, NEW e, e = shift_months(i, k), e # NoDate
    PROVE  Leads(b, n + k, 0, e)
<1>1. IsInterim(b) /\ MonthIndex(b) \in Int /\ MonthIndex(i) \in Int /\ n + k \in Int
  BY DateIsInterim, InterimParts, SMT
<1>2. MonthIndex(b) + (n + k) = MonthIndex(i) + k
  BY <1>1, SMT
<1> DEFINE m == n + k
<1> HIDE DEF m
<1>3. m \in Int /\ MonthIndex(b) + m = MonthIndex(i) + k
  BY <1>1, <1>2 DEF m
<1>4. shift_months(b, m) = e
  BY <1>1, <1>3, SameShift, SMT
<1>5. IsDate(e) /\ IsInterim(e) /\ Number(e) = unix_days(e) /\ unix_days(e) \in Int
  BY ShiftMonthsTo, UnixDaysType, SMT
<1>6. Leads(b, m, 0, e)
  BY <1>4, <1>5, SMT DEF Leads
<1> QED BY <1>6 DEF m

\* Further days are counted from there.
LEMMA MoreDaysLead ==
    ASSUME NEW b, NEW n, NEW k \in Int, NEW i, Leads(b, n, k, i), NEW e, IsInterim(e),
           NEW l \in Int, Number(e) = Number(i) + l
    PROVE  Leads(b, n, k + l, e)
<1>1. unix_days(shift_months(b, n)) \in Int
  BY UnixDaysType, SMT DEF Leads
<1> QED BY <1>1, SMT DEF Leads

\* The ranges of a shift hold every distance of two dates.
LEMMA InDeltas ==
    ASSUME NEW n \in Int
    PROVE  /\ -119988 <= n /\ n <= 119988 => n \in DeltaMonths
           /\ -3652058 <= n /\ n <= 3652058 => n \in DeltaDays /\ n # 2 * IncrementMax
<1> DEFINE a == -(9999 * 12)
           b == 9999 * 12
           c == UnixDaysMin - UnixDaysMax - 1
           e == UnixDaysMax - UnixDaysMin + 1
<1>1. a = -119988 /\ b = 119988 /\ c = -3652059 /\ e = 3652059
  BY SMT DEF UnixDaysMin, UnixDaysMax
<1>2. DeltaMonths = a .. b /\ DeltaDays = c .. e /\ IncrementMax = e
  BY DEF DeltaMonths, DeltaDays, IncrementMax
<1> HIDE DEF a, b, c, e
<1>3. a \in Int /\ b \in Int /\ c \in Int /\ e \in Int
  BY <1>1, SMT
<1>4. /\ a <= n /\ n <= b => n \in a .. b
      /\ c <= n /\ n <= e => n \in c .. e
  BY <1>3, SMT
<1>5. /\ -119988 <= n /\ n <= 119988 => a <= n /\ n <= b
      /\ -3652058 <= n /\ n <= 3652058 => c <= n /\ n <= e
  BY <1>1, SMT
<1>6. -3652058 <= n /\ n <= 3652058 => n # 2 * e
  BY <1>1, SMT
<1> QED BY <1>2, <1>4, <1>5, <1>6

\* ItemizedDateDelta::to_calendar_shift and Date::shift_by: what leads somewhere
\* is in the ranges of a shift, and shifts there.
LEMMA LeadsShifts ==
    ASSUME NEW b, IsDate(b), NEW value, MonthsIn(value) \in Int, DaysIn(value) \in Int,
           NEW i, Leads(b, MonthsIn(value), DaysIn(value), i)
    PROVE  /\ shift_by(b, to_calendar_shift(value)) = InterimResolve(i)
           /\ IsDate(InterimResolve(i)) /\ unix_days(InterimResolve(i)) = Number(i)
<1> DEFINE n == MonthsIn(value)
           k == DaysIn(value)
           e == shift_months(b, n)
           r == InterimResolve(i)
<1>1. IsDate(r) /\ Number(i) = unix_days(r) /\ IsDate(e) /\ Number(i) = unix_days(e) + k
  BY ResolveIsDate, SMT DEF Leads, Number
<1>2. n \in DeltaMonths
  <2>1. e # NoDate /\ IsInterim(b)
    BY <1>1, NoneIsNoDate, DateIsInterim, SMT
  <2>2. MonthIndex(e) = MonthIndex(b) + n
    BY <2>1, ShiftMonthsTo, SMT
  <2>3. /\ b.year \in Int /\ 1 <= b.year /\ b.year <= 9999 /\ b.month \in Int /\ 1 <= b.month /\ b.month <= 12
        /\ e.year \in Int /\ 1 <= e.year /\ e.year <= 9999 /\ e.month \in Int /\ 1 <= e.month /\ e.month <= 12
    <3>1. IsInterim(e)
      BY <1>1, DateIsInterim, SMT
    <3> HIDE DEF e
    <3> QED BY <2>1, <3>1, InterimParts, SMT
  <2> HIDE DEF e, n
  <2>3a. n \in Int
    BY DEF n
  <2>4. -119988 <= n /\ n <= 119988
    BY <2>2, <2>3, <2>3a, SMT DEF MonthIndex
  <2> QED BY <2>3a, <2>4, InDeltas
<1>3. k \in DeltaDays /\ k # 2 * IncrementMax
  <2> DEFINE ur == unix_days(r)
             ue == unix_days(e)
  <2> HIDE DEF r, e
  <2>1. ur \in UnixDays /\ ue \in UnixDays
    BY <1>1, UnixDaysInRange
  <2> HIDE DEF k
  <2>2. k \in Int /\ ur = ue + k
    BY <1>1 DEF k
  <2> HIDE DEF ur, ue
  <2>3. /\ ur \in Int /\ -719162 <= ur /\ ur <= 2932896
        /\ ue \in Int /\ -719162 <= ue /\ ue <= 2932896
    BY <2>1, UnixDaysRange
  <2>4. -3652058 <= k /\ k <= 3652058
    BY <2>2, <2>3, SMT
  <2> QED BY <2>2, <2>4, InDeltas
<1>4. ShiftDate(b, n, k) = r
  <2>1. k \in Int /\ e = shift_months(b, n) /\ unix_days(r) = unix_days(e) + k
    BY <1>1
  <2> HIDE DEF n, k, e, r
  <2>2. unix_days(e) + k = unix_days(r)
    BY <2>1
  <2> QED BY <1>1, <2>1, <2>2, ShiftDateTo, SMT
<1>5. to_calendar_shift(value) = [months |-> n, days |-> k]
  BY <1>2, <1>3 DEF to_calendar_shift, MonthsIn, DaysIn
<1>6. [months |-> n, days |-> k] # NoShift
  <2> HIDE DEF n, k
  <2> QED BY <1>3 DEF NoShift
<1>7. shift_by(b, to_calendar_shift(value)) = r
  <2> HIDE DEF n, k
  <2> QED BY <1>4, <1>5, <1>6, SMT DEF shift_by
<1> QED BY <1>1, <1>7

\* The state of date_diff between two units, and what it knows of the next date.
OnTheWay(acc, units, a, neg) ==
    /\ acc.ok /\ acc.value \in [units -> Int] /\ Reaches(acc.trunc, a, neg)
    /\ \A u \in units : Forward(acc.value[u], neg)
OneMore(acc, unit, neg) == [acc.value EXCEPT ![unit] = acc.value[unit] + Step(1, neg)]
NextLeads(acc, unit, b, a, neg) ==
    Lands(acc, a, neg) /\ Leads(b, MonthsIn(OneMore(acc, unit, neg)), DaysIn(OneMore(acc, unit, neg)), acc.expand)

\* One unit more (the body of the loop in date_diff).
Took(acc, r, unit, e) ==
    e.ok /\ r.ok /\ r.value = [acc.value EXCEPT ![unit] = e.value] /\ r.trunc = e.trunc /\ r.expand = e.expand
Added(acc, r, unit, v, neg) ==
    /\ FieldOr0(r.value, unit) = v
    /\ \A u : u # unit => FieldOr0(r.value, u) = FieldOr0(acc.value, u)
    /\ FieldOr0(OneMore(r, unit, neg), unit) = v + Step(1, neg)
    /\ \A u : u # unit => FieldOr0(OneMore(r, unit, neg), u) = FieldOr0(acc.value, u)

\* A unit that was asked for starts from the date on the way.
LEMMA UnitTaken ==
    ASSUME NEW units, NEW acc, NEW unit \in units, NEW a, NEW neg,
           NEW r, r = TakeUnit(acc, unit, a, 1, units, neg), r.ok,
           NEW e, e = UnitDiff(unit, a, acc.trunc, 1, neg)
    PROVE  Took(acc, r, unit, e)
<1>1. CASE ~acc.ok
  BY <1>1 DEF TakeUnit
<1>2. CASE acc.ok
  <2>1. r = Further(acc, unit, e)
    BY <1>2 DEF TakeUnit
  <2>2. e.ok
    BY <2>1, SMT DEF Further, NoDiff
  <2>3. r = Diff([acc.value EXCEPT ![unit] = e.value], e.trunc, e.expand)
    BY <2>1, <2>2 DEF Further
  <2> QED BY <1>2, <2>2, <2>3, SMT DEF Diff, Took
<1> QED BY <1>1, <1>2

\* A unit that was not asked for changes nothing.
LEMMA UnitSkipped ==
    ASSUME NEW units, NEW acc, NEW unit, unit \notin units, NEW a, NEW neg
    PROVE  TakeUnit(acc, unit, a, 1, units, neg) = acc
  BY DEF TakeUnit

\* What was None stays None.
LEMMA UnitNeedsOk ==
    ASSUME NEW units, NEW acc, NEW unit, NEW a, NEW neg, TakeUnit(acc, unit, a, 1, units, neg).ok
    PROVE  acc.ok
<1> SUFFICES ASSUME ~acc.ok PROVE FALSE
  OBVIOUS
<1>1. TakeUnit(acc, unit, a, 1, units, neg) = acc
  BY DEF TakeUnit
<1> QED BY <1>1

\* What a unit that was taken adds, to the fields and on the way.
LEMMA TakenOnTheWay ==
    ASSUME NEW units, NEW acc, NEW unit \in units, NEW a, NEW neg \in BOOLEAN, OnTheWay(acc, units, a, neg),
           NEW r, NEW e, Took(acc, r, unit, e),
           Forward(e.value, neg), Lands(e, a, neg), Reaches(e.trunc, a, neg)
    PROVE  OnTheWay(r, units, a, neg) /\ Lands(r, a, neg) /\ Added(acc, r, unit, e.value, neg)
<1>0. r.ok /\ r.value = [acc.value EXCEPT ![unit] = e.value] /\ r.trunc = e.trunc /\ r.expand = e.expand
  BY DEF Took
<1>1. acc.value \in [units -> Int] /\ e.value \in Int /\ Step(1, neg) \in Int
  BY SMT DEF OnTheWay, Forward, Step
<1>2. /\ r.value \in [units -> Int] /\ FieldOr0(r.value, unit) = e.value /\ r.value[unit] = e.value
      /\ \A w : w # unit => FieldOr0(r.value, w) = FieldOr0(acc.value, w)
      /\ \A w \in units : w # unit => r.value[w] = acc.value[w]
  BY <1>0, <1>1, SetField
<1>3. OneMore(r, unit, neg) = [r.value EXCEPT ![unit] = e.value + Step(1, neg)] /\ e.value + Step(1, neg) \in Int
  BY <1>1, <1>2, SMT DEF OneMore
<1>4. /\ FieldOr0(OneMore(r, unit, neg), unit) = e.value + Step(1, neg)
      /\ \A w : w # unit => FieldOr0(OneMore(r, unit, neg), w) = FieldOr0(r.value, w)
  BY <1>2, <1>3, SetField
<1>5. \A u \in units : Forward(r.value[u], neg)
  BY <1>2 DEF OnTheWay
<1>6. OnTheWay(r, units, a, neg) /\ Lands(r, a, neg)
  BY <1>0, <1>2, <1>5 DEF OnTheWay, Lands
<1> QED BY <1>2, <1>4, <1>6 DEF Added

\* After the years, the months, the weeks and the days.
AfterYears(acc, units, b, a, neg) ==
    /\ OnTheWay(acc, units, a, neg)
    /\ acc.trunc.day = b.day /\ MonthIndex(acc.trunc) = MonthIndex(b) + FieldOr0(acc.value, "years") * 12
    /\ FieldOr0(acc.value, "months") = 0 /\ FieldOr0(acc.value, "weeks") = 0 /\ FieldOr0(acc.value, "days") = 0
AfterMonths(acc, units, b, a, neg) ==
    /\ OnTheWay(acc, units, a, neg) /\ Leads(b, MonthsIn(acc.value), 0, acc.trunc)
    /\ FieldOr0(acc.value, "weeks") = 0 /\ FieldOr0(acc.value, "days") = 0
AfterWeeks(acc, units, b, a, neg) ==
    /\ OnTheWay(acc, units, a, neg) /\ Leads(b, MonthsIn(acc.value), DaysIn(acc.value), acc.trunc)
    /\ FieldOr0(acc.value, "days") = 0
AfterDays(acc, units, b, a, neg) ==
    /\ OnTheWay(acc, units, a, neg) /\ Leads(b, MonthsIn(acc.value), DaysIn(acc.value), acc.trunc)
    /\ "days" \in units => Number(acc.trunc) = unix_days(a)

\* InterimDate::years_diff within date_diff.
LEMMA TakesYears ==
    ASSUME NEW units, NEW a, IsDate(a), NEW b, IsDate(b), NEW neg \in BOOLEAN, Reaches(b, a, neg),
           NEW acc, acc = Diff([u \in units |-> 0], b, a),
           NEW r, r = TakeUnit(acc, "years", a, 1, units, neg), r.ok
    PROVE  AfterYears(r, units, b, a, neg) /\ ("years" \in units => NextLeads(r, "years", b, a, neg))
<1>1. acc.ok /\ acc.value = [u \in units |-> 0] /\ acc.trunc = b
  BY SMT DEF Diff
<1>2. OnTheWay(acc, units, a, neg)
  BY <1>1, SMT DEF OnTheWay, Forward
<1>3. ASSUME NEW u
      PROVE  FieldOr0(acc.value, u) = 0
  BY <1>1, SMT DEF FieldOr0
<1>4. IsInterim(b) /\ MonthIndex(b) \in Int
  BY DateIsInterim, InterimParts, SMT
<1>5. CASE "years" \notin units
  <2>1. r = acc
    BY <1>5, UnitSkipped
  <2>2. MonthIndex(b) = MonthIndex(b) + FieldOr0(acc.value, "years") * 12
    BY <1>3, <1>4, SMT
  <2> QED BY <1>1, <1>2, <1>3, <1>5, <2>1, <2>2 DEF AfterYears
<1>6. CASE "years" \in units
  <2> DEFINE e == UnitDiff("years", a, b, 1, neg)
             st == Step(1, neg)
             y == e.value
             y1 == e.value + st
             more == OneMore(r, "years", neg)
  <2>1. e = years_diff(a, b, 1, neg)
    BY DEF UnitDiff
  <2> HIDE DEF e
  <2>2. Took(acc, r, "years", e)
    BY <1>1, <1>6, UnitTaken DEF e
  <2>2a. e.ok /\ r.trunc = e.trunc /\ r.expand = e.expand
    BY <2>2 DEF Took
  <2>3. /\ Forward(e.value, neg) /\ Lands(e, a, neg) /\ Reaches(e.trunc, a, neg)
        /\ e.trunc = InterimYears(b, y) /\ e.trunc # NoDate
        /\ e.expand = InterimYears(b, y1) /\ e.expand # NoDate
    <3>1. 1 \in Nat \ {0}
      BY SMT
    <3> QED BY <2>1, <2>2a, <3>1, YearsLand, SMT
  <2>4. /\ OnTheWay(r, units, a, neg) /\ Lands(r, a, neg)
        /\ FieldOr0(r.value, "years") = y
        /\ \A u : u # "years" => FieldOr0(r.value, u) = FieldOr0(acc.value, u)
        /\ FieldOr0(more, "years") = y1
        /\ \A u : u # "years" => FieldOr0(more, u) = FieldOr0(acc.value, u)
    <3>1. OnTheWay(r, units, a, neg) /\ Lands(r, a, neg) /\ Added(acc, r, "years", e.value, neg)
      BY <1>2, <1>6, <2>2, <2>3, TakenOnTheWay
    <3> QED BY <3>1 DEF Added
  <2>5. y \in Int /\ y1 \in Int
    BY <2>3, SMT DEF Forward, Step
  <2> HIDE DEF y, y1, more
  <2>6. /\ r.trunc = Date(b.year + y, b.month, b.day) /\ MonthIndex(r.trunc) = MonthIndex(b) + 12 * y
        /\ r.expand = Date(b.year + y1, b.month, b.day) /\ MonthIndex(r.expand) = MonthIndex(b) + 12 * y1
        /\ IsInterim(r.trunc) /\ IsInterim(r.expand)
    BY <1>4, <2>2a, <2>3, <2>5, YearsAt, SMT
  <2>7. r.trunc.day = b.day /\ r.expand.day = b.day
    BY <2>6, SMT DEF Date
  <2>8. /\ FieldOr0(r.value, "months") = 0 /\ FieldOr0(r.value, "weeks") = 0 /\ FieldOr0(r.value, "days") = 0
        /\ FieldOr0(more, "months") = 0 /\ FieldOr0(more, "weeks") = 0 /\ FieldOr0(more, "days") = 0
    BY <1>3, <2>4
  <2>9. AfterYears(r, units, b, a, neg)
    <3>1. 12 * y = FieldOr0(r.value, "years") * 12
      BY <2>4, <2>5, SMT
    <3> QED BY <2>4, <2>6, <2>7, <2>8, <3>1 DEF AfterYears
  <2>10. NextLeads(r, "years", b, a, neg)
    <3> DEFINE n == 12 * y1
    <3>1. MonthsIn(more) = n /\ DaysIn(more) = 0 /\ n \in Int
      BY <2>4, <2>5, <2>8, SMT DEF MonthsIn, DaysIn
    <3> HIDE DEF n
    <3>2. MonthIndex(r.expand) = MonthIndex(b) + n
      BY <2>6 DEF n
    <3>3. Leads(b, n, 0, r.expand)
      BY <2>6, <2>7, <3>1, <3>2, MonthsLead, SMT
    <3> QED BY <2>4, <3>1, <3>3 DEF NextLeads, more
  <2> QED BY <2>9, <2>10
<1> QED BY <1>5, <1>6

\* InterimDate::months_diff within date_diff.
LEMMA TakesMonths ==
    ASSUME NEW units, NEW a, IsDate(a), NEW b, IsDate(b), NEW neg \in BOOLEAN,
           NEW acc, AfterYears(acc, units, b, a, neg),
           NEW r, r = TakeUnit(acc, "months", a, 1, units, neg), r.ok
    PROVE  AfterMonths(r, units, b, a, neg) /\ ("months" \in units => NextLeads(r, "months", b, a, neg))
<1> DEFINE i == acc.trunc
           n == FieldOr0(acc.value, "years") * 12
<1>1. /\ OnTheWay(acc, units, a, neg) /\ i.day = b.day /\ MonthIndex(i) = MonthIndex(b) + n
      /\ FieldOr0(acc.value, "months") = 0 /\ FieldOr0(acc.value, "weeks") = 0 /\ FieldOr0(acc.value, "days") = 0
  BY DEF AfterYears
<1>2. Reaches(i, a, neg) /\ IsInterim(i) /\ FieldOr0(acc.value, "years") \in Int
  BY <1>1, FieldType DEF OnTheWay, Reaches
<1>3. n \in Int
  BY <1>2, SMT
<1>4. CASE "months" \notin units
  <2>1. r = acc
    BY <1>4, UnitSkipped
  <2>2. MonthsIn(acc.value) = n
    BY <1>1, <1>2, SMT DEF MonthsIn
  <2> HIDE DEF n, i
  <2>3. Leads(b, n, 0, i)
    BY <1>1, <1>2, <1>3, MonthsLead, SMT
  <2> QED BY <1>1, <1>4, <2>1, <2>2, <2>3 DEF AfterMonths, i
<1>5. CASE "months" \in units
  <2> DEFINE e == UnitDiff("months", a, i, 1, neg)
             st == Step(1, neg)
             y == e.value
             y1 == e.value + st
             more == OneMore(r, "months", neg)
  <2>1. e = months_diff(a, i, 1, neg)
    BY DEF UnitDiff
  <2> HIDE DEF e
  <2>2. Took(acc, r, "months", e)
    BY <1>5, UnitTaken DEF e
  <2>2a. e.ok /\ r.trunc = e.trunc /\ r.expand = e.expand
    BY <2>2 DEF Took
  <2> HIDE DEF i
  <2>3. /\ Forward(e.value, neg) /\ Lands(e, a, neg) /\ Reaches(e.trunc, a, neg)
        /\ e.trunc = InterimMonths(i, y) /\ e.trunc # NoDate
        /\ e.expand = InterimMonths(i, y1) /\ e.expand # NoDate
    <3>1. 1 \in Nat \ {0}
      BY SMT
    <3> QED BY <1>2, <2>1, <2>2a, <3>1, MonthsLand, SMT
  <2>4. /\ OnTheWay(r, units, a, neg) /\ Lands(r, a, neg)
        /\ FieldOr0(r.value, "months") = y
        /\ \A u : u # "months" => FieldOr0(r.value, u) = FieldOr0(acc.value, u)
        /\ FieldOr0(more, "months") = y1
        /\ \A u : u # "months" => FieldOr0(more, u) = FieldOr0(acc.value, u)
    <3>1. OnTheWay(r, units, a, neg) /\ Lands(r, a, neg) /\ Added(acc, r, "months", e.value, neg)
      BY <1>1, <1>5, <2>2, <2>3, TakenOnTheWay
    <3> QED BY <3>1 DEF Added
  <2>5. y \in Int /\ y1 \in Int
    BY <2>3, SMT DEF Forward, Step
  <2> HIDE DEF y, y1, more, n
  <2>6. r.trunc = shift_months(i, y) /\ r.expand = shift_months(i, y1)
    BY <2>2a, <2>3 DEF InterimMonths
  <2>7. Leads(b, n + y, 0, r.trunc) /\ Leads(b, n + y1, 0, r.expand)
    BY <1>1, <1>2, <1>3, <2>2a, <2>3, <2>5, <2>6, MoreMonthsLead, SMT
  <2>8. /\ MonthsIn(r.value) = n + y /\ MonthsIn(more) = n + y1
        /\ FieldOr0(r.value, "weeks") = 0 /\ FieldOr0(r.value, "days") = 0
        /\ FieldOr0(more, "weeks") = 0 /\ FieldOr0(more, "days") = 0
    BY <1>1, <2>4 DEF MonthsIn, n
  <2>9. DaysIn(more) = 0
    BY <2>8, SMT DEF DaysIn
  <2>10. AfterMonths(r, units, b, a, neg)
    BY <2>4, <2>7, <2>8 DEF AfterMonths
  <2>11. NextLeads(r, "months", b, a, neg)
    BY <2>4, <2>7, <2>8, <2>9 DEF NextLeads, more
  <2> QED BY <2>10, <2>11
<1> QED BY <1>4, <1>5

\* InterimDate::weeks_diff within date_diff.
LEMMA TakesWeeks ==
    ASSUME NEW units, NEW a, IsDate(a), NEW b, IsDate(b), NEW neg \in BOOLEAN,
           NEW acc, AfterMonths(acc, units, b, a, neg),
           NEW r, r = TakeUnit(acc, "weeks", a, 1, units, neg), r.ok
    PROVE  AfterWeeks(r, units, b, a, neg) /\ ("weeks" \in units => NextLeads(r, "weeks", b, a, neg))
<1> DEFINE i == acc.trunc
           n == MonthsIn(acc.value)
<1>1. /\ OnTheWay(acc, units, a, neg) /\ Leads(b, n, 0, i)
      /\ FieldOr0(acc.value, "weeks") = 0 /\ FieldOr0(acc.value, "days") = 0
  BY DEF AfterMonths
<1>2. Reaches(i, a, neg) /\ IsInterim(i)
  BY <1>1 DEF OnTheWay, Reaches
<1>3. CASE "weeks" \notin units
  <2>1. r = acc
    BY <1>3, UnitSkipped
  <2>2. DaysIn(acc.value) = 0
    BY <1>1, SMT DEF DaysIn
  <2> QED BY <1>1, <1>3, <2>1, <2>2 DEF AfterWeeks
<1>4. CASE "weeks" \in units
  <2> DEFINE e == UnitDiff("weeks", a, i, 1, neg)
             st == Step(1, neg)
             y == e.value
             y1 == e.value + st
             more == OneMore(r, "weeks", neg)
  <2>1. e = weeks_diff(a, i, 1, neg)
    BY DEF UnitDiff
  <2> HIDE DEF e
  <2>2. Took(acc, r, "weeks", e)
    BY <1>4, UnitTaken DEF e
  <2>3. e.ok /\ r.trunc = e.trunc /\ r.expand = e.expand
    BY <2>2 DEF Took
  <2> HIDE DEF i
  <2>4. /\ Forward(e.value, neg) /\ Lands(e, a, neg) /\ Reaches(e.trunc, a, neg)
        /\ Number(e.trunc) = Number(i) + 7 * y /\ Number(e.expand) = Number(i) + 7 * y1
    <3>1. 1 \in Nat \ {0}
      BY SMT
    <3> QED BY <1>2, <2>1, <2>3, <3>1, WeeksLand, SMT
  <2>5. /\ OnTheWay(r, units, a, neg) /\ Lands(r, a, neg)
        /\ FieldOr0(r.value, "weeks") = y
        /\ \A u : u # "weeks" => FieldOr0(r.value, u) = FieldOr0(acc.value, u)
        /\ FieldOr0(more, "weeks") = y1
        /\ \A u : u # "weeks" => FieldOr0(more, u) = FieldOr0(acc.value, u)
    <3>1. OnTheWay(r, units, a, neg) /\ Lands(r, a, neg) /\ Added(acc, r, "weeks", e.value, neg)
      BY <1>1, <1>4, <2>2, <2>4, TakenOnTheWay
    <3> QED BY <3>1 DEF Added
  <2>6. y \in Int /\ y1 \in Int /\ IsInterim(e.trunc) /\ IsInterim(e.expand)
    BY <2>4, SMT DEF Forward, Step, Lands
  <2> HIDE DEF y, y1, more, n
  <2>7. /\ MonthsIn(r.value) = n /\ MonthsIn(more) = n
        /\ FieldOr0(r.value, "days") = 0 /\ FieldOr0(more, "days") = 0
    BY <1>1, <2>5 DEF MonthsIn, n
  <2> DEFINE k == 7 * y
             k1 == 7 * y1
  <2>8. k \in Int /\ k1 \in Int /\ 0 + k = DaysIn(r.value) /\ 0 + k1 = DaysIn(more)
    BY <2>5, <2>6, <2>7, SMT DEF DaysIn
  <2> HIDE DEF k, k1
  <2>9. Number(r.trunc) = Number(i) + k /\ Number(r.expand) = Number(i) + k1
    BY <2>3, <2>4 DEF k, k1
  <2>10. Leads(b, n, 0 + k, r.trunc) /\ Leads(b, n, 0 + k1, r.expand)
    <3>1. 0 \in Int /\ IsInterim(r.trunc) /\ IsInterim(r.expand)
      BY <2>3, <2>6, SMT
    <3> QED BY <1>1, <2>8, <2>9, <3>1, MoreDaysLead, SMT
  <2>11. AfterWeeks(r, units, b, a, neg)
    BY <2>5, <2>7, <2>8, <2>10 DEF AfterWeeks
  <2>12. NextLeads(r, "weeks", b, a, neg)
    BY <2>5, <2>7, <2>8, <2>10 DEF NextLeads, more
  <2> QED BY <2>11, <2>12
<1> QED BY <1>3, <1>4

\* InterimDate::days_diff within date_diff; in days nothing is left over.
LEMMA TakesDays ==
    ASSUME NEW units, NEW a, IsDate(a), NEW b, IsDate(b), NEW neg \in BOOLEAN,
           NEW acc, AfterWeeks(acc, units, b, a, neg),
           NEW r, r = TakeUnit(acc, "days", a, 1, units, neg), r.ok
    PROVE  AfterDays(r, units, b, a, neg) /\ ("days" \in units => NextLeads(r, "days", b, a, neg))
<1> DEFINE i == acc.trunc
           n == MonthsIn(acc.value)
           w == FieldOr0(acc.value, "weeks") * 7
<1>1. /\ OnTheWay(acc, units, a, neg) /\ Leads(b, n, DaysIn(acc.value), i)
      /\ FieldOr0(acc.value, "days") = 0
  BY DEF AfterWeeks
<1>2. Reaches(i, a, neg) /\ IsInterim(i) /\ FieldOr0(acc.value, "weeks") \in Int
  BY <1>1, FieldType DEF OnTheWay, Reaches
<1>3. w \in Int /\ DaysIn(acc.value) = w
  BY <1>1, <1>2, SMT DEF DaysIn
<1>4. CASE "days" \notin units
  <2>1. r = acc
    BY <1>4, UnitSkipped
  <2> QED BY <1>1, <1>4, <2>1 DEF AfterDays
<1>5. CASE "days" \in units
  <2> DEFINE e == UnitDiff("days", a, i, 1, neg)
             st == Step(1, neg)
             y == e.value
             y1 == e.value + st
             more == OneMore(r, "days", neg)
  <2>1. e = days_diff(a, i, 1, neg)
    BY DEF UnitDiff
  <2> HIDE DEF e
  <2>2. Took(acc, r, "days", e)
    BY <1>5, UnitTaken DEF e
  <2>3. e.ok /\ r.trunc = e.trunc /\ r.expand = e.expand
    BY <2>2 DEF Took
  <2> HIDE DEF i, w
  <2>4. /\ Forward(e.value, neg) /\ Lands(e, a, neg) /\ Reaches(e.trunc, a, neg)
        /\ Number(e.trunc) = Number(i) + y /\ Number(e.expand) = Number(i) + y1
        /\ Number(e.trunc) = unix_days(a)
    <3>1. 1 \in Nat \ {0}
      BY SMT
    <3> QED BY <1>2, <2>1, <2>3, <3>1, DaysLand, SMT
  <2>5. /\ OnTheWay(r, units, a, neg) /\ Lands(r, a, neg)
        /\ FieldOr0(r.value, "days") = y
        /\ \A u : u # "days" => FieldOr0(r.value, u) = FieldOr0(acc.value, u)
        /\ FieldOr0(more, "days") = y1
        /\ \A u : u # "days" => FieldOr0(more, u) = FieldOr0(acc.value, u)
    <3>1. OnTheWay(r, units, a, neg) /\ Lands(r, a, neg) /\ Added(acc, r, "days", e.value, neg)
      BY <1>1, <1>5, <2>2, <2>4, TakenOnTheWay
    <3> QED BY <3>1 DEF Added
  <2>6. y \in Int /\ y1 \in Int /\ IsInterim(e.trunc) /\ IsInterim(e.expand)
    BY <2>4, SMT DEF Forward, Step, Lands
  <2> HIDE DEF y, y1, more, n
  <2>7. /\ MonthsIn(r.value) = n /\ MonthsIn(more) = n
        /\ DaysIn(r.value) = w + y /\ DaysIn(more) = w + y1
    BY <1>1, <2>5 DEF MonthsIn, DaysIn, n, w
  <2>8. Leads(b, n, w + y, r.trunc) /\ Leads(b, n, w + y1, r.expand)
    <3>1. /\ IsInterim(r.trunc) /\ IsInterim(r.expand) /\ Leads(b, n, w, i)
          /\ Number(r.trunc) = Number(i) + y /\ Number(r.expand) = Number(i) + y1
      BY <1>1, <1>3, <2>3, <2>4, <2>6
    <3> QED BY <1>3, <2>6, <3>1, MoreDaysLead, SMT
  <2>9. AfterDays(r, units, b, a, neg)
    BY <2>3, <2>4, <2>5, <2>7, <2>8 DEF AfterDays
  <2>10. NextLeads(r, "days", b, a, neg)
    BY <2>5, <2>7, <2>8 DEF NextLeads, more
  <2> QED BY <2>9, <2>10
<1> QED BY <1>4, <1>5

\* All the units of date_diff, and the smallest of them.
LEMMA DifferenceLeads ==
    ASSUME NEW units \in (SUBSET Names(CalendarUnit)) \ {{}}, NEW a, IsDate(a), NEW b, IsDate(b),
           NEW neg \in BOOLEAN, Reaches(b, a, neg), NEW d, d = date_diff(a, b, 1, units, neg), d.ok
    PROVE  /\ AfterDays(d, units, b, a, neg)
           /\ smallest(CalendarUnit, units) \in units
           /\ NextLeads(d, smallest(CalendarUnit, units), b, a, neg)
<1> DEFINE z == Diff([u \in units |-> 0], b, a)
           y == TakeUnit(z, "years", a, 1, units, neg)
           m == TakeUnit(y, "months", a, 1, units, neg)
           w == TakeUnit(m, "weeks", a, 1, units, neg)
           last == smallest(CalendarUnit, units)
<1>1. d = TakeUnit(w, "days", a, 1, units, neg)
  BY DEF date_diff
<1> HIDE DEF z, y, m, w
<1>2. w.ok
  BY <1>1, UnitNeedsOk
<1>3. m.ok
  BY <1>2, UnitNeedsOk DEF w
<1>4. y.ok
  BY <1>3, UnitNeedsOk DEF m
<1>5. AfterYears(y, units, b, a, neg) /\ ("years" \in units => NextLeads(y, "years", b, a, neg))
  BY <1>4, TakesYears DEF y, z
<1>6. AfterMonths(m, units, b, a, neg) /\ ("months" \in units => NextLeads(m, "months", b, a, neg))
  BY <1>3, <1>5, TakesMonths DEF m
<1>7. AfterWeeks(w, units, b, a, neg) /\ ("weeks" \in units => NextLeads(w, "weeks", b, a, neg))
  BY <1>2, <1>6, TakesWeeks DEF w
<1>8. AfterDays(d, units, b, a, neg) /\ ("days" \in units => NextLeads(d, "days", b, a, neg))
  <2> DEFINE x == TakeUnit(w, "days", a, 1, units, neg)
  <2> HIDE DEF x
  <2>1. x = d /\ x.ok
    BY <1>1 DEF x
  <2>2. AfterDays(x, units, b, a, neg) /\ ("days" \in units => NextLeads(x, "days", b, a, neg))
    BY <1>7, <2>1, TakesDays DEF x
  <2> QED BY <2>1, <2>2
<1>9. CASE "days" \in units
  BY <1>8, <1>9, SmallestUnit
<1>10. CASE "weeks" \in units /\ "days" \notin units
  <2>1. d = w
    BY <1>1, <1>10, UnitSkipped
  <2> QED BY <1>7, <1>8, <1>10, <2>1, SmallestUnit
<1>11. CASE "months" \in units /\ {"weeks", "days"} \cap units = {}
  <2>1. d = w /\ w = m
    BY <1>1, <1>11, UnitSkipped DEF w
  <2>2. last = "months"
    BY <1>11, SmallestUnit
  <2> QED BY <1>6, <1>8, <1>11, <2>1, <2>2
<1>12. CASE "years" \in units /\ {"months", "weeks", "days"} \cap units = {}
  <2>1. d = w /\ w = m /\ m = y
    BY <1>1, <1>12, UnitSkipped DEF w, m
  <2>2. last = "years"
    BY <1>12, SmallestUnit
  <2> QED BY <1>5, <1>8, <1>12, <2>1, <2>2
<1>13. Names(CalendarUnit) = {"years", "months", "weeks", "days"}
  BY SMT DEF Names, CalendarUnit
<1>14. \/ "days" \in units
       \/ "weeks" \in units /\ "days" \notin units
       \/ "months" \in units /\ {"weeks", "days"} \cap units = {}
       \/ "years" \in units /\ {"months", "weeks", "days"} \cap units = {}
  <2>1. units # {} /\ units \subseteq {"years", "months", "weeks", "days"}
    BY <1>13
  <2>2. \E u \in units : u \in {"years", "months", "weeks", "days"}
    BY <2>1
  <2> QED BY <2>2, SMT
<1> QED BY <1>9, <1>10, <1>11, <1>12, <1>14

\* date_diff returns a difference or None.
IsDiff(d) == d = Diff(d.value, d.trunc, d.expand) \/ d = NoDiff

\* Each unit leaves a difference or None.
LEMMA TakesDiff ==
    ASSUME NEW units, NEW acc, IsDiff(acc), NEW unit, NEW a, NEW neg
    PROVE  IsDiff(TakeUnit(acc, unit, a, 1, units, neg))
<1> DEFINE e == UnitDiff(unit, a, acc.trunc, IF unit = smallest(CalendarUnit, units) THEN 1 ELSE 1, neg)
           v == [acc.value EXCEPT ![unit] = e.value]
           r == TakeUnit(acc, unit, a, 1, units, neg)
<1>1. r = acc \/ r = Further(acc, unit, e)
  BY DEF TakeUnit
<1> HIDE DEF e
<1>2. Further(acc, unit, e) = Diff(v, e.trunc, e.expand) \/ Further(acc, unit, e) = NoDiff
  BY DEF Further
<1> HIDE DEF v, r
<1>3. ASSUME NEW x, NEW t, NEW y
      PROVE  IsDiff(Diff(x, t, y))
  BY DEF IsDiff, Diff
<1>4. IsDiff(NoDiff)
  BY DEF IsDiff
<1>5. IsDiff(r)
  BY <1>1, <1>2, <1>3, <1>4
<1> QED BY <1>5 DEF r

\* So do all of them.
LEMMA DifferenceIsDiff ==
    ASSUME NEW units, NEW a, NEW b, NEW neg
    PROVE  IsDiff(date_diff(a, b, 1, units, neg))
<1> DEFINE z == Diff([u \in units |-> 0], b, a)
           y == TakeUnit(z, "years", a, 1, units, neg)
           m == TakeUnit(y, "months", a, 1, units, neg)
           w == TakeUnit(m, "weeks", a, 1, units, neg)
<1>1. date_diff(a, b, 1, units, neg) = TakeUnit(w, "days", a, 1, units, neg)
  BY DEF date_diff
<1>2. IsDiff(z)
  BY DEF IsDiff, Diff
<1> HIDE DEF z, y, m, w
<1>3. IsDiff(y)
  BY <1>2, TakesDiff DEF y
<1>4. IsDiff(m)
  BY <1>3, TakesDiff DEF m
<1>5. IsDiff(w)
  BY <1>4, TakesDiff DEF w
<1>6. IsDiff(TakeUnit(w, "days", a, 1, units, neg))
  BY <1>5, TakesDiff
<1> QED BY <1>1, <1>6

\* Truncating keeps what date_diff found.
LEMMA TruncKeeps ==
    ASSUME NEW units, NEW a, NEW b, NEW d, d = date_diff(a, b, 1, units, DateLess(a, b)),
           NEW s, s = date_since_iddelta(a, b, units, "trunc", 1), s.ok,
           d.ok => d.value \in [units -> Int] /\ smallest(CalendarUnit, units) \in units
    PROVE  d.ok /\ s.value = d.value
<1> DEFINE neg == DateLess(a, b)
           last == smallest(CalendarUnit, units)
           v == d.value[last]
           rounded == round_by_days(v, a, d.trunc, d.expand, to_abs_trunc("trunc", neg), 1, neg)
<1>1. s = RoundLast(d, a, last, to_abs_trunc("trunc", neg), 1, neg)
  BY DEF date_since_iddelta
<1>2. d.ok /\ s = [d EXCEPT !.value[last] = rounded]
  BY <1>1, SMT DEF RoundLast, NoDiff
<1>3. to_abs_trunc("trunc", neg) = "trunc"
  BY DEF to_abs_trunc
<1>4. rounded = v + 0
  <2> HIDE DEF v, neg
  <2>1. rounded = v + IF DoExpand(v, Distance(unix_days(a), unix_days(InterimResolve(d.trunc))),
                        Distance(unix_days(InterimResolve(d.expand)), unix_days(InterimResolve(d.trunc))), "trunc", 1)
                      THEN Step(1, neg) ELSE 0
    BY <1>3 DEF round_by_days, RoundByDistance
  <2> QED BY <2>1 DEF DoExpand
<1>5. d.value \in [units -> Int] /\ last \in units
  BY <1>2
<1>6. rounded = v
  <2>1. v \in Int
    BY <1>5
  <2> HIDE DEF v, rounded
  <2> QED BY <1>4, <2>1, SMT
<1>7. d = Diff(d.value, d.trunc, d.expand)
  BY <1>2, DifferenceIsDiff DEF IsDiff, NoDiff
<1>8. s.value = [d.value EXCEPT ![last] = rounded]
  <2> HIDE DEF rounded, last
  <2>1. d = [ok |-> TRUE, value |-> d.value, trunc |-> d.trunc, expand |-> d.expand]
    BY <1>7 DEF Diff
  <2> QED BY <1>2, <2>1
<1>9. [d.value EXCEPT ![last] = v] = d.value
  BY <1>5
<1> QED BY <1>2, <1>6, <1>8, <1>9
=============================================================================
