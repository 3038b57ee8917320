--------------------------- MODULE CalendarProofs ---------------------------
(***************************************************************************)
(* Dates and POSIX TZ strings through any calls, proved for every date of  *)
(* the supported range and every argument: TLC checks the dates of one     *)
(* cycle of 400 years and at the ends of the range.                        *)
(*                                                                         *)
(*  - Every operation keeps the objects valid dates (DatesInv), so what    *)
(*    holds of every date is an invariant of the run (CalendarAlwaysCounts,*)
(*    WeekdaysAlwaysCount).                                                *)
(*  - The deprecated difference of two dates (MinusAddsBack).              *)
(*  - Differences in calendar units (Date.since, Date.until): they add     *)
(*    back (DifferencesAddBack), and rounding by the days between the two  *)
(*    neighbours of a quotient follows the mode (NeighbourByMode,          *)
(*    DifferencesRound).                                                   *)
(*  - POSIX TZ strings: the lookup by local time inverts the one by        *)
(*    instant (StringMappingInverts, FooterAlwaysInverts).  The two ask    *)
(*    the rules of different years around New Year; the rules of both      *)
(*    years answer alike there (RulesOfNearYear).  A file hands over to    *)
(*    its string at different times by instant and by local time; neither  *)
(*    loses nor adds an offset (TableInverts, BeyondTableInverts).  And no *)
(*    change of offset escapes the searches for the next and the previous  *)
(*    one (StringFindsEveryChange, FooterAlwaysFindsChanges).  A rule is   *)
(*    for the hour that its text describes (RuleReads), and the offset is  *)
(*    that of the last such hour (OffsetAlwaysFollowsRules).               *)
(***************************************************************************)
EXTENDS MCCalendar, DateProofs, TimeZoneProofs

-----------------------------------------------------------------------------
\* The object and the argument of a call are dates of the range, whatever was
\* called before.
DatesInv == IsDate(obj) /\ IsDate(other)

\* An operation that returns a date or None keeps the objects dates.
LEMMA ReturnKeeps ==
    ASSUME NEW date, NEW error, Returns(date), DatesInv, Return(date, error)
    PROVE  DatesInv'
  BY SMT DEF DatesInv, Returns, Return

\* nth_weekday and nth_weekday_of_month return a date or None.
LEMMA NthWeekdayReturns ==
    ASSUME NEW d, IsDate(d), NEW n \in Int, NEW dow \in Weekdays
    PROVE  Returns(nth_weekday_of_month(d, n, dow)) /\ Returns(nth_weekday(d, n, dow))
<1>1. dow \in Int /\ d.year \in Int /\ d.month \in Int /\ d.month \in Months
  BY PartsOfDate, SMT DEF Weekdays, Months
<1>2. ASSUME NEW k \in Int
      PROVE  (dow - day_of_week(k)) % 7 \in 0 .. 6 /\ (day_of_week(k) - dow) % 7 \in 0 .. 6
  <2>1. day_of_week(k) \in 1 .. 7
    BY WeekdayStep, SMT
  <2> QED BY <1>1, <2>1, SMT
<1>3. Returns(nth_weekday_of_month(d, n, dow))
  <2> DEFINE x == days_in_month(d.year, d.month)
             a == unix_days(Date(d.year, d.month, 1))
             b == unix_days(Date(d.year, d.month, x))
             first == 1 + ((dow - day_of_week(a)) % 7)
             last == x - ((day_of_week(b) - dow) % 7)
             k == IF n > 0 THEN first + (n - 1) * 7 ELSE last + (n + 1) * 7
  <2>1. x \in Int
    BY <1>1, MonthLength, SMT
  <2>2. a \in Int /\ b \in Int
    <3>1. IsDate(Date(d.year, d.month, 1)) /\ IsDate(Date(d.year, d.month, x))
      <4>1. d.year \in Years /\ x \in 28 .. 31
        BY <1>1, PartsOfDate, InYears, MonthLength, SMT
      <4>2. x \in 1 .. 31 /\ 1 \in 1 .. 31 /\ 1 <= x /\ x <= x
        BY <4>1, SMT
      <4> QED BY <1>1, <4>1, <4>2, MakesDate, SMT
    <3> QED BY <3>1, UnixDaysType, SMT
  <2>3. nth_weekday_in_month(d.year, d.month, n, dow) = NewDate(d.year, d.month, k)
    BY SMT DEF nth_weekday_in_month
  <2> HIDE DEF a, b
  <2>4. first \in Int /\ last \in Int
    BY <1>2, <2>1, <2>2, SMT
  <2> HIDE DEF first, last
  <2>5. k \in Int
    BY <2>4, SMT
  <2> HIDE DEF k
  <2>6. Returns(NewDate(d.year, d.month, k))
    BY <1>1, <2>5, NewDateReturns, SMT
  <2> QED BY <2>3, <2>6, SMT DEF nth_weekday_of_month, Returns
<1>4. Returns(nth_weekday(d, n, dow))
  <2> DEFINE dist == (dow - day_of_week(unix_days(d))) % 7
             ahead == IF dist = 0 THEN 7 ELSE dist
             back == IF dist = 0 THEN 7 ELSE 7 - dist
             days == IF n > 0 THEN ahead + (n - 1) * 7 ELSE -(back + (-n - 1) * 7)
  <2>1. dist \in 0 .. 6
    BY <1>2, UnixDaysType, SMT
  <2>2. nth_weekday(d, n, dow) = ShiftDate(d, 0, days) \/ nth_weekday(d, n, dow) = NoDate
    <3> DEFINE allowed == n # 0 /\ n \in NthWeeks /\ days \in DeltaDays
    <3>1. nth_weekday(d, n, dow) = IF allowed THEN ShiftDate(d, 0, days) ELSE NoDate
      BY SMT DEF nth_weekday
    <3> HIDE DEF allowed, days
    <3> QED BY <3>1, SMT
  <2> HIDE DEF dist
  <2>3. days \in Int
    BY <2>1, SMT
  <2> HIDE DEF days
  <2>4. Returns(ShiftDate(d, 0, days))
    BY <2>3, ShiftReturns, SMT
  <2> QED BY <2>2, <2>4, SMT DEF Returns
<1> QED BY <1>3, <1>4

\* The objects the run begins with are dates.
LEMMA InitDates == MCInit => DatesInv
<1> SUFFICES ASSUME MCInit
             PROVE  DatesInv
  BY SMT
<1>1. /\ IsDate(DateMin) /\ IsDate(DateMax) /\ IsDate(CycleStart) /\ IsDate(ZoneStart)
  <2>1. /\ 1 \in Years /\ 9999 \in Years /\ 1999 \in Years /\ 2023 \in Years
        /\ 1 \in Months /\ 12 \in Months /\ 1 \in 1 .. 31 /\ 31 \in 1 .. 31
    BY InYears, SMT DEF Months
  <2>2. /\ 1 <= days_in_month(1, 1) /\ 31 <= days_in_month(9999, 12)
        /\ 31 <= days_in_month(1999, 12) /\ 1 <= days_in_month(2023, 1)
    <3>1. \A y \in Int : days_in_month(y, 12) = 31 /\ days_in_month(y, 1) \in 28 .. 31
      BY <2>1, MonthLength, SMT
    <3> QED BY <3>1, SMT
  <2> QED BY <2>1, <2>2, MakesDate, SMT DEF DateMin, DateMax, CycleStart, ZoneStart
<1>2. unix_days(DateMax) = 2932896
  BY SMT DEF unix_days, DateMax, Date, days_before, days_before_month, DaysBeforeMonth, Truth,
             is_leap, UnixDaysMin
<1>3. EdgeDays \in Int /\ 1 <= EdgeDays /\ EdgeDays <= 3652058
  <2>1. UnixDaysMax - UnixDaysMin = 3652058
    BY SMT DEF UnixDaysMax, UnixDaysMin
  <2> QED BY <2>1, EdgeAssumption, SMT
<1>4. IsDate(shift_days(DateMax, 1 - EdgeDays)) /\ IsDate(shift_days(DateMax, -EdgeDays))
  <2>1. 1 - EdgeDays \in Int /\ -EdgeDays \in Int
    BY <1>3, SMT
  <2>2. unix_days(DateMax) + (1 - EdgeDays) \in UnixDays /\ unix_days(DateMax) + (-EdgeDays) \in UnixDays
    <3>1. /\ unix_days(DateMax) + (1 - EdgeDays) = 2932897 - EdgeDays
          /\ unix_days(DateMax) + (-EdgeDays) = 2932896 - EdgeDays
      BY <1>2, <1>3, SMT
    <3>2. 2932897 - EdgeDays \in UnixDays /\ 2932896 - EdgeDays \in UnixDays
      BY <1>3, InUnixDays, SMT
    <3> QED BY <3>1, <3>2, SMT
  <2> QED BY <1>1, <2>1, <2>2, ShiftDaysAdds, SMT
<1>5. CASE InitZone /\ InitWalk
  <2>1. other = obj
    BY <1>5, SMT DEF InitWalk
  <2>2. obj \in ZoneStarts \/ obj = ZoneStart
    BY <1>5 DEF InitZone
  <2> QED BY <1>1, <1>4, <2>1, <2>2, SMT DEF ZoneStarts, DatesInv
<1>6. CASE Init
  BY <1>6, DatesAssumption, SMT DEF Init, DatesInv
<1>7. CASE obj \in MCWalkStarts /\ InitWalk
  BY <1>1, <1>4, <1>7, SMT DEF InitWalk, MCWalkStarts, DatesInv
<1> QED BY <1>5, <1>6, <1>7 DEF MCInit

\* Every operation keeps the objects dates.
LEMMA NextDates == DatesInv /\ [MCNext]_mcvars => DatesInv'
<1> SUFFICES ASSUME DatesInv, [MCNext]_mcvars
             PROVE  DatesInv'
  BY SMT
<1>0. IsDate(obj) /\ IsDate(other)
  BY SMT DEF DatesInv
<1>f. obj.year \in Int /\ obj.month \in Int /\ obj.day \in Int
  BY <1>0, PartsOfDate, SMT
<1>1. CASE Walk
  <2>1. obj' = tomorrow(obj) /\ obj' # NoDate /\ other' = other
    BY <1>1, SMT DEF Walk
  <2>2. IsDate(tomorrow(obj))
    BY <1>0, <2>1, TomorrowIsNext, SMT
  <2> QED BY <1>0, <2>1, <2>2, SMT DEF DatesInv
<1>2. CASE New
  <2>1. PICK f \in Fields : Return(NewDate(f.year, f.month, f.day), "value")
    BY <1>2, SMT DEF New
  <2>2. f.year \in Int /\ f.month \in Int /\ f.day \in Int
    BY DatesAssumption, SMT
  <2> QED BY <2>1, <2>2, NewDateReturns, ReturnKeeps, SMT
<1>3. CASE Replace
  <2>1. PICK field \in {"year", "month", "day"} : ReplaceField(field)
    BY <1>3, SMT DEF Replace
  <2>2. PICK f \in Fields :
            Return(NewDate([obj EXCEPT ![field] = f[field]].year, [obj EXCEPT ![field] = f[field]].month,
                           [obj EXCEPT ![field] = f[field]].day), "value")
    BY <2>1, SMT DEF ReplaceField
  <2> DEFINE d == [obj EXCEPT ![field] = f[field]]
  <2>3. f[field] \in Int
    BY DatesAssumption, SMT
  <2>4. obj \in [year : Years, month : Months, day : 1 .. 31]
    BY <1>0, SMT DEF IsDate
  <2>5. d.year \in Int /\ d.month \in Int /\ d.day \in Int
    BY <1>f, <2>3, <2>4, SMT
  <2> HIDE DEF d
  <2>6. Returns(NewDate(d.year, d.month, d.day))
    BY <2>5, NewDateReturns, SMT
  <2> QED BY <2>2, <2>6, ReturnKeeps, SMT DEF d
<1>4. CASE NextDay
  <2>1. Returns(ShiftDate(obj, 0, 1))
    BY <1>0, ShiftReturns, SMT
  <2> QED BY <1>4, <2>1, ReturnKeeps, SMT DEF NextDay
<1>5. CASE PrevDay
  <2>1. Returns(ShiftDate(obj, 0, -1))
    BY <1>0, ShiftReturns, SMT
  <2> QED BY <1>5, <2>1, ReturnKeeps, SMT DEF PrevDay
<1>6. CASE NthWeekdayOfMonth
  <2>1. PICK n \in WeekdayNs, dow \in Weekdays : Return(nth_weekday_of_month(obj, n, dow), "value")
    BY <1>6, SMT DEF NthWeekdayOfMonth
  <2>2. Returns(nth_weekday_of_month(obj, n, dow))
    BY <1>0, DatesAssumption, NthWeekdayReturns, SMT
  <2> QED BY <2>1, <2>2, ReturnKeeps, SMT
<1>7. CASE NthWeekdayAfter
  <2>1. PICK n \in WeekdayNs, dow \in Weekdays :
            Return(nth_weekday(obj, n, dow), IF n = 0 \/ n \notin NthWeeks THEN "value" ELSE "range")
    BY <1>7, SMT DEF NthWeekdayAfter
  <2>2. Returns(nth_weekday(obj, n, dow))
    BY <1>0, DatesAssumption, NthWeekdayReturns, SMT
  <2> QED BY <2>1, <2>2, ReturnKeeps, SMT
<1>8. CASE StartOf
  <2>1. PICK unit \in DateBoundaryUnit : Return(DateStartOf(obj, unit), "range")
    BY <1>8, SMT DEF StartOf
  <2> QED BY <1>0, <2>1, BoundaryReturns, ReturnKeeps, SMT
<1>9. CASE EndOf
  <2>1. PICK unit \in DateBoundaryUnit : Return(DateEndOf(obj, unit), "range")
    BY <1>9, SMT DEF EndOf
  <2> QED BY <1>0, <2>1, BoundaryReturns, ReturnKeeps, SMT
<1>10. CASE Shift
  <2>1. PICK s \in Shifts, negate \in BOOLEAN :
            Return(shift_by(obj, CalendarShiftNegateIf(s, negate)), "range")
    BY <1>10, SMT DEF Shift
  <2> DEFINE c == CalendarShiftNegateIf(s, negate)
  <2>2. s.months \in Int /\ s.days \in Int
    <3>1. s.months \in DeltaMonths /\ s.days \in DeltaDays
      BY DatesAssumption, SMT
    <3> QED BY <3>1, DeltasAreInt, Zenon
  <2>3. c.months \in Int /\ c.days \in Int
    BY <2>2, SMT DEF CalendarShiftNegateIf
  <2> HIDE DEF c
  <2>4. Returns(shift_by(obj, c))
    <3>1. Returns(ShiftDate(obj, c.months, c.days))
      BY <1>0, <2>3, ShiftReturns, SMT
    <3> QED BY <3>1, SMT DEF shift_by, Returns
  <2> QED BY <2>1, <2>4, ReturnKeeps, SMT DEF c
<1>11. CASE Keep
  BY <1>0, <1>11, SMT DEF Keep, DatesInv
<1>12. CASE Minus
  BY <1>0, <1>12, SMT DEF Minus, DatesInv
<1>13. CASE Since
  <2>1. obj' = obj /\ other' = other
    BY <1>13 DEF Since, ReturnDelta
  <2> QED BY <1>0, <2>1, SMT DEF DatesInv
<1>14. CASE UNCHANGED mcvars
  BY <1>0, <1>14, SMT DEF mcvars, vars, DatesInv
<1> QED
  BY <1>1, <1>2, <1>3, <1>4, <1>5, <1>6, <1>7, <1>8, <1>9, <1>10, <1>11, <1>12, <1>13, <1>14
  DEF MCNext, Next

\* The objects are always dates.
LEMMA DatesInvariance == MCSpec => []DatesInv
  BY InitDates, NextDates, PTL DEF MCSpec

\* The calendar counts days right for every date, not only those of one cycle.
LEMMA CountsDays == DatesInv => CalendarCountsDays
<1> SUFFICES ASSUME DatesInv
             PROVE  CalendarCountsDays
  BY SMT
<1> DEFINE n == unix_days(obj)
<1>1. IsDate(obj)
  BY SMT DEF DatesInv
<1>2. n \in UnixDays /\ UnixDaysDate(n) = obj /\ n \in Int
  BY <1>1, UnixDaysInRange, UnixDaysDateInverts, UnixDaysType, SMT
<1>3. obj = Date(obj.year, 1, 1) => day_of_year(obj) = 1
  <2> SUFFICES ASSUME obj = Date(obj.year, 1, 1)
               PROVE  day_of_year(obj) = 1
    BY SMT
  <2>1. obj.month = 1 /\ obj.day = 1
    BY DateFields, SMT
  <2>2. days_before_month(obj.year, 1) = 0
    <3>1. obj.year \in Int /\ 1 \in Months
      BY <1>1, PartsOfDate, SMT DEF Months
    <3> QED BY <3>1, MonthLength, SMT
  <2> QED BY <2>1, <2>2, SMT DEF day_of_year
<1>4. day_of_week(n + 1) = (day_of_week(n) % 7) + 1
  BY <1>2, WeekdayStep, SMT
<1>5. /\ obj # DateMax => unix_days(tomorrow(obj)) = n + 1 /\ yesterday(tomorrow(obj)) = obj
      /\ obj = DateMax => tomorrow(obj) = NoDate
      /\ obj # DateMax /\ tomorrow(obj).year = obj.year => day_of_year(tomorrow(obj)) = day_of_year(obj) + 1
  BY <1>1, TomorrowIsNext, SMT
<1> QED BY <1>2, <1>3, <1>4, <1>5, SMT DEF CalendarCountsDays

\* The calendar counts days right in every reachable state: to a number and back,
\* and to the next day and back.  No bound on the dates is left: CountsDays needs
\* only that the object is a date.
THEOREM CalendarAlwaysCounts == MCSpec => []CalendarCountsDays
  BY DatesInvariance, CountsDays, PTL

-----------------------------------------------------------------------------
\* Two numbers have one weekday exactly when they are whole weeks apart.
LEMMA SameWeekday ==
    ASSUME NEW a \in Int, NEW k \in Int
    PROVE  /\ day_of_week(k) = day_of_week(a) => \E j \in Int : k = a + 7 * j
           /\ \A j \in Int : k = a + 7 * j => day_of_week(k) = day_of_week(a)
<1>1. PICK p \in Int, r \in 0 .. 6 : a + 3 = 7 * p + r
  <2>1. (a + 3) \div 7 \in Int /\ (a + 3) % 7 \in 0 .. 6 /\ a + 3 = 7 * ((a + 3) \div 7) + ((a + 3) % 7)
    BY SMT
  <2> QED BY <2>1, SMT
<1>2. PICK q \in Int, t \in 0 .. 6 : k + 3 = 7 * q + t
  <2>1. (k + 3) \div 7 \in Int /\ (k + 3) % 7 \in 0 .. 6 /\ k + 3 = 7 * ((k + 3) \div 7) + ((k + 3) % 7)
    BY SMT
  <2> QED BY <2>1, SMT
<1>3. day_of_week(a) = r + 1 /\ day_of_week(k) = t + 1
  BY <1>1, <1>2, SMT DEF day_of_week
<1>4. r = t => k = a + 7 * (q - p) /\ q - p \in Int
  BY <1>1, <1>2, SMT
<1>5. ASSUME NEW j \in Int, k = a + 7 * j
      PROVE  r = t
  BY <1>1, <1>2, <1>5, SMT
<1>6. ASSUME day_of_week(k) = day_of_week(a)
      PROVE  \E j \in Int : k = a + 7 * j
  <2>1. r = t
    BY <1>3, <1>6, SMT
  <2> QED BY <1>4, <2>1
<1>7. ASSUME NEW j \in Int, k = a + 7 * j
      PROVE  day_of_week(k) = day_of_week(a)
  BY <1>3, <1>5, <1>7
<1> QED BY <1>6, <1>7

\* Named days from lo to hi
Named(lo, hi, dow) == Cardinality({k \in lo .. hi : day_of_week(k) = dow})

\* There are n days of a name in an interval that begins in the week before the
\* first of them and ends in the week after the last.
LEMMA WeekdaysCounted ==
    ASSUME NEW lo \in Int, NEW hi \in Int, NEW a \in Int, lo <= a, a <= lo + 6,
           NEW n \in Nat, a + 7 * (n - 1) <= hi, hi < a + 7 * n,
           NEW dow, day_of_week(a) = dow
    PROVE  Named(lo, hi, dow) = n
<1> DEFINE S == {k \in lo .. hi : day_of_week(k) = dow}
           f == [i \in 1 .. n |-> a + 7 * (i - 1)]
<1>1. ASSUME NEW i \in 1 .. n
      PROVE  a + 7 * (i - 1) \in S
  <2>1. a + 7 * (i - 1) \in lo .. hi /\ i - 1 \in Int /\ a + 7 * (i - 1) \in Int
    BY SMT
  <2>2. day_of_week(a + 7 * (i - 1)) = dow
    BY <2>1, SameWeekday, SMT
  <2> QED BY <2>1, <2>2, SMT
<1>2. f \in [1 .. n -> S]
  <2> HIDE DEF S
  <2> QED BY <1>1, SMT
<1>3. \A i, j \in 1 .. n : f[i] = f[j] => i = j
  BY SMT
<1>4. \A k \in S : \E i \in 1 .. n : f[i] = k
  <2> TAKE k \in S
  <2>1. k \in Int /\ lo <= k /\ k <= hi /\ day_of_week(k) = day_of_week(a)
    BY SMT
  <2>2. PICK j \in Int : k = a + 7 * j
    BY <2>1, SameWeekday, SMT
  <2>3. j + 1 \in 1 .. n /\ (j + 1) - 1 = j
    BY <2>1, <2>2, SMT
  <2>4. f[j + 1] = k
    BY <2>2, <2>3, SMT
  <2> QED BY <2>3, <2>4
<1> HIDE DEF S, f
<1>5. f \in Bijection(1 .. n, S)
  BY <1>2, <1>3, <1>4 DEF Bijection, Injection, Surjection, IsInjective
<1>6. ExistsBijection(1 .. n, S)
  BY <1>5 DEF ExistsBijection
<1>7. Cardinality(S) = n
  BY <1>6, FS_CountingElements
<1> QED BY <1>7 DEF S, Named

\* A shift by no months is no shift.
LEMMA ShiftNoMonths ==
    ASSUME NEW d, IsDate(d)
    PROVE  shift_months(d, 0) = d
<1> DEFINE y == d.year
           m == d.month
<1>1. d = Date(y, m, d.day) /\ y \in Int /\ m \in 1 .. 12 /\ y \in Years /\ d.day <= days_in_month(y, m)
  BY PartsOfDate, InYears, SMT
<1> HIDE DEF y, m
<1>2. y + (m + 0 - 1) \div 12 = y /\ ((m + 0 - 1) % 12) + 1 = m
  BY <1>1, SMT
<1>3. shift_months(d, 0) = IF y \in Years THEN new_clamp_days(y, m, d.day) ELSE NoDate
  BY <1>2, SMT DEF shift_months, MonthShift, y, m
<1> QED BY <1>1, <1>3, SMT DEF new_clamp_days

\* The distance to the next and to the previous day of a name.
LEMMA DistanceToWeekday ==
    ASSUME NEW u \in Int, NEW dow \in Weekdays
    PROVE  /\ (dow - day_of_week(u)) % 7 \in 0 .. 6
           /\ day_of_week(u + ((dow - day_of_week(u)) % 7)) = dow
           /\ (day_of_week(u) - dow) % 7 \in 0 .. 6
           /\ day_of_week(u - ((day_of_week(u) - dow) % 7)) = dow
<1>1. PICK q \in Int, r \in 0 .. 6 : u + 3 = 7 * q + r
  <2>1. (u + 3) \div 7 \in Int /\ (u + 3) % 7 \in 0 .. 6 /\ u + 3 = 7 * ((u + 3) \div 7) + ((u + 3) % 7)
    BY SMT
  <2> QED BY <2>1, SMT
<1>2. day_of_week(u) = r + 1
  BY <1>1, SMT DEF day_of_week
<1>3. dow \in 1 .. 7
  BY SMT DEF Weekdays
<1>4. /\ (dow - (r + 1)) % 7 = IF dow >= r + 1 THEN dow - (r + 1) ELSE dow - (r + 1) + 7
      /\ ((r + 1) - dow) % 7 = IF r + 1 >= dow THEN (r + 1) - dow ELSE (r + 1) - dow + 7
  BY <1>3, SMT
<1> DEFINE e == (dow - (r + 1)) % 7
           f == ((r + 1) - dow) % 7
<1>5. e \in 0 .. 6 /\ (e = dow - (r + 1) \/ e = dow - (r + 1) + 7)
  BY <1>3, <1>4, SMT
<1>6. f \in 0 .. 6 /\ (f = (r + 1) - dow \/ f = (r + 1) - dow + 7)
  BY <1>3, <1>4, SMT
<1> HIDE DEF e, f
<1>7. day_of_week(u + e) = dow
  BY <1>1, <1>3, <1>5, SMT DEF day_of_week
<1>8. day_of_week(u - f) = dow
  BY <1>1, <1>3, <1>6, SMT DEF day_of_week
<1> QED BY <1>2, <1>5, <1>6, <1>7, <1>8, SMT DEF e, f

\* Date::nth_weekday, for every date and number
LEMMA NthWeekdayAfterCounts ==
    ASSUME NEW d, IsDate(d), NEW n \in Int \ {0}, NEW dow \in Weekdays,
           NEW e, e = nth_weekday(d, n, dow), e # NoDate
    PROVE  /\ day_of_week(unix_days(e)) = dow
           /\ n > 0 => Named(unix_days(d) + 1, unix_days(e), dow) = n
           /\ n < 0 => Named(unix_days(e), unix_days(d) - 1, dow) = -n
<1> DEFINE u == unix_days(d)
           dist == (dow - day_of_week(u)) % 7
           ahead == IF dist = 0 THEN 7 ELSE dist
           back == IF dist = 0 THEN 7 ELSE 7 - dist
           days == IF n > 0 THEN ahead + (n - 1) * 7 ELSE -(back + (-n - 1) * 7)
           a == u + ahead
           b == unix_days(e)
<1>1. u \in Int
  BY UnixDaysType, SMT
<1>2. dist \in 0 .. 6 /\ day_of_week(u + dist) = dow
  <2> HIDE DEF u
  <2> QED BY <1>1, DistanceToWeekday, SMT
<1>3. e = ShiftDate(d, 0, days)
  <2> DEFINE allowed == n # 0 /\ n \in NthWeeks /\ days \in DeltaDays
  <2>1. nth_weekday(d, n, dow) = IF allowed THEN ShiftDate(d, 0, days) ELSE NoDate
    BY SMT DEF nth_weekday
  <2> HIDE DEF allowed, days
  <2> QED BY <2>1, SMT
<1> HIDE DEF u, dist
<1>4. ahead \in 1 .. 7 /\ back \in 1 .. 7 /\ days \in Int
  BY <1>2, SMT
<1>5. b = u + days
  <2> HIDE DEF days
  <2>1. e = shift_days(d, days)
    BY <1>3, ShiftNoMonths, NoneIsNoDate, SMT DEF ShiftDate, OrNoDate
  <2> QED BY <1>4, <2>1, ShiftDaysAdds, SMT DEF u
<1>6. (ahead = dist \/ ahead = dist + 7) /\ (back = 7 - dist \/ back = 14 - dist) /\ (ahead = 7 - back \/ ahead + back = 14)
  BY <1>2, SMT
<1>7. days = (IF n > 0 THEN ahead + 7 * (n - 1) ELSE -back - 7 * (-n - 1))
  <2> HIDE DEF ahead, back
  <2> QED BY <1>4, SMT
<1> HIDE DEF ahead, back, days, b
<1>8. day_of_week(a) = dow /\ a \in Int
  <2>1. u + dist \in Int /\ a \in Int /\ (a = (u + dist) + 7 * 0 \/ a = (u + dist) + 7 * 1)
    BY <1>1, <1>2, <1>4, <1>6, SMT
  <2> QED BY <1>2, <2>1, SameWeekday, SMT
<1>9. day_of_week(b) = dow /\ b \in Int
  <2>1. b \in Int
    BY <1>1, <1>4, <1>5, SMT
  <2>2. \E j \in Int : b = a + 7 * j
    <3>1. CASE n > 0
      <4>1. b = a + 7 * (n - 1) /\ n - 1 \in Int
        BY <1>1, <1>4, <1>5, <1>7, <3>1, SMT
      <4> QED BY <4>1
    <3>2. CASE n < 0 /\ ahead = 7 - back
      <4>1. b = a + 7 * n
        BY <1>1, <1>4, <1>5, <1>7, <3>2, SMT
      <4> QED BY <4>1
    <3>3. CASE n < 0 /\ ahead + back = 14
      <4>1. b = a + 7 * (n - 1) /\ n - 1 \in Int
        BY <1>1, <1>4, <1>5, <1>7, <3>3, SMT
      <4> QED BY <4>1
    <3> QED BY <1>6, <3>1, <3>2, <3>3, SMT
  <2> HIDE DEF a
  <2> QED BY <1>8, <2>1, <2>2, SameWeekday, SMT
<1>10. ASSUME n > 0
       PROVE  Named(u + 1, b, dow) = n
  <2>1. /\ u + 1 \in Int /\ n \in Nat /\ u + 1 <= a /\ a <= (u + 1) + 6
        /\ a + 7 * (n - 1) <= b /\ b < a + 7 * n
    BY <1>1, <1>4, <1>5, <1>7, <1>10, SMT
  <2> HIDE DEF a
  <2> QED BY <1>8, <1>9, <2>1, WeekdaysCounted, SMT
<1>11. ASSUME n < 0
       PROVE  Named(b, u - 1, dow) = -n
  <2>1. /\ u - 1 \in Int /\ -n \in Nat /\ b <= b /\ b <= b + 6
        /\ b + 7 * (-n - 1) <= u - 1 /\ u - 1 < b + 7 * (-n)
    BY <1>1, <1>4, <1>5, <1>7, <1>11, SMT
  <2> QED BY <1>9, <2>1, WeekdaysCounted, SMT
<1> QED BY <1>9, <1>10, <1>11, SMT DEF b, u

\* A month has four or five days of each name: the ones a week apart from its
\* first, and from its last.
LEMMA WeekdaysOfMonth ==
    ASSUME NEW first \in Int, NEW x \in 28 .. 31, NEW dow \in Weekdays,
           NEW a \in Int, first <= a, a <= first + 6, day_of_week(a) = dow,
           NEW z \in Int, first + x - 7 <= z, z < first + x, day_of_week(z) = dow
    PROVE  \E c \in 4 .. 5 : z = a + 7 * (c - 1) /\ Named(first, first + x - 1, dow) = c
<1>1. PICK j \in Int : z = a + 7 * j
  BY SameWeekday, SMT
<1>2. j + 1 \in 4 .. 5 /\ j + 1 \in Nat /\ (j + 1) - 1 = j
  BY <1>1, SMT
<1>3. first + x - 1 \in Int /\ a + 7 * ((j + 1) - 1) <= first + x - 1 /\ first + x - 1 < a + 7 * (j + 1)
  BY <1>1, SMT
<1>4. Named(first, first + x - 1, dow) = j + 1
  <2> DEFINE hi == first + x - 1
             c == j + 1
  <2>1. hi \in Int /\ c \in Nat /\ a + 7 * (c - 1) <= hi /\ hi < a + 7 * c
    BY <1>2, <1>3, SMT
  <2> HIDE DEF hi, c
  <2>2. Named(first, hi, dow) = c
    BY <2>1, WeekdaysCounted, SMT
  <2> QED BY <2>2, SMT DEF hi, c
<1> QED BY <1>1, <1>2, <1>4, SMT

\* Date::nth_weekday_of_month, for every date and number
LEMMA NthWeekdayOfMonthCounts ==
    ASSUME NEW d, IsDate(d), NEW n \in Int \ {0}, NEW dow \in Weekdays,
           NEW e, e = nth_weekday_of_month(d, n, dow),
           NEW first, first = unix_days(Date(d.year, d.month, 1)),
           NEW last, last = unix_days(Date(d.year, d.month, days_in_month(d.year, d.month)))
    PROVE  /\ e = NoDate => Named(first, last, dow) < Distance(0, n)
           /\ e # NoDate => /\ day_of_week(unix_days(e)) = dow
                            /\ n > 0 => Named(first, unix_days(e), dow) = n
                            /\ n < 0 => Named(unix_days(e), last, dow) = -n
<1> DEFINE y == d.year
           m == d.month
           x == days_in_month(y, m)
           g == (dow - day_of_week(first)) % 7
           h == (day_of_week(last) - dow) % 7
           k == IF n > 0 THEN (1 + g) + (n - 1) * 7 ELSE (x - h) + (n + 1) * 7
           a == first + g
           z == last - h
<1>1. y \in Int /\ y \in Years /\ m \in Months /\ x \in 28 .. 31
  BY PartsOfDate, InYears, MonthLength, SMT DEF Months
<1>2. first \in Int /\ last \in Int
  <2>1. x \in 1 .. 31 /\ 1 \in 1 .. 31 /\ 1 <= x /\ x <= x
    BY <1>1, SMT
  <2>2. IsDate(Date(y, m, 1)) /\ IsDate(Date(y, m, x))
    BY <1>1, <2>1, MakesDate, SMT
  <2> QED BY <2>2, UnixDaysType, SMT
<1>3. ASSUME NEW i \in Int
      PROVE  unix_days(Date(y, m, i)) = first + i - 1
  <2> DEFINE v == days_before(y)
             b == days_before_month(y, m)
  <2>1. v \in Int /\ b \in Int
    BY UnixDaysType, SMT
  <2>2. unix_days(Date(y, m, i)) = v + b + i + (-719162) - 1 /\ first = v + b + 1 + (-719162) - 1
    BY UnixDaysOf, SMT DEF UnixDaysMin
  <2> HIDE DEF v, b, y, m
  <2> QED BY <2>1, <2>2, SMT
<1>4. last = first + x - 1
  BY <1>1, <1>3, SMT
<1>5. g \in 0 .. 6 /\ day_of_week(a) = dow /\ h \in 0 .. 6 /\ day_of_week(z) = dow
  BY <1>2, DistanceToWeekday, SMT
<1>6. nth_weekday_of_month(d, n, dow) = IF n \in -5 .. 5 THEN NewDate(y, m, k) ELSE NoDate
  BY SMT DEF nth_weekday_of_month, nth_weekday_in_month
<1> HIDE DEF y, m, x, g, h
<1>7. a \in Int /\ z \in Int /\ first <= a /\ a <= first + 6 /\ first + x - 7 <= z /\ z < first + x
  BY <1>1, <1>2, <1>4, <1>5, SMT
<1>8. PICK c \in 4 .. 5 : z = a + 7 * (c - 1) /\ Named(first, last, dow) = c
  <2> HIDE DEF a, z
  <2> QED BY <1>1, <1>2, <1>4, <1>5, <1>7, WeekdaysOfMonth, SMT
<1>9. k \in Int
  BY <1>1, <1>5, SMT
<1>10. CASE n \notin -5 .. 5
  <2>1. e = NoDate
    BY <1>6, <1>10, SMT
  <2>2. c < Distance(0, n)
    BY <1>8, <1>10, SMT DEF Distance
  <2> QED BY <1>8, <2>1, <2>2, SMT
<1>11. CASE n \in -5 .. 5 /\ k >= 1 /\ k <= x
  <2>0. k \in 1 .. x
    <3> HIDE DEF k
    <3> QED BY <1>1, <1>9, <1>11, SMT
  <2>1. e = Date(y, m, k)
    <3> HIDE DEF k
    <3> QED BY <1>1, <1>6, <1>11, <2>0, SMT DEF NewDate, x
  <2>2. k \in 1 .. 31
    BY <1>1, <1>9, <1>11, SMT
  <2>3. e # NoDate
    <3>1. IsDate(e)
      BY <1>1, <1>11, <2>1, <2>2, MakesDate, SMT DEF x
    <3> QED BY <3>1, NoneIsNoDate, SMT
  <2> DEFINE w == unix_days(e)
  <2>4. w = first + k - 1
    BY <1>3, <1>9, <2>1, SMT
  <2> HIDE DEF w
  <2>5. CASE n > 0
    <3>1. w \in Int /\ w = a + 7 * (n - 1) /\ n - 1 \in Int /\ n \in Nat /\ w < a + 7 * n
      BY <1>2, <1>5, <2>4, <2>5, SMT
    <3> HIDE DEF a, z, k
    <3>2. day_of_week(w) = dow
      BY <1>5, <1>7, <3>1, SameWeekday, SMT
    <3>3. a + 7 * (n - 1) <= w
      BY <1>7, <3>1, SMT
    <3>4. Named(first, w, dow) = n
      BY <1>2, <1>5, <1>7, <3>1, <3>3, WeekdaysCounted, SMT
    <3> QED BY <2>3, <2>5, <3>2, <3>4, SMT DEF w
  <2>6. CASE n < 0
    <3>1. /\ w \in Int /\ w = z + 7 * (n + 1) /\ n + 1 \in Int /\ -n \in Nat
          /\ w + 7 * (-n - 1) <= last /\ last < w + 7 * (-n) /\ w <= w /\ w <= w + 6
      BY <1>1, <1>2, <1>4, <1>5, <2>4, <2>6, SMT
    <3> HIDE DEF a, z, k
    <3>2. day_of_week(w) = dow
      BY <1>5, <1>7, <3>1, SameWeekday, SMT
    <3>4. Named(w, last, dow) = -n
      BY <1>2, <3>1, <3>2, WeekdaysCounted, SMT
    <3> QED BY <2>3, <2>6, <3>2, <3>4, SMT DEF w
  <2> QED BY <2>5, <2>6, SMT
<1>12. CASE n \in -5 .. 5 /\ ~(k >= 1 /\ k <= x)
  <2>1. e = NoDate
    BY <1>6, <1>12, SMT DEF NewDate, x
  <2>2. CASE n > 0
    <3>1. k > x
      BY <1>1, <1>5, <1>9, <1>12, <2>2, SMT
    <3>2. a + 7 * (n - 1) > last
      BY <1>1, <1>2, <1>4, <1>5, <2>2, <3>1, SMT
    <3> HIDE DEF a, k
    <3>3. c < n
      BY <1>2, <1>5, <1>7, <1>8, <2>2, <3>2, SMT
    <3> QED BY <1>8, <2>1, <2>2, <3>3, SMT DEF Distance
  <2>3. CASE n < 0
    <3>1. k < 1
      BY <1>1, <1>5, <1>9, <1>12, <2>3, SMT
    <3>2. z + 7 * (n + 1) < first
      BY <1>1, <1>2, <1>4, <1>5, <2>3, <3>1, SMT
    <3> HIDE DEF a, z, k
    <3>3. c < -n
      BY <1>2, <1>7, <1>8, <2>3, <3>2, SMT
    <3> QED BY <1>8, <2>1, <2>3, <3>3, SMT DEF Distance
  <2> QED BY <2>2, <2>3, SMT
<1> QED BY <1>10, <1>11, <1>12, SMT

-----------------------------------------------------------------------------
\* A number of days belongs to one year only.
LEMMA YearOfNumber ==
    ASSUME NEW a \in Int, NEW s \in Int, 1 <= s, s <= DaysInYear(a),
           NEW b \in Int, NEW t \in Int, 1 <= t, t <= DaysInYear(b),
           days_before(a) + s = days_before(b) + t
    PROVE  a = b /\ s = t
<1>1. days_before(a + 1) = days_before(a) + DaysInYear(a) /\ days_before(b + 1) = days_before(b) + DaysInYear(b)
  BY YearLength, SMT
<1>2. /\ days_before(a) \in Int /\ days_before(b) \in Int
      /\ DaysInYear(a) \in Int /\ DaysInYear(b) \in Int
  BY SMT DEF days_before, DaysInYear
<1>3. /\ a + 1 <= b => days_before(a + 1) <= days_before(b)
      /\ b + 1 <= a => days_before(b + 1) <= days_before(a)
  BY SMT DEF days_before
<1> QED BY <1>1, <1>2, <1>3, SMT

\* Date::iso_year_week, for every date that is not within three days of the ends
LEMMA IsoWeekIsThursdays ==
    ASSUME NEW d, IsDate(d), NEW n, n = unix_days(d),
           n + (4 - day_of_week(n)) \in UnixDays,
           NEW e, e = UnixDaysDate(n + 4 - day_of_week(n))
    PROVE  iso_year_week(d) = <<e.year, (day_of_year(e) + 6) \div 7>>
<1> DEFINE dow == day_of_week(n)
           y == d.year
           s == day_of_year(d)
           t == s + 4 - dow
           ye == e.year
           se == day_of_year(e)
           v == days_before(y)
           len == DaysInYear(y)
           len1 == DaysInYear(y - 1)
<1>1. n \in Int /\ dow \in 1 .. 7
  BY UnixDaysType, WeekdayStep, SMT
<1>2. IsDate(e) /\ unix_days(e) = n + 4 - dow
  <2>1. n + (4 - dow) = n + 4 - dow
    BY <1>1, SMT
  <2> QED BY <2>1, UnixDaysDateSound, SMT
<1>3. y \in Int /\ ye \in Int
  BY <1>2, PartsOfDate, SMT
<1>4. s \in Int /\ 1 <= s /\ s <= len /\ n = v + s - 719163
  BY DaysOfYear, SMT
<1>5. se \in Int /\ 1 <= se /\ se <= DaysInYear(ye) /\ n + 4 - dow = days_before(ye) + se - 719163
  BY <1>2, DaysOfYear, SMT
<1>6. /\ v \in Int /\ len \in 365 .. 366 /\ len1 \in 365 .. 366 /\ days_before(ye) \in Int
      /\ days_before(y - 1) \in Int /\ days_before(y + 1) \in Int
      /\ DaysInYear(y + 1) \in 365 .. 366
  BY <1>3, SMT DEF DaysInYear, days_before
<1>7. days_before(y + 1) = v + len /\ v = days_before(y - 1) + len1
  <2>1. (y - 1) + 1 = y /\ y - 1 \in Int
    BY <1>3, SMT
  <2> QED BY <1>3, <2>1, YearLength, SMT
<1>8. iso_year_week(d) = IF t <= 0 THEN <<y - 1, (t + len1 - 1) \div 7 + 1>>
                         ELSE IF t > len THEN <<y + 1, 1>>
                         ELSE <<y, (t - 1) \div 7 + 1>>
  BY SMT DEF iso_year_week
<1> HIDE DEF dow, y, s, ye, se, v, len, len1
<1>9. days_before(ye) + se = v + t /\ t \in Int /\ -2 <= t /\ t <= len + 3
  BY <1>1, <1>4, <1>5, <1>6, SMT
<1> HIDE DEF t
<1>10. CASE t <= 0
  <2> DEFINE t1 == t + len1
  <2>1. t1 \in Int /\ 1 <= t1 /\ t1 <= len1 /\ days_before(ye) + se = days_before(y - 1) + t1 /\ y - 1 \in Int
    BY <1>3, <1>6, <1>7, <1>9, <1>10, SMT
  <2> HIDE DEF t1
  <2>2. ye = y - 1 /\ se = t1
    BY <1>3, <1>5, <2>1, YearOfNumber, SMT DEF len1
  <2>3. (t1 - 1) \div 7 + 1 = (se + 6) \div 7
    BY <2>1, <2>2, SMT
  <2>4. iso_year_week(d) = <<ye, (se + 6) \div 7>>
    <3>1. t + len1 - 1 = t1 - 1
      BY <1>6, <1>9, SMT DEF t1
    <3>2. iso_year_week(d) = <<y - 1, (t + len1 - 1) \div 7 + 1>>
      BY <1>8, <1>10, SMT
    <3> QED BY <2>2, <2>3, <3>1, <3>2, SMT
  <2> QED BY <2>4, SMT DEF ye, se
<1>11. CASE t > 0 /\ t > len
  <2> DEFINE t1 == t - len
  <2>1. t1 \in Int /\ 1 <= t1 /\ t1 <= 3 /\ t1 <= DaysInYear(y + 1)
        /\ days_before(ye) + se = days_before(y + 1) + t1 /\ y + 1 \in Int
    BY <1>3, <1>6, <1>7, <1>9, <1>11, SMT
  <2> HIDE DEF t1
  <2>2. ye = y + 1 /\ se = t1
    BY <1>3, <1>5, <2>1, YearOfNumber, SMT
  <2>3. (se + 6) \div 7 = 1
    BY <2>1, <2>2, SMT
  <2>4. iso_year_week(d) = <<ye, (se + 6) \div 7>>
    BY <1>8, <1>9, <1>11, <2>2, <2>3, SMT
  <2> QED BY <2>4, SMT DEF ye, se
<1>12. CASE t > 0 /\ t <= len
  <2>1. ye = y /\ se = t
    <3>1. 1 <= t /\ t <= DaysInYear(y) /\ days_before(ye) + se = days_before(y) + t
      BY <1>9, <1>12, SMT DEF len, v
    <3> QED BY <1>3, <1>5, <1>9, <3>1, YearOfNumber, SMT
  <2>2. (t - 1) \div 7 + 1 = (se + 6) \div 7
    BY <1>9, <2>1, SMT
  <2>3. iso_year_week(d) = <<ye, (se + 6) \div 7>>
    BY <1>6, <1>8, <1>9, <1>12, <2>1, <2>2, SMT
  <2> QED BY <2>3, SMT DEF ye, se
<1> QED BY <1>6, <1>9, <1>10, <1>11, <1>12, SMT

\* The weekdays are counted right for every date.
LEMMA CountsWeekdays == DatesInv => WeekdaysCount
<1> SUFFICES ASSUME DatesInv
             PROVE  WeekdaysCount
  BY SMT
<1> DEFINE n == unix_days(obj)
           dow == day_of_week(n)
           thursday == UnixDaysDate(n + 4 - dow)
           edge == n \notin UnixDaysMin + 3 .. UnixDaysMax - 3
<1>1. IsDate(obj) /\ n \in Int /\ dow \in 1 .. 7
  BY UnixDaysType, WeekdayStep, SMT DEF DatesInv
<1>2. edge \/ iso_year_week(obj) = <<thursday.year, (day_of_year(thursday) + 6) \div 7>>
  <2> SUFFICES ASSUME ~edge
               PROVE  iso_year_week(obj) = <<thursday.year, (day_of_year(thursday) + 6) \div 7>>
    BY SMT
  <2>1. n + (4 - dow) \in UnixDays
    <3> HIDE DEF n, dow, edge
    <3>1. UnixDaysMin \in Int /\ UnixDaysMax \in Int
      BY SMT DEF UnixDaysMin, UnixDaysMax
    <3> QED BY <1>1, <3>1, SMT DEF UnixDays, edge
  <2> QED BY <1>1, <2>1, IsoWeekIsThursdays, SMT
<1>3. ASSUME NEW i \in WeekdayNs \ {0}, NEW w \in Weekdays
      PROVE  NthWeekdayCounts(i, w)
  <2> DEFINE d == nth_weekday(obj, i, w)
             m == nth_weekday_of_month(obj, i, w)
             first == unix_days(Date(obj.year, obj.month, 1))
             last == unix_days(Date(obj.year, obj.month, days_in_month(obj.year, obj.month)))
  <2>1. i \in Int \ {0}
    BY DatesAssumption, SMT
  <2>2. d # NoDate => /\ day_of_week(unix_days(d)) = w
                      /\ i > 0 => Named(n + 1, unix_days(d), w) = i
                      /\ i < 0 => Named(unix_days(d), n - 1, w) = -i
    BY <1>1, <2>1, NthWeekdayAfterCounts, SMT
  <2>3. /\ m = NoDate => Named(first, last, w) < Distance(0, i)
        /\ m # NoDate => /\ day_of_week(unix_days(m)) = w
                         /\ i > 0 => Named(first, unix_days(m), w) = i
                         /\ i < 0 => Named(unix_days(m), last, w) = -i
    BY <1>1, <2>1, NthWeekdayOfMonthCounts, SMT
  <2>4. i > 0 \/ i < 0
    BY <2>1, SMT
  <2>5. ~(i > 0 /\ i < 0)
    BY <2>1, SMT
  <2> QED BY <2>2, <2>3, <2>4, <2>5, SMT DEF NthWeekdayCounts, Named
<1> QED BY <1>2, <1>3, SMT DEF WeekdaysCount

\* Date.iso_year_week, nth_weekday and nth_weekday_of_month name the week of the
\* Thursday and the n-th day of a name in every reachable state, for every date,
\* number and weekday.
THEOREM WeekdaysAlwaysCount == MCSpec => []WeekdaysCount
  BY DatesInvariance, CountsWeekdays, PTL

-----------------------------------------------------------------------------
\* The difference a - b of two dates (Date.__sub__), for every two dates: added
\* to the subtracted date, its months first and then its days, it leads exactly
\* to the other, and its two parts never have opposite signs.
THEOREM MinusAddsBack ==
    ASSUME NEW s, IsDate(s), NEW o, IsDate(o)
    PROVE  LET m == minus(s, o) IN
           /\ ShiftDate(o, m.months, m.days) = s
           /\ (m.months >= 0 /\ m.days >= 0) \/ (m.months <= 0 /\ m.days <= 0)
<1> DEFINE sy == s.year
           sm == s.month
           sk == s.day
           oy == o.year
           om == o.month
           ok == o.day
           n == sm - om + 12 * (sy - oy)
           x == days_in_month(sy, sm)
           mk == IF ok <= x THEN ok ELSE x
           moved == shift_months(o, n)
           up == shift_months(o, n + 1)
           down == shift_months(o, n - 1)
           f == Before1(sy, sm)
<1>1. /\ s = Date(sy, sm, sk) /\ sy \in Int /\ 1 <= sy /\ sy <= 9999 /\ sm \in 1 .. 12 /\ sk \in 1 .. 31 /\ sk <= x
      /\ o = Date(oy, om, ok) /\ oy \in Int /\ 1 <= oy /\ oy <= 9999 /\ om \in 1 .. 12 /\ ok \in 1 .. 31
      /\ ok <= days_in_month(oy, om)
  BY PartsOfDate, SMT
<1>2. sy \in Years /\ sm \in Months /\ x \in 28 .. 31
  BY <1>1, InYears, MonthLength, SMT DEF Months
<1>3. moved = Date(sy, sm, mk) /\ IsDate(Date(sy, sm, mk)) /\ mk \in 1 .. 31
  BY <1>2, ShiftToMonth, SMT
<1>4. minus(s, o) = IF DateLess(s, o) /\ DateLess(moved, s)
                    THEN [months |-> n + 1, days |-> sk - x - up.day]
                    ELSE IF DateLess(o, s) /\ DateLess(s, moved)
                    THEN [months |-> n - 1,
                          days |-> sk + days_in_month(down.year, down.month) - down.day]
                    ELSE [months |-> n, days |-> sk - moved.day]
  BY SMT DEF minus
<1>5. /\ DateLess(s, o) <=> (sy < oy \/ (sy = oy /\ sm < om) \/ (sy = oy /\ sm = om /\ sk < ok))
      /\ DateLess(o, s) <=> (oy < sy \/ (oy = sy /\ om < sm) \/ (oy = sy /\ om = sm /\ ok < sk))
  BY SMT DEF DateLess
<1>6. DateLess(moved, s) <=> mk < sk
  <2>1. moved.year = sy /\ moved.month = sm /\ moved.day = mk
    BY <1>3, DateFields, SMT
  <2> HIDE DEF moved, mk
  <2> QED BY <1>1, <2>1, SMT DEF DateLess
<1>7. DateLess(s, moved) <=> sk < mk
  <2>1. moved.year = sy /\ moved.month = sm /\ moved.day = mk
    BY <1>3, DateFields, SMT
  <2> HIDE DEF moved, mk
  <2> QED BY <1>1, <2>1, SMT DEF DateLess
<1>8. sy = oy /\ sm = om => mk = ok
  BY <1>1, SMT
<1>9. f \in Int /\ unix_days(s) = f + sk + (-719162) - 1
  BY <1>1, <1>2, Before1Type, SMT
<1>10. n \in Int
  BY <1>1, SMT
<1> HIDE DEF mk, sy, sm, sk, oy, om, ok, f, x
<1>11. CASE DateLess(s, o) /\ DateLess(moved, s)
  <2> DEFINE y1 == IF sm = 12 THEN sy + 1 ELSE sy
             m1 == IF sm = 12 THEN 1 ELSE sm + 1
             x1 == days_in_month(y1, m1)
             k1 == IF ok <= x1 THEN ok ELSE x1
             k == sk - x - k1
  <2>1. sy < oy \/ (sy = oy /\ sm < om)
    BY <1>1, <1>3, <1>5, <1>6, <1>8, <1>11, SMT
  <2>2. y1 \in Int /\ 1 <= y1 /\ y1 <= 9999 /\ m1 \in Months
    BY <1>1, <2>1, SMT DEF Months
  <2>3. n + 1 = m1 - om + 12 * (y1 - oy) /\ n + 1 <= 0
    BY <1>1, <2>1, SMT
  <2>4. Before1(y1, m1) = f + x
    BY <1>1, <1>2, NextMonth, SMT DEF f, x
  <2> HIDE DEF y1, m1, n
  <2>5. up = Date(y1, m1, k1) /\ IsDate(Date(y1, m1, k1)) /\ k1 \in 1 .. 31
    <3>1. y1 \in Years
      BY <2>2, InYears, SMT
    <3> QED BY <2>2, <2>3, <3>1, ShiftToMonth, SMT DEF om, oy, ok
  <2>6. up.day = k1
    BY <2>5, DateFields, SMT
  <2>7. unix_days(up) = (f + x) + k1 + (-719162) - 1
    BY <2>2, <2>4, <2>5, Before1Type, SMT
  <2> HIDE DEF k1, x1
  <2>8. k \in Int /\ k <= 0 /\ unix_days(up) + k = unix_days(s)
    BY <1>1, <1>2, <1>9, <2>5, <2>7, SMT
  <2>9. minus(s, o) = [months |-> n + 1, days |-> k]
    BY <1>4, <1>11, <2>6, SMT
  <2> HIDE DEF k
  <2>10. ShiftDate(o, n + 1, k) = s
    BY <2>5, <2>8, ShiftDateTo, SMT
  <2> QED BY <2>3, <2>8, <2>9, <2>10, SMT
<1>12. CASE ~(DateLess(s, o) /\ DateLess(moved, s)) /\ DateLess(o, s) /\ DateLess(s, moved)
  <2> DEFINE y1 == IF sm = 1 THEN sy - 1 ELSE sy
             m1 == IF sm = 1 THEN 12 ELSE sm - 1
             x1 == days_in_month(y1, m1)
             k1 == IF ok <= x1 THEN ok ELSE x1
             k == sk + x1 - k1
  <2>1. oy < sy \/ (oy = sy /\ om < sm)
    BY <1>1, <1>3, <1>5, <1>7, <1>8, <1>12, SMT
  <2>2. y1 \in Int /\ 1 <= y1 /\ y1 <= 9999 /\ m1 \in Months
    BY <1>1, <2>1, SMT DEF Months
  <2>3. n - 1 = m1 - om + 12 * (y1 - oy) /\ n - 1 >= 0
    BY <1>1, <2>1, SMT
  <2>4. f = Before1(y1, m1) + x1
    <3>1. CASE sm = 1
      <4>0. (sy - 1) + 1 = sy /\ sy - 1 \in Int /\ 1 \in Months /\ 12 \in Months
        BY <1>1, SMT DEF Months
      <4>1. days_before(sy) = days_before(sy - 1) + DaysInYear(sy - 1)
        BY <4>0, YearLength, SMT
      <4>2. days_before_month(sy - 1, 12) + 31 = DaysInYear(sy - 1) /\ days_in_month(sy - 1, 12) = 31
            /\ days_before_month(sy - 1, 12) \in Int
        BY <4>0, MonthLength, SMT
      <4>3. days_before_month(sy, 1) = 0
        BY <1>1, <4>0, MonthLength, SMT
      <4>4. days_before(sy - 1) \in Int
        BY <4>0, SMT DEF days_before
      <4>5. f = days_before(sy) + days_before_month(sy, 1)
        BY <3>1, SMT DEF f, Before1
      <4>6. Before1(y1, m1) = days_before(sy - 1) + days_before_month(sy - 1, 12) /\ x1 = days_in_month(sy - 1, 12)
        BY <3>1, SMT DEF Before1
      <4> HIDE DEF x1
      <4> QED BY <4>1, <4>2, <4>3, <4>4, <4>5, <4>6, SMT
    <3>2. CASE sm > 1
      <4>0. (sm - 1) + 1 = sm /\ sm - 1 \in Months /\ sm - 1 < 12 /\ sm # 1
        BY <1>1, <3>2, SMT DEF Months
      <4>1. /\ days_before_month(sy, sm) = days_before_month(sy, sm - 1) + days_in_month(sy, sm - 1)
            /\ days_before_month(sy, sm - 1) \in Int /\ days_in_month(sy, sm - 1) \in Int
        <5> DEFINE prev == sm - 1
        <5>1. prev \in Months /\ prev < 12 /\ prev + 1 = sm /\ sy \in Int
          BY <1>1, <4>0
        <5> HIDE DEF prev
        <5>2. /\ days_in_month(sy, prev) \in 28 .. 31 /\ days_before_month(sy, prev) \in 0 .. 335
              /\ days_before_month(sy, sm) = days_before_month(sy, prev) + days_in_month(sy, prev)
          BY <5>1, MonthLength
        <5>3. days_before_month(sy, prev) \in Int
          BY <5>2, SMT
        <5>4. days_in_month(sy, prev) \in Int
          BY <5>2, SMT
        <5> QED BY <5>2, <5>3, <5>4 DEF prev
      <4>2. days_before(sy) \in Int
        BY <1>1, SMT DEF days_before
      <4>3. Before1(y1, m1) = days_before(sy) + days_before_month(sy, sm - 1) /\ x1 = days_in_month(sy, sm - 1)
        BY <4>0, SMT DEF Before1
      <4> HIDE DEF x1
      <4> QED BY <4>1, <4>2, <4>3, SMT DEF f, Before1
    <3> QED BY <1>1, <3>1, <3>2, SMT
  <2> HIDE DEF y1, m1, n
  <2>5. down = Date(y1, m1, k1) /\ IsDate(Date(y1, m1, k1)) /\ k1 \in 1 .. 31
    <3>1. y1 \in Years
      BY <2>2, InYears, SMT
    <3> QED BY <2>2, <2>3, <3>1, ShiftToMonth, SMT DEF om, oy, ok
  <2>6. down.day = k1 /\ down.month = m1 /\ down.year = y1
    BY <2>5, DateFields, SMT
  <2>7. unix_days(down) = Before1(y1, m1) + k1 + (-719162) - 1 /\ Before1(y1, m1) \in Int
    BY <2>2, <2>5, Before1Type, SMT
  <2>8. x1 \in Int /\ k1 <= x1
    <3>1. x1 \in 28 .. 31
      BY <2>2, MonthLength, SMT
    <3> HIDE DEF x1
    <3> QED BY <1>1, <3>1, SMT
  <2>9. minus(s, o) = [months |-> n - 1, days |-> k]
    BY <1>4, <1>12, <2>6, SMT
  <2> HIDE DEF k1, x1
  <2>10. k \in Int /\ k >= 0 /\ unix_days(down) + k = unix_days(s)
    BY <1>1, <1>9, <2>4, <2>5, <2>7, <2>8, SMT
  <2> HIDE DEF k
  <2>11. ShiftDate(o, n - 1, k) = s
    BY <2>5, <2>10, ShiftDateTo, SMT
  <2> QED BY <2>3, <2>9, <2>10, <2>11, SMT
<1>13. CASE ~(DateLess(s, o) /\ DateLess(moved, s)) /\ ~(DateLess(o, s) /\ DateLess(s, moved))
  <2> DEFINE k == sk - mk
  <2>1. minus(s, o) = [months |-> n, days |-> k]
    <3>1. moved.day = mk
      BY <1>3, DateFields, SMT
    <3> QED BY <1>4, <1>13, <3>1, SMT
  <2>2. k \in Int /\ unix_days(moved) + k = unix_days(s)
    <3>1. unix_days(moved) = f + mk + (-719162) - 1
      BY <1>1, <1>2, <1>3, Before1Type, SMT DEF f
    <3> QED BY <1>1, <1>3, <1>9, <3>1, SMT
  <2>3. (n >= 0 /\ k >= 0) \/ (n <= 0 /\ k <= 0)
    <3>1. CASE n > 0
      <4>1. oy < sy \/ (oy = sy /\ om < sm)
        BY <1>1, <3>1, SMT
      <4>2. ~(sk < mk)
        BY <1>5, <1>7, <1>13, <4>1, SMT
      <4> QED BY <1>1, <1>3, <3>1, <4>2, SMT
    <3>2. CASE n < 0
      <4>1. sy < oy \/ (sy = oy /\ sm < om)
        BY <1>1, <3>2, SMT
      <4>2. ~(mk < sk)
        BY <1>5, <1>6, <1>13, <4>1, SMT
      <4> QED BY <1>1, <1>3, <3>2, <4>2, SMT
    <3>3. CASE n = 0
      BY <1>1, <1>3, <3>3, SMT
    <3> QED BY <1>10, <3>1, <3>2, <3>3, SMT
  <2> HIDE DEF k, n
  <2>4. ShiftDate(o, n, k) = s
    BY <1>3, <2>2, ShiftDateTo, SMT
  <2> QED BY <2>1, <2>3, <2>4, SMT
<1> QED BY <1>11, <1>12, <1>13

-----------------------------------------------------------------------------
\* One increment more is one more.
LEMMA NextQuotient ==
    ASSUME NEW v, NEW neg \in BOOLEAN, NEW inc \in Nat \ {0}, Forward(v, neg), Multiple(v, inc)
    PROVE  \E p \in Nat : Distance(0, v) \div inc = p /\ Distance(0, v + Step(inc, neg)) \div inc = p + 1
<1>1. v \in Int /\ IF neg THEN v <= 0 ELSE v >= 0
  BY DEF Forward
<1>2. PICK q \in Int : v = inc * q
  BY DEF Multiple
<1> DEFINE p == IF neg THEN -q ELSE q
<1>3. p \in Nat
  BY <1>1, <1>2, SMT
<1>4. Distance(0, v) = inc * p
  BY <1>1, <1>2, SMT DEF Distance
<1>5. Distance(0, v + Step(inc, neg)) = inc * (p + 1)
  <2>1. CASE neg
    BY <1>1, <1>2, <2>1, SMT DEF Distance, Step
  <2>2. CASE ~neg
    BY <1>1, <1>2, <2>2, SMT DEF Distance, Step
  <2> QED BY <2>1, <2>2
<1> HIDE DEF p
<1>6. ASSUME NEW k \in Nat
      PROVE  (inc * k) \div inc = k
  <2> DEFINE a == inc * k
  <2>1. a \in Int /\ a = inc * k + 0
    BY SMT
  <2> HIDE DEF a
  <2>2. a \div inc = k
    BY <2>1, DivUnique, SMT
  <2> QED BY <2>2 DEF a
<1>7. p + 1 \in Nat
  BY <1>3, SMT
<1>8. Distance(0, v) \div inc = p /\ Distance(0, v + Step(inc, neg)) \div inc = p + 1
  BY <1>3, <1>4, <1>5, <1>6, <1>7
<1> QED BY <1>3, <1>8

\* round_by_days takes of the two neighbours the one that the mode asks for.
LEMMA NeighbourByMode ==
    ASSUME NEW v, NEW neg \in BOOLEAN, NEW inc \in Nat \ {0}, Forward(v, neg), Multiple(v, inc),
           IsDate(obj), NEW t \in Int, NEW e \in Int,
           IF neg THEN e < unix_days(obj) /\ unix_days(obj) <= t ELSE t <= unix_days(obj) /\ unix_days(obj) < e,
           NEW mode \in Mode, NEW value,
           value = RoundByDistance(v, Distance(unix_days(obj), t), Distance(e, t), to_abs_trunc(mode, neg), inc, neg)
    PROVE  RoundedByMode(value, v, t, e, mode, inc, neg)
<1> DEFINE o == unix_days(obj)
           r == Distance(o, t)
           x == Distance(e, t)
           st == Step(inc, neg)
           abs == to_abs_trunc(mode, neg)
           up == DoExpand(v, r, x, abs, inc)
           got == IF value = v THEN t ELSE e
           far == IF value = v THEN e ELSE t
           tie == r = Distance(o, e)
           even == (Distance(0, value) \div inc) % 2 = 0
           odd == (Distance(0, v) \div inc) % 2 = 1
<1>1. o \in Int /\ v \in Int
  BY UnixDaysType, SMT DEF Forward
<1>2. IF neg THEN e < o /\ o <= t ELSE t <= o /\ o < e
  OBVIOUS
<1>3. value = v + IF up THEN st ELSE 0
  BY DEF RoundByDistance
<1>4. st = (IF neg THEN -inc ELSE inc) /\ st \in Int /\ st # 0
  BY SMT DEF Step
<1>5. up => value = v + st /\ value # v
  BY <1>1, <1>3, <1>4, SMT
<1>6. ~up => value = v
  BY <1>1, <1>3, SMT
<1>7. (even <=> ~odd) \/ up
  <2>1. \E p \in Nat : Distance(0, v) \div inc = p /\ Distance(0, v + st) \div inc = p + 1
    BY NextQuotient
  <2>2. PICK p \in Nat : Distance(0, v) \div inc = p
    BY <2>1
  <2> QED BY <1>6, <2>2, SMT
<1>8. (even <=> odd) \/ ~up
  <2>1. \E p \in Nat : Distance(0, v) \div inc = p /\ Distance(0, v + st) \div inc = p + 1
    BY NextQuotient
  <2>2. PICK p \in Nat : Distance(0, v) \div inc = p /\ Distance(0, v + st) \div inc = p + 1
    BY <2>1
  <2>3. (p + 1) % 2 = 0 <=> p % 2 = 1
    BY SMT
  <2> HIDE DEF st
  <2> QED BY <1>5, <2>2, <2>3
<1>9. /\ up => got = e /\ far = t
      /\ ~up => got = t /\ far = e
  BY <1>5, <1>6
<1>10. /\ abs = "trunc" => ~up
       /\ abs = "expand" => (up <=> r > 0)
       /\ abs = "half_even" => (up <=> r > x - r \/ (r = x - r /\ odd))
       /\ abs = "half_trunc" => (up <=> r > x - r)
       /\ abs = "half_expand" => (up <=> r >= x - r)
  <2> HIDE DEF abs, r, x
  <2>1. abs = "trunc" => ~up
    BY DEF DoExpand
  <2>2. abs = "expand" => (up <=> r > 0)
    BY DEF DoExpand
  <2>3. abs = "half_even" => (up <=> r > x - r \/ (r = x - r /\ odd))
    BY DEF DoExpand
  <2>4. abs = "half_trunc" => (up <=> r > x - r)
    BY DEF DoExpand
  <2>5. abs = "half_expand" => (up <=> r >= x - r)
    BY DEF DoExpand
  <2> QED BY <2>1, <2>2, <2>3, <2>4, <2>5
<1>11. /\ mode = "floor" => abs = IF neg THEN "expand" ELSE "trunc"
       /\ mode = "ceil" => abs = IF neg THEN "trunc" ELSE "expand"
       /\ mode = "trunc" => abs = "trunc"
       /\ mode = "expand" => abs = "expand"
       /\ mode = "half_floor" => abs = IF neg THEN "half_expand" ELSE "half_trunc"
       /\ mode = "half_ceil" => abs = IF neg THEN "half_trunc" ELSE "half_expand"
       /\ mode = "half_trunc" => abs = "half_trunc"
       /\ mode = "half_expand" => abs = "half_expand"
       /\ mode = "half_even" => abs = "half_even"
  BY SMT DEF to_abs_trunc
<1>12. /\ r \in Int /\ x \in Int /\ r >= 0 /\ r < x /\ x - r = Distance(o, e)
       /\ r = (IF neg THEN t - o ELSE o - t) /\ Distance(o, e) = IF neg THEN o - e ELSE e - o
  <2> HIDE DEF o
  <2> QED BY <1>1, <1>2, SMT DEF Distance
<1> DEFINE y == Distance(o, e)
<1> HIDE DEF o, r, x, abs, up, got, far, even, odd, st, y
<1>13. /\ r \in Int /\ x \in Int /\ r >= 0 /\ r < x /\ x - r = y
       /\ r = (IF neg THEN t - o ELSE o - t) /\ y = (IF neg THEN o - e ELSE e - o) /\ (tie <=> r = y)
  BY <1>12 DEF y
<1>14. value \in {v, v + st}
  BY <1>5, <1>6
<1>15. /\ mode = "floor" => got <= o
       /\ mode = "ceil" => got >= o
       /\ mode = "trunc" => got = t
       /\ mode = "expand" => got = IF o = t THEN t ELSE e
  BY <1>1, <1>2, <1>9, <1>10, <1>11, <1>13, SMT
<1>16. up => Distance(o, got) = y /\ Distance(o, far) = r
  BY <1>9 DEF y, r
<1>17. ~up => Distance(o, got) = r /\ Distance(o, far) = y
  BY <1>9 DEF y, r
<1> DEFINE dg == Distance(o, got)
           df == Distance(o, far)
<1> HIDE DEF dg, df
<1>18. (up => dg = y /\ df = r) /\ (~up => dg = r /\ df = y)
  BY <1>16, <1>17 DEF dg, df
<1>19. mode \notin {"floor", "ceil", "trunc", "expand"} => dg <= df
  <2>1. mode \notin {"floor", "ceil", "trunc", "expand"} => abs \in {"half_even", "half_trunc", "half_expand"}
    BY <1>11 DEF Mode
  <2>2. y \in Int
    BY <1>13, SMT
  <2> QED BY <1>10, <1>13, <1>18, <2>1, <2>2, SMT
<1>20. tie => /\ mode = "half_floor" => got < far
              /\ mode = "half_ceil" => got > far
              /\ mode = "half_trunc" => got = t
              /\ mode = "half_expand" => got = e
  BY <1>1, <1>2, <1>9, <1>10, <1>11, <1>13, SMT
<1>21. tie => (mode = "half_even" => even)
  <2>1. CASE mode = "half_even" /\ tie
    <3>1. r = x - r /\ ~(r > x - r)
      BY <1>13, <2>1, SMT
    <3>2. up <=> odd
      BY <1>10, <1>11, <2>1, <3>1
    <3> QED BY <1>7, <1>8, <3>2
  <2> QED BY <2>1
<1> QED BY <1>14, <1>15, <1>19, <1>20, <1>21 DEF RoundedByMode, o, got, far, r, even, st, dg, df

\* In every state, for every unit, mode and increment.
LEMMA RoundsDifferences == DatesInv => DifferenceRoundsByMode
<1> SUFFICES ASSUME DatesInv, NEW unit \in Names(CalendarUnit), NEW mode \in Mode, NEW inc \in Increments
             PROVE  RoundedFrom(date_diff(obj, other, inc, {unit}, DateLess(obj, other)), unit, mode, inc)
  BY DEF DifferenceRoundsByMode
<1> DEFINE neg == DateLess(obj, other)
           d == date_diff(obj, other, inc, {unit}, neg)
           e == UnitDiff(unit, obj, other, inc, neg)
           t == unix_days(InterimResolve(d.trunc))
           x == unix_days(InterimResolve(d.expand))
           v == d.value[unit]
           s == date_since_iddelta(obj, other, {unit}, mode, inc)
           value == s.value[unit]
<1> SUFFICES ASSUME d.ok
             PROVE  RoundedByMode(value, v, t, x, mode, inc, neg)
  BY DEF RoundedFrom
<1>1. IsDate(obj) /\ IsDate(other) /\ inc \in Nat \ {0}
  BY IncrementsAssumption, SMT DEF DatesInv
<1>2. neg \in BOOLEAN /\ Reaches(other, obj, neg)
  BY <1>1, StartReaches, SMT
<1> HIDE DEF neg, e
<1>3. e.ok /\ d = InUnit(unit, e)
  <2>1. d = date_diff(obj, other, inc, {unit}, neg) /\ e = UnitDiff(unit, obj, other, inc, neg)
    BY DEF e
  <2> HIDE DEF d
  <2> QED BY <2>1, SingleUnit
<1>4. Forward(e.value, neg) /\ Lands(e, obj, neg) /\ Multiple(e.value, inc)
  BY <1>1, <1>2, <1>3, UnitLands, SMT DEF e
<1>5. v = e.value /\ d.trunc = e.trunc /\ d.expand = e.expand /\ d.value = [u \in {unit} |-> e.value]
  BY <1>3, SMT DEF Diff, InUnit
<1>6. t = Number(e.trunc) /\ x = Number(e.expand)
  BY <1>5 DEF Number
<1>7. t \in Int /\ x \in Int
  BY <1>4, <1>6, ResolveIsDate, SMT DEF Lands
<1>8. IF neg THEN x < unix_days(obj) /\ unix_days(obj) <= t ELSE t <= unix_days(obj) /\ unix_days(obj) < x
  BY <1>4, <1>6, SMT DEF Lands
<1>9. value = RoundByDistance(v, Distance(unix_days(obj), t), Distance(x, t), to_abs_trunc(mode, neg), inc, neg)
  <2> DEFINE rounded == round_by_days(v, obj, d.trunc, d.expand, to_abs_trunc(mode, neg), inc, neg)
  <2>1. smallest(CalendarUnit, {unit}) = unit
    <3>1. unit \in {"years", "months", "weeks", "days"}
      BY SMT DEF Names, CalendarUnit
    <3> QED BY <3>1, SmallestUnit, SMT
  <2>2. s = RoundLast(d, obj, unit, to_abs_trunc(mode, neg), inc, neg)
    BY <2>1 DEF date_since_iddelta, neg
  <2>3. s = [d EXCEPT !.value[unit] = rounded]
    BY <2>2 DEF RoundLast
  <2>4. d = [ok |-> TRUE, value |-> [u \in {unit} |-> e.value], trunc |-> e.trunc, expand |-> e.expand]
    BY <1>3 DEF Diff, InUnit
  <2> HIDE DEF rounded, d
  <2>5. s.value[unit] = rounded
    BY <2>3, <2>4, SMT
  <2>6. value = rounded
    BY <2>5
  <2> QED BY <2>6 DEF rounded, round_by_days
<1> HIDE DEF value, t, x, d
<1>10. Forward(v, neg) /\ Multiple(v, inc)
  BY <1>4, <1>5
<1> HIDE DEF v
<1> QED BY <1>1, <1>2, <1>7, <1>8, <1>9, <1>10, NeighbourByMode

\* What leads towards the target and what leads past it.
LEMMA LeadsToTarget ==
    ASSUME IsDate(obj), IsDate(other), NEW units \in (SUBSET Names(CalendarUnit)) \ {{}},
           NEW s, s = date_since_iddelta(obj, other, units, "trunc", 1), s.ok
    PROVE  LeadsTo(s, smallest(CalendarUnit, units), units, DateLess(obj, other))
<1> DEFINE neg == DateLess(obj, other)
           d == date_diff(obj, other, 1, units, neg)
           last == smallest(CalendarUnit, units)
           more == OneMore(d, last, neg)
           back == shift_by(other, to_calendar_shift(s.value))
           past == shift_by(other, to_calendar_shift([s.value EXCEPT ![last] = @ + Step(1, neg)]))
           t == InterimResolve(d.trunc)
           x == InterimResolve(d.expand)
<1>1. neg \in BOOLEAN /\ Reaches(other, obj, neg)
  BY StartReaches
<1>2. d.ok => AfterDays(d, units, other, obj, neg) /\ last \in units /\ NextLeads(d, last, other, obj, neg)
  <2> HIDE DEF neg, last
  <2> DEFINE e == date_diff(obj, other, 1, units, neg)
  <2> HIDE DEF e
  <2>1. e.ok => AfterDays(e, units, other, obj, neg) /\ smallest(CalendarUnit, units) \in units
                /\ NextLeads(e, smallest(CalendarUnit, units), other, obj, neg)
    BY <1>1, DifferenceLeads DEF e
  <2> QED BY <2>1 DEF e, last
<1>3. d.ok /\ s.value = d.value
  <2>1. d.ok => d.value \in [units -> Int] /\ last \in units
    BY <1>2 DEF AfterDays, OnTheWay
  <2>2. d = date_diff(obj, other, 1, units, DateLess(obj, other))
    OBVIOUS
  <2> HIDE DEF d
  <2> QED BY <2>1, <2>2, TruncKeeps
<1> HIDE DEF d, neg
<1>4. /\ d.value \in [units -> Int] /\ Reaches(d.trunc, obj, neg) /\ last \in units
      /\ \A u \in units : Forward(d.value[u], neg)
      /\ Leads(other, MonthsIn(d.value), DaysIn(d.value), d.trunc)
      /\ "days" \in units => Number(d.trunc) = unix_days(obj)
      /\ Lands(d, obj, neg) /\ Leads(other, MonthsIn(more), DaysIn(more), d.expand)
  BY <1>2, <1>3 DEF AfterDays, OnTheWay, NextLeads
<1>5. more \in [units -> Int] /\ more = [s.value EXCEPT ![last] = @ + Step(1, neg)]
  BY <1>1, <1>3, <1>4, SMT DEF OneMore, Step
<1>6. /\ MonthsIn(d.value) \in Int /\ DaysIn(d.value) \in Int
      /\ MonthsIn(more) \in Int /\ DaysIn(more) \in Int
  <2> HIDE DEF more
  <2>1. ASSUME NEW value \in [units -> Int]
        PROVE  MonthsIn(value) \in Int /\ DaysIn(value) \in Int
    <3>1. /\ FieldOr0(value, "years") \in Int /\ FieldOr0(value, "months") \in Int
          /\ FieldOr0(value, "weeks") \in Int /\ FieldOr0(value, "days") \in Int
      BY FieldType
    <3> QED BY <3>1, SMT DEF MonthsIn, DaysIn
  <2> QED BY <1>4, <1>5, <2>1
<1> HIDE DEF more, last
<1>7. back = t /\ IsDate(t) /\ unix_days(t) = Number(d.trunc)
  BY <1>3, <1>4, <1>6, LeadsShifts
<1>8. past = x /\ IsDate(x) /\ unix_days(x) = Number(d.expand)
  BY <1>4, <1>5, <1>6, LeadsShifts
<1> HIDE DEF t, x, back, past
<1>9. t # NoDate /\ x # NoDate
  BY <1>7, <1>8, NoneIsNoDate
<1>10. /\ DateLess(t, obj) <=> unix_days(t) < unix_days(obj)
       /\ DateLess(obj, t) <=> unix_days(obj) < unix_days(t)
       /\ DateLess(x, obj) <=> unix_days(x) < unix_days(obj)
       /\ DateLess(obj, x) <=> unix_days(obj) < unix_days(x)
  BY <1>7, <1>8, DateOrder
<1>11. unix_days(t) \in Int /\ unix_days(x) \in Int /\ unix_days(obj) \in Int
  BY <1>7, <1>8, UnixDaysType
<1>12. IF neg THEN unix_days(x) < unix_days(obj) /\ unix_days(obj) <= unix_days(t)
              ELSE unix_days(t) <= unix_days(obj) /\ unix_days(obj) < unix_days(x)
  BY <1>4, <1>7, <1>8 DEF Lands
<1>13. ~Before(obj, t, neg) /\ Before(obj, x, neg)
  BY <1>10, <1>11, <1>12, SMT DEF Before
<1>14. "days" \in units => t = obj
  BY <1>4, <1>7, SameNumberSameDate
<1>15. \A u \in units : IF neg THEN s.value[u] <= 0 ELSE s.value[u] >= 0
  BY <1>3, <1>4 DEF Forward
<1>16. back # NoDate /\ ~Before(obj, back, neg) /\ (past # NoDate => Before(obj, past, neg))
       /\ ("days" \in units => back = obj)
  BY <1>7, <1>8, <1>9, <1>13, <1>14
<1> QED BY <1>15, <1>16 DEF LeadsTo, back, past, neg, last

\* In every state, for every set of units.
LEMMA AddsDifferencesBack == DatesInv => DifferenceAddsBack
<1> SUFFICES ASSUME DatesInv
             PROVE  DifferenceAddsBack
  OBVIOUS
<1>1. IsDate(obj) /\ IsDate(other)
  BY DEF DatesInv
<1>2. LET m == minus(obj, other) IN
        /\ ShiftDate(other, m.months, m.days) = obj
        /\ (m.months >= 0 /\ m.days >= 0) \/ (m.months <= 0 /\ m.days <= 0)
  BY <1>1, MinusAddsBack
<1>3. ASSUME NEW units \in (SUBSET Names(CalendarUnit)) \ {{}}
      PROVE  SinceLeadsTo(date_since_iddelta(obj, other, units, "trunc", 1), units)
  <2> DEFINE s == date_since_iddelta(obj, other, units, "trunc", 1)
  <2> HIDE DEF s
  <2>1. s.ok => LeadsTo(s, smallest(CalendarUnit, units), units, DateLess(obj, other))
    BY <1>1, LeadsToTarget DEF s
  <2> QED BY <2>1 DEF SinceLeadsTo, s
<1> QED BY <1>2, <1>3 DEF DifferenceAddsBack

\* Date.since and Date.until with rounding, for all dates that the operations can
\* reach and all increments: the result is the multiple of the increment that the
\* mode asks for, measured in days between the two neighbouring dates.
THEOREM DifferencesRound == MCSpec => []DifferenceRoundsByMode
  BY DatesInvariance, RoundsDifferences, PTL

\* Date.since and Date.until, for all dates that the operations can reach and all
\* sets of units: the difference never leads past its target, one more of its
\* smallest unit does, its parts have one sign, and with days among the units it
\* leads exactly to the target; so does the deprecated `-`.
THEOREM DifferencesAddBack == MCSpec => []DifferenceAddsBack
  BY DatesInvariance, AddsDifferencesBack, PTL

(***************************************************************************)
(* POSIX TZ strings.  Which year a lookup asks the rules about hardly      *)
(* matters: around New Year the rules of both years give the same answer.  *)
(***************************************************************************)

\* Bounds of a product carry over to the quotient.
LEMMA QuotientBounds ==
    ASSUME NEW h \in Nat \ {0}, NEW t \in Int, NEW a \in Int
    PROVE  /\ t \div h \in Int
           /\ a * h <= t => a <= t \div h
           /\ t < a * h => t \div h < a
           /\ (t \div h) * h <= t /\ t < ((t \div h) + 1) * h
<1> DEFINE q == t \div h
           r == t % h
           w == a - q
<1>1. t = h * q + r /\ q \in Int /\ r \in Nat /\ r < h
  BY DivSplit
<1> HIDE DEF q, r
<1>2. w \in Int /\ a * h = h * q + h * w /\ q * h = h * q /\ (q + 1) * h = h * q + h
  BY <1>1, SMT
<1>3. h * q \in Int /\ h * w \in Int
  BY <1>1, <1>2, SMT
<1>4. (w >= 1 => h * w >= h) /\ (w <= 0 => h * w <= 0)
  BY <1>2, SMT
<1> HIDE DEF w
<1>5. (a * h <= t => w <= 0) /\ (t < a * h => w >= 1)
  BY <1>1, <1>2, <1>3, <1>4, SMT
<1> QED BY <1>1, <1>2, <1>3, <1>5, SMT DEF w, q

\* The hours a year begins with, in order and in range.
LEMMA YearHours ==
    ASSUME NEW y \in Years
    PROVE  /\ NewYear(y) \in Int /\ NewYear(y + 1) \in Int
           /\ EpochMin <= NewYear(y) /\ NewYear(y + 1) <= EpochMax + 1
           /\ \A z \in Years : y < z => NewYear(y + 1) <= NewYear(z)
<1> DEFINE h == HoursPerDay
           a == unix_days_at_jan1(y)
           b == unix_days_at_jan1(y + 1)
<1>1. y \in Int /\ 1 <= y /\ y <= 9999
  BY YearsRange
<1>2. h \in Nat \ {0} /\ EpochMin = UnixDaysMin * h /\ EpochMax = (UnixDaysMax + 1) * h - 1
  BY HoursAssumption
<1>3. UnixDaysMin = -719162 /\ UnixDaysMax + 1 = 2932897
  BY SMT DEF UnixDaysMin, UnixDaysMax
<1>4. a \in Int /\ b \in Int /\ -719162 <= a /\ b <= 2932897
  BY <1>1, SMT DEF unix_days_at_jan1, days_before, UnixDaysMin
<1>5. \A p \in Int, q \in Int : p <= q => p * h <= q * h /\ p * h \in Int /\ q * h \in Int
  BY <1>2, SMT
<1>6. NewYear(y) = a * h /\ NewYear(y + 1) = b * h
  BY DEF NewYear
<1>7. EpochMin <= NewYear(y) /\ NewYear(y + 1) <= EpochMax + 1
  <2>1. (-719162) * h <= a * h /\ b * h <= 2932897 * h
    <3>1. -719162 \in Int /\ 2932897 \in Int
      BY SMT
    <3> HIDE DEF a, b, h
    <3> QED BY <1>4, <1>5, <3>1, SMT
  <2>2. 2932897 * h \in Int
    BY <1>2, SMT
  <2> HIDE DEF h, a, b
  <2>3. EpochMax + 1 = 2932897 * h /\ EpochMin = (-719162) * h
    BY <1>2, <1>3, <2>2, SMT
  <2> QED BY <1>6, <2>1, <2>3, SMT
<1>8. ASSUME NEW z \in Years, y < z PROVE NewYear(y + 1) <= NewYear(z)
  <2> DEFINE c == unix_days_at_jan1(z)
  <2>1. z \in Int
    BY YearsRange
  <2>2. c \in Int /\ b <= c
    BY <1>1, <1>8, <2>1, SMT DEF unix_days_at_jan1, days_before, UnixDaysMin
  <2>3. NewYear(z) = c * h
    BY DEF NewYear
  <2> HIDE DEF b, c, h
  <2> QED BY <1>4, <1>5, <1>6, <2>2, <2>3, SMT
<1>9. NewYear(y) \in Int /\ NewYear(y + 1) \in Int
  <2> HIDE DEF a, b, h
  <2> QED BY <1>2, <1>4, <1>6, SMT
<1> QED BY <1>7, <1>8, <1>9

\* The year of a time: the one whose hours it is among.
LEMMA YearOfHour ==
    ASSUME NEW t \in Epochs
    PROVE  YearOf(t) \in Years /\ NewYear(YearOf(t)) <= t /\ t < NewYear(YearOf(t) + 1)
<1> DEFINE h == HoursPerDay
           n == t \div h
           d == UnixDaysDate(n)
           y == d.year
           a == unix_days_at_jan1(y)
           b == unix_days_at_jan1(y + 1)
<1>1. h \in Nat \ {0} /\ EpochMin = UnixDaysMin * h /\ EpochMax = (UnixDaysMax + 1) * h - 1
  BY HoursAssumption
<1>2. t \in Int /\ EpochMin <= t /\ t <= EpochMax
  BY RangeAssumption DEF Epochs
<1>3. UnixDaysMin = -719162 /\ UnixDaysMax + 1 = 2932897
  BY SMT DEF UnixDaysMin, UnixDaysMax
<1>4. n \in Int /\ -719162 <= n /\ n <= 2932896 /\ n * h <= t /\ t < (n + 1) * h
  <2>1. /\ n \in Int /\ n * h <= t /\ t < (n + 1) * h
        /\ (-719162) * h <= t => -719162 <= n
        /\ t < 2932897 * h => n < 2932897
    <3>1. -719162 \in Int /\ 2932897 \in Int
      BY SMT
    <3> HIDE DEF h
    <3> QED BY <1>1, <1>2, <3>1, QuotientBounds
  <2>2. (-719162) * h <= t
    BY <1>1, <1>2, <1>3
  <2>3. t < 2932897 * h
    <3>1. 2932897 * h \in Int
      BY <1>1, SMT
    <3>2. EpochMax = 2932897 * h - 1
      BY <1>1, <1>3
    <3> HIDE DEF h
    <3> QED BY <1>2, <3>1, <3>2, SMT
  <2> HIDE DEF n
  <2> QED BY <2>1, <2>2, <2>3, SMT
<1>5. n \in UnixDays
  <2> HIDE DEF n
  <2> QED BY <1>4, InUnixDays, SMT
<1> HIDE DEF n
<1>6. IsDate(d) /\ unix_days(d) = n
  BY <1>5, UnixDaysDateSound
<1> HIDE DEF d
<1>7. y \in Years /\ y \in Int
  <2>1. y \in Int /\ 1 <= y /\ y <= 9999
    BY <1>6, PartsOfDate
  <2> QED BY <2>1, InYears
<1>8. a <= n /\ n + 1 <= b /\ a \in Int /\ b \in Int
  <2> DEFINE k == day_of_year(d)
             v == days_before(y)
             w == DaysInYear(y)
  <2>1. k \in Int /\ 1 <= k /\ k <= w /\ n = v + k - 719163
    BY <1>6, DaysOfYear
  <2>2. v \in Int /\ w \in Int
    BY <1>6, <1>7, UnixDaysType, SMT DEF DaysInYear
  <2>3. days_before(y + 1) = v + w
    BY <1>7, YearLength
  <2>4. a = v + (-719162) /\ b = (v + w) + (-719162)
    BY <2>3, <1>3 DEF unix_days_at_jan1
  <2> HIDE DEF k, v, w, a, b
  <2> QED BY <1>4, <2>1, <2>2, <2>4, SMT
<1>9. \A p \in Int, q \in Int : p <= q => p * h <= q * h /\ p * h \in Int /\ q * h \in Int
  BY <1>1, SMT
<1>10. NewYear(y) = a * h /\ NewYear(y + 1) = b * h
  BY DEF NewYear
<1>11. YearOf(t) = y
  BY DEF YearOf, d, n
<1> HIDE DEF a, b, h, y
<1>12. n + 1 \in Int
  BY <1>4
<1>13. a * h <= n * h /\ (n + 1) * h <= b * h /\ a * h \in Int /\ b * h \in Int /\ n * h \in Int /\ (n + 1) * h \in Int
  BY <1>4, <1>8, <1>9, <1>12
<1>14. a * h <= t /\ t < b * h
  BY <1>2, <1>4, <1>13
<1> QED BY <1>7, <1>10, <1>11, <1>14

\* A string with DST rules that are settled.
WithDst(tz) ==
    tz.dst # <<>> /\ tz.std \in Offsets /\ tz.dst[1].offset \in Offsets /\ Settled(tz)

\* How much the clocks change.
DstChange(tz) == Abs(tz.dst[1].offset - tz.std)

\* In which order DST begins and ends in the years of a string.
North(tz, y) == DstStart(tz, y) + 2 * DstChange(tz) < DstEnd(tz, y)
South(tz, y) == DstEnd(tz, y) + 2 * DstChange(tz) < DstStart(tz, y)

\* The numbers of a settled string in a year.
LEMMA SettledYear ==
    ASSUME NEW tz, WithDst(tz), NEW y \in Years
    PROVE  /\ tz.std \in Int /\ tz.dst[1].offset \in Int /\ HoursPerDay \in Nat \ {0}
           /\ DstChange(tz) \in Nat /\ Margin = 4 * HoursPerDay
           /\ -HoursPerDay < tz.std /\ tz.std < HoursPerDay
           /\ -HoursPerDay < tz.dst[1].offset /\ tz.dst[1].offset < HoursPerDay
           /\ DstStart(tz, y) \in Int /\ DstEnd(tz, y) \in Int
           /\ NewYear(y) + Margin <= DstStart(tz, y) /\ DstStart(tz, y) <= NewYear(y + 1) - Margin
           /\ NewYear(y) + Margin <= DstEnd(tz, y) /\ DstEnd(tz, y) <= NewYear(y + 1) - Margin
<1>1. HoursPerDay \in Nat \ {0} /\ OffsetMax = HoursPerDay - 1
  BY HoursAssumption
<1>2. tz.std \in Int /\ -OffsetMax <= tz.std /\ tz.std <= OffsetMax
  BY RangeAssumption DEF WithDst, Offsets
<1>3. tz.dst[1].offset \in Int /\ -OffsetMax <= tz.dst[1].offset /\ tz.dst[1].offset <= OffsetMax
  BY RangeAssumption DEF WithDst, Offsets
<1>4. {DstStart(tz, y), DstEnd(tz, y)} \subseteq NewYear(y) + Margin .. NewYear(y + 1) - Margin
  BY DEF WithDst, Settled
<1>5. NewYear(y) \in Int /\ NewYear(y + 1) \in Int /\ Margin \in Int
  BY <1>1, YearHours DEF Margin
<1>6. \A x \in {DstStart(tz, y), DstEnd(tz, y)} :
        x \in Int /\ NewYear(y) + Margin <= x /\ x <= NewYear(y + 1) - Margin
  BY <1>4, <1>5
<1>7. DstChange(tz) \in Nat
  BY <1>2, <1>3 DEF DstChange, Abs
<1> QED BY <1>1, <1>2, <1>3, <1>6, <1>7 DEF Margin

\* All its years have one order.
LEMMA SettledOrder ==
    ASSUME NEW tz, WithDst(tz)
    PROVE  (\A y \in Years : North(tz, y)) \/ (\A y \in Years : South(tz, y))
  BY DEF WithDst, Settled, North, South, DstChange

\* Whether the rules of the year y put the instant t into DST.
DstIn(tz, y, t) ==
    LET start == DstStart(tz, y) - tz.std
        end == DstEnd(tz, y) - tz.dst[1].offset
    IN  IF DstStart(tz, y) < DstEnd(tz, y) THEN start <= t /\ t < end
        ELSE ~(end <= t /\ t < start)

\* No clamp changes the transitions of a year, by instant.
LEMMA TransitionsOfYear ==
    ASSUME NEW tz, WithDst(tz), NEW y \in Years
    PROVE  LET tr == utc_transitions_for_year(tz, y) IN
           /\ tr.start.at = DstStart(tz, y) - tz.std /\ tr.start.offset = tz.dst[1].offset
           /\ tr.end.at = DstEnd(tz, y) - tz.dst[1].offset /\ tr.end.offset = tz.std
           /\ \A t \in Int : InForce(tr, t) <=> DstIn(tz, y, t)
           /\ tr.start.at < tr.end.at <=> DstStart(tz, y) < DstEnd(tz, y)
           /\ tr.start.at # tr.end.at
<1> DEFINE tr == utc_transitions_for_year(tz, y)
           s == DstStart(tz, y)
           e == DstEnd(tz, y)
           o == tz.std
           p == tz.dst[1].offset
           h == HoursPerDay
           a == NewYear(y)
           b == NewYear(y + 1)
           d == DstChange(tz)
<1>1. /\ o \in Int /\ p \in Int /\ h \in Nat \ {0} /\ d \in Nat /\ Margin = 4 * h
      /\ -h < o /\ o < h /\ -h < p /\ p < h
      /\ s \in Int /\ e \in Int
      /\ a + Margin <= s /\ s <= b - Margin /\ a + Margin <= e /\ e <= b - Margin
  BY SettledYear
<1>2. a \in Int /\ b \in Int /\ EpochMin <= a /\ b <= EpochMax + 1 /\ EpochMin \in Int /\ EpochMax \in Int
  BY YearHours, RangeAssumption
<1>3. s + 2 * d < e \/ e + 2 * d < s
  BY SettledOrder DEF North, South
<1>4. d = Abs(p - o)
  BY DEF DstChange
<1>5. tr = [start |-> [at |-> clamp(s - o), offset |-> p], end |-> [at |-> clamp(e - p), offset |-> o]]
  BY DEF utc_transitions_for_year, DstStart, DstEnd
<1> HIDE DEF tr, s, e, o, p, h, a, b, d
<1>6. clamp(s - o) = s - o /\ clamp(e - p) = e - p
  <2>1. s - o \in Int /\ EpochMin <= s - o /\ s - o <= EpochMax
    BY <1>1, <1>2
  <2>2. e - p \in Int /\ EpochMin <= e - p /\ e - p <= EpochMax
    BY <1>1, <1>2
  <2> QED BY <2>1, <2>2, ClampInRange
<1>7. /\ tr.start.at = s - o /\ tr.start.offset = p
      /\ tr.end.at = e - p /\ tr.end.offset = o
  BY <1>5, <1>6
<1>8. (s - o < e - p <=> s < e) /\ s - o # e - p
  BY <1>1, <1>3, <1>4 DEF Abs
<1>9. ASSUME NEW t \in Int PROVE InForce(tr, t) <=> DstIn(tz, y, t)
  BY <1>7, <1>8 DEF InForce, DstIn, s, e, o, p
<1>10. /\ tr.start.at = s - o /\ tr.start.offset = p
       /\ tr.end.at = e - p /\ tr.end.offset = o
       /\ \A t \in Int : InForce(tr, t) <=> DstIn(tz, y, t)
       /\ tr.start.at < tr.end.at <=> s < e
       /\ tr.start.at # tr.end.at
  BY <1>7, <1>8, <1>9
<1> QED BY <1>10 DEF tr, s, e, o, p

\* After both transitions of a year, and before both of another, DST is in force
\* or not as the order of the string has it.
LEMMA OutsideTransitions ==
    ASSUME NEW tz, WithDst(tz), NEW y \in Years, NEW t \in Int,
           \/ t < DstStart(tz, y) - tz.std /\ t < DstEnd(tz, y) - tz.dst[1].offset
           \/ DstStart(tz, y) - tz.std <= t /\ DstEnd(tz, y) - tz.dst[1].offset <= t
    PROVE  DstIn(tz, y, t) <=> South(tz, y)
<1> DEFINE s == DstStart(tz, y)
           e == DstEnd(tz, y)
           o == tz.std
           p == tz.dst[1].offset
           d == DstChange(tz)
<1>1. s \in Int /\ e \in Int /\ o \in Int /\ p \in Int /\ d \in Nat
  BY SettledYear
<1>2. s + 2 * d < e \/ e + 2 * d < s
  BY SettledOrder DEF North, South
<1>3. South(tz, y) <=> e + 2 * d < s
  BY DEF South
<1>4. DstIn(tz, y, t) <=> IF s < e THEN s - o <= t /\ t < e - p ELSE ~(e - p <= t /\ t < s - o)
  BY DEF DstIn
<1>5. \/ t < s - o /\ t < e - p
      \/ s - o <= t /\ e - p <= t
  OBVIOUS
<1> HIDE DEF s, e, o, p, d
<1>6. (s < e <=> s + 2 * d < e) /\ (~(s < e) <=> e + 2 * d < s)
  BY <1>1, <1>2
<1>7. CASE s < e
  <2>1. ~(s - o <= t /\ t < e - p)
    BY <1>1, <1>5
  <2> QED BY <1>3, <1>4, <1>6, <1>7, <2>1
<1>8. CASE ~(s < e)
  <2>1. ~(e - p <= t /\ t < s - o)
    BY <1>1, <1>5
  <2> QED BY <1>3, <1>4, <1>6, <1>8, <2>1
<1> QED BY <1>7, <1>8

\* The rules of a year hold up to two days before and after it (is_dst_at asks the
\* year of the standard time, mapping_for_local that of the local time).
LEMMA RulesOfNearYear ==
    ASSUME NEW tz, WithDst(tz), NEW y \in Years, NEW t \in Int, t + tz.std \in Epochs,
           NewYear(y) - 2 * HoursPerDay <= t + tz.std,
           t + tz.std < NewYear(y + 1) + 2 * HoursPerDay
    PROVE  is_dst_at(tz, t) <=> DstIn(tz, y, t)
<1> DEFINE o == tz.std
           p == tz.dst[1].offset
           h == HoursPerDay
           x == t + o
           z == YearOf(x)
<1>1. /\ o \in Int /\ p \in Int /\ h \in Nat \ {0} /\ Margin = 4 * h
      /\ -h < o /\ o < h /\ -h < p /\ p < h
  BY SettledYear
<1>2. x \in Int /\ EpochMin <= x /\ x <= EpochMax /\ x \in Epochs
  BY <1>1, RangeAssumption DEF Epochs
<1>3. StdYear(tz, t) = z
  <2>1. clamp(x) = x
    BY <1>2, ClampInRange
  <2> QED BY <2>1 DEF StdYear
<1>4. z \in Years /\ NewYear(z) <= x /\ x < NewYear(z + 1)
  BY <1>2, YearOfHour
<1>5. is_dst_at(tz, t) <=> DstIn(tz, z, t)
  <2>1. InForce(utc_transitions_for_year(tz, z), t) <=> DstIn(tz, z, t)
    BY <1>4, TransitionsOfYear
  <2> QED BY <1>3, <2>1 DEF is_dst_at, WithDst
<1>6. y \in Int /\ z \in Int
  BY <1>4, YearsRange
<1>7. /\ NewYear(y) \in Int /\ NewYear(y + 1) \in Int /\ NewYear(z) \in Int /\ NewYear(z + 1) \in Int
      /\ y < z => NewYear(y + 1) <= NewYear(z)
      /\ z < y => NewYear(z + 1) <= NewYear(y)
  BY <1>4, YearHours
<1>8. /\ NewYear(y) - 2 * h <= x /\ x < NewYear(y + 1) + 2 * h
  OBVIOUS
<1> HIDE DEF z
<1>9. /\ \A w \in {y, z} :
            /\ DstStart(tz, w) \in Int /\ DstEnd(tz, w) \in Int
            /\ NewYear(w) + Margin <= DstStart(tz, w) /\ DstStart(tz, w) <= NewYear(w + 1) - Margin
            /\ NewYear(w) + Margin <= DstEnd(tz, w) /\ DstEnd(tz, w) <= NewYear(w + 1) - Margin
  BY <1>4, SettledYear
<1>10. t = x - o
  BY <1>1
<1> HIDE DEF x, o, p, h
<1>11. South(tz, y) <=> South(tz, z)
  <2>1. \A w \in Years : ~(North(tz, w) /\ South(tz, w))
    <3> TAKE w \in Years
    <3>1. DstStart(tz, w) \in Int /\ DstEnd(tz, w) \in Int /\ DstChange(tz) \in Nat
      BY SettledYear
    <3> QED BY <3>1 DEF North, South
  <2> QED BY <1>4, <2>1, SettledOrder
<1>12. CASE z = y
  BY <1>5, <1>12
<1>13. CASE z < y
  <2>1. DstStart(tz, z) - o <= t /\ DstEnd(tz, z) - p <= t
    BY <1>1, <1>2, <1>7, <1>8, <1>9, <1>10, <1>13
  <2>2. t < DstStart(tz, y) - o /\ t < DstEnd(tz, y) - p
    BY <1>1, <1>2, <1>4, <1>7, <1>9, <1>10, <1>13
  <2> QED BY <1>4, <1>5, <1>11, <2>1, <2>2, OutsideTransitions DEF o, p
<1>14. CASE y < z
  <2>1. DstStart(tz, y) - o <= t /\ DstEnd(tz, y) - p <= t
    BY <1>1, <1>2, <1>4, <1>7, <1>9, <1>10, <1>14
  <2>2. t < DstStart(tz, z) - o /\ t < DstEnd(tz, z) - p
    BY <1>1, <1>2, <1>7, <1>8, <1>9, <1>10, <1>14
  <2> QED BY <1>4, <1>5, <1>11, <2>1, <2>2, OutsideTransitions DEF o, p
<1> QED BY <1>6, <1>12, <1>13, <1>14

\* What YearMapping answers for a year in which off2 is in force between t1, on
\* the clock of off1, and t2, on that of off2.
LEMMA YearMappingReads ==
    ASSUME NEW l \in Int, NEW t1 \in Int, NEW t2 \in Int, NEW off1 \in Int, NEW off2 \in Int,
           NEW shift \in Int, shift = off2 - off1, t1 + 2 * Abs(shift) < t2,
           t1 + shift \in Epochs, t2 - shift \in Epochs, NEW R, R \subseteq {off1, off2},
           off1 \in R <=> (off1 = off2 \/ ~(t1 <= l /\ l < t2 - shift)),
           off2 \in R <=> (off1 = off2 \/ (t1 + shift <= l /\ l < t2))
    PROVE  Inverts(YearMapping(l, t1, t2, off1, off2, shift), R)
<1> DEFINE m == YearMapping(l, t1, t2, off1, off2, shift)
           a == t1 + shift
           b == t2 - shift
<1>1. clamp(a) = a /\ clamp(b) = b /\ a \in Int /\ b \in Int
  <2>1. EpochMin \in Int /\ EpochMax \in Int
    BY RangeAssumption
  <2>2. a \in Int /\ b \in Int /\ EpochMin <= a /\ a <= EpochMax /\ EpochMin <= b /\ b <= EpochMax
    BY <2>1 DEF Epochs
  <2> QED BY <2>2, ClampInRange
<1>2. m = IF shift >= 0
          THEN IF l < t1 THEN Unique(off1)
               ELSE IF l < a THEN Gap(a, off1, off2)
               ELSE IF l < b THEN Unique(off2)
               ELSE IF l < t2 THEN Fold(t2, off2, off1)
               ELSE Unique(off1)
          ELSE IF l < a THEN Unique(off1)
               ELSE IF l < t1 THEN Fold(t1, off1, off2)
               ELSE IF l < t2 THEN Unique(off2)
               ELSE IF l < b THEN Gap(b, off2, off1)
               ELSE Unique(off1)
  BY <1>1 DEF YearMapping
<1>3. /\ shift > 0 => t1 < a /\ a < b /\ b < t2 /\ off1 < off2
      /\ shift < 0 => a < t1 /\ t1 < t2 /\ t2 < b /\ off2 < off1
      /\ shift = 0 => a = t1 /\ b = t2 /\ t1 < t2 /\ off1 = off2
  BY DEF Abs
<1>4. /\ off1 \in R <=> (off1 = off2 \/ ~(t1 <= l /\ l < b))
      /\ off2 \in R <=> (off1 = off2 \/ (a <= l /\ l < t2))
  OBVIOUS
<1> SUFFICES Inverts(m, R)
  OBVIOUS
<1> HIDE DEF m, a, b
<1>5. ASSUME NEW o \in {off1, off2}, m = Unique(o), \A x \in {off1, off2} : x \in R <=> x = o
      PROVE  Inverts(m, R)
  <2>1. R = {o} /\ m.kind = "unique" /\ m.offset = o
    BY <1>5 DEF Unique
  <2> QED BY <2>1 DEF Inverts
<1>6. ASSUME NEW t, NEW x \in {off1, off2}, NEW y \in {off1, off2}, m = Fold(t, x, y), y < x,
             off1 \in R, off2 \in R
      PROVE  Inverts(m, R)
  <2>1. x \in Int /\ y \in Int /\ y < x
    BY <1>6
  <2>2. x > y /\ x # y
    BY <2>1
  <2>3. R = {x, y}
    <3>1. {x, y} = {off1, off2}
      BY <2>2
    <3>2. R = {off1, off2}
      BY <1>6
    <3> QED BY <3>1, <3>2
  <2>4. m.kind = "fold" /\ m.before = x /\ m.after = y
    BY <1>6 DEF Fold
  <2> QED BY <2>2, <2>3, <2>4 DEF Inverts
<1>7. ASSUME NEW t, NEW x \in {off1, off2}, NEW y \in {off1, off2}, m = Gap(t, x, y), x < y,
             off1 \notin R, off2 \notin R
      PROVE  Inverts(m, R)
  <2>1. R = {} /\ m.kind = "gap" /\ m.before = x /\ m.after = y
    BY <1>7 DEF Gap
  <2> QED BY <2>1, <1>7 DEF Inverts
<1>8. CASE shift = 0
  <2>1. m = Unique(off1)
    BY <1>1, <1>2, <1>3, <1>8
  <2> QED BY <1>3, <1>4, <1>5, <1>8, <2>1
<1>9. CASE shift > 0
  <2>1. CASE l < t1 \/ t2 <= l
    <3>1. m = Unique(off1) /\ off1 \in R /\ off2 \notin R
      BY <1>1, <1>2, <1>3, <1>4, <1>9, <2>1
    <3> QED BY <1>5, <3>1
  <2>2. CASE t1 <= l /\ l < a
    <3>1. m = Gap(a, off1, off2) /\ off1 \notin R /\ off2 \notin R
      BY <1>1, <1>2, <1>3, <1>4, <1>9, <2>2
    <3> QED BY <1>3, <1>7, <1>9, <3>1
  <2>3. CASE a <= l /\ l < b
    <3>1. m = Unique(off2) /\ off1 \notin R /\ off2 \in R
      BY <1>1, <1>2, <1>3, <1>4, <1>9, <2>3
    <3> QED BY <1>5, <3>1
  <2>4. CASE b <= l /\ l < t2
    <3>1. m = Fold(t2, off2, off1) /\ off1 \in R /\ off2 \in R
      BY <1>1, <1>2, <1>3, <1>4, <1>9, <2>4
    <3> QED BY <1>3, <1>6, <1>9, <3>1
  <2> QED BY <1>1, <2>1, <2>2, <2>3, <2>4
<1>10. CASE shift < 0
  <2>1. CASE l < a \/ b <= l
    <3>1. m = Unique(off1) /\ off1 \in R /\ off2 \notin R
      BY <1>1, <1>2, <1>3, <1>4, <1>10, <2>1
    <3> QED BY <1>5, <3>1
  <2>2. CASE a <= l /\ l < t1
    <3>1. m = Fold(t1, off1, off2) /\ off1 \in R /\ off2 \in R
      BY <1>1, <1>2, <1>3, <1>4, <1>10, <2>2
    <3> QED BY <1>3, <1>6, <1>10, <3>1
  <2>3. CASE t1 <= l /\ l < t2
    <3>1. m = Unique(off2) /\ off1 \notin R /\ off2 \in R
      BY <1>1, <1>2, <1>3, <1>4, <1>10, <2>3
    <3> QED BY <1>5, <3>1
  <2>4. CASE t2 <= l /\ l < b
    <3>1. m = Gap(b, off2, off1) /\ off1 \notin R /\ off2 \notin R
      BY <1>1, <1>2, <1>3, <1>4, <1>10, <2>4
    <3> QED BY <1>3, <1>7, <1>10, <3>1
  <2> QED BY <1>1, <2>1, <2>2, <2>3, <2>4
<1> QED BY <1>8, <1>9, <1>10

\* The local times that are not within two days of the ends of time.
Inner(l) == l \in Int /\ EpochMin + 2 * HoursPerDay <= l /\ l <= EpochMax - 2 * HoursPerDay

\* The offsets of a string, and those that lead to a local time.
StringOffsets(tz) == IF tz.dst = <<>> THEN {tz.std} ELSE {tz.std, tz.dst[1].offset}
LeadTo(tz, l) == {o \in StringOffsets(tz) : PosixOffset(tz, l - o) = o}

\* A string that parse can return, with settled rules if it has any.
SettledTz(tz) == tz.std \in Offsets /\ (tz.dst = <<>> \/ WithDst(tz))

\* For every settled TZ string, of either hemisphere and with DST of either sign,
\* TzStr::mapping_for_local is the inverse of TzStr::offset_for_instant, also over
\* New Year, where one asks the rules of another year than the other.
THEOREM StringMappingInverts ==
    ASSUME NEW tz, SettledTz(tz), NEW l, Inner(l)
    PROVE  Inverts(PosixMapping(tz, l), LeadTo(tz, l))
<1>1. CASE tz.dst = <<>>
  <2>1. LeadTo(tz, l) = {tz.std}
    BY <1>1 DEF LeadTo, StringOffsets, PosixOffset, is_dst_at
  <2>2. PosixMapping(tz, l) = Unique(tz.std)
    BY <1>1 DEF PosixMapping
  <2> QED BY <2>1, <2>2 DEF Inverts, Unique
<1>2. CASE tz.dst # <<>>
  <2> DEFINE y == YearOf(l)
             s == DstStart(tz, y)
             e == DstEnd(tz, y)
             o == tz.std
             p == tz.dst[1].offset
             h == HoursPerDay
             d == DstChange(tz)
             R == LeadTo(tz, l)
  <2>1. WithDst(tz)
    BY <1>2 DEF SettledTz
  <2>2. l \in Int /\ l \in Epochs /\ EpochMin + 2 * h <= l /\ l <= EpochMax - 2 * h
        /\ EpochMin \in Int /\ EpochMax \in Int
    <3>1. h \in Nat
      BY HoursAssumption
    <3>2. EpochMin \in Int /\ EpochMax \in Int /\ l \in Int /\ EpochMin + 2 * h <= l /\ l <= EpochMax - 2 * h
      BY RangeAssumption DEF Inner
    <3> HIDE DEF h
    <3> QED BY <3>1, <3>2 DEF Epochs
  <2>3. y \in Years /\ NewYear(y) <= l /\ l < NewYear(y + 1)
    BY <2>2, YearOfHour
  <2> HIDE DEF y
  <2>4. /\ o \in Int /\ p \in Int /\ h \in Nat \ {0} /\ d \in Nat /\ Margin = 4 * h
        /\ -h < o /\ o < h /\ -h < p /\ p < h
        /\ s \in Int /\ e \in Int
        /\ NewYear(y) + Margin <= s /\ s <= NewYear(y + 1) - Margin
        /\ NewYear(y) + Margin <= e /\ e <= NewYear(y + 1) - Margin
    BY <2>1, <2>3, SettledYear
  <2>5. /\ NewYear(y) \in Int /\ NewYear(y + 1) \in Int
        /\ EpochMin <= NewYear(y) /\ NewYear(y + 1) <= EpochMax + 1
    BY <2>3, YearHours
  <2>6. d = Abs(p - o) /\ (s + 2 * d < e \/ e + 2 * d < s)
    BY <2>1, <2>3, SettledOrder DEF North, South, DstChange
  <2>7. is_dst_at(tz, l - o) <=> DstIn(tz, y, l - o)
    <3> DEFINE t == l - o
    <3>1. t \in Int /\ t + o = l
      BY <2>2, <2>4
    <3>2. NewYear(y) - 2 * h <= t + o /\ t + o < NewYear(y + 1) + 2 * h
      BY <2>2, <2>3, <2>4, <2>5, <3>1
    <3> HIDE DEF t
    <3> QED BY <2>1, <2>2, <2>3, <3>1, <3>2, RulesOfNearYear DEF t
  <2>8. is_dst_at(tz, l - p) <=> DstIn(tz, y, l - p)
    <3> DEFINE t == l - p
    <3>1. t \in Int /\ t + o \in Int /\ EpochMin <= t + o /\ t + o <= EpochMax
      BY <2>2, <2>4
    <3>2. NewYear(y) - 2 * h <= t + o /\ t + o < NewYear(y + 1) + 2 * h
      BY <2>2, <2>3, <2>4, <2>5
    <3> HIDE DEF t
    <3>3. t + o \in Epochs
      BY <2>2, <3>1 DEF Epochs
    <3> QED BY <2>1, <2>3, <3>1, <3>2, <3>3, RulesOfNearYear DEF t
  <2>9. \A t : DstIn(tz, y, t) <=> IF s < e THEN s - o <= t /\ t < e - p
                                   ELSE ~(e - p <= t /\ t < s - o)
    BY DEF DstIn
  <2>10. /\ R \subseteq {o, p}
         /\ o \in R <=> (o = p \/ ~is_dst_at(tz, l - o))
         /\ p \in R <=> (o = p \/ is_dst_at(tz, l - p))
    <3>1. R = {x \in {o, p} : PosixOffset(tz, l - x) = x}
      BY <1>2 DEF LeadTo, StringOffsets
    <3>2. \A t : PosixOffset(tz, t) = IF is_dst_at(tz, t) THEN p ELSE o
      BY DEF PosixOffset
    <3> HIDE DEF R, o, p
    <3> QED BY <3>1, <3>2
  <2>11. PosixMapping(tz, l) = IF s < e THEN YearMapping(l, s, e, o, p, p - o)
                               ELSE YearMapping(l, e, s, p, o, o - p)
    BY <1>2 DEF PosixMapping, MappingOfRules, DstStart, DstEnd, y
  <2> HIDE DEF s, e, o, p, h, d, R
  <2>12. CASE s < e
    <3> DEFINE w == p - o
    <3>1. /\ w \in Int /\ s + 2 * Abs(w) < e
      BY <2>4, <2>6, <2>12
    <3>2. s + w \in Epochs /\ e - w \in Epochs
      <4>1. EpochMin <= s + w /\ s + w <= EpochMax /\ EpochMin <= e - w /\ e - w <= EpochMax
        BY <2>2, <2>4, <2>5
      <4> QED BY <2>2, <2>4, <4>1 DEF Epochs
    <3>3. /\ o \in R <=> (o = p \/ ~(s <= l /\ l < e - w))
          /\ p \in R <=> (o = p \/ (s + w <= l /\ l < e))
      <4>1. DstIn(tz, y, l - o) <=> s <= l /\ l < e - w
        BY <2>2, <2>4, <2>9, <2>12
      <4>2. DstIn(tz, y, l - p) <=> s + w <= l /\ l < e
        BY <2>2, <2>4, <2>9, <2>12
      <4> QED BY <2>7, <2>8, <2>10, <4>1, <4>2 DEF o, p
    <3>4. w = p - o /\ R \subseteq {o, p}
      BY <2>10
    <3> HIDE DEF w
    <3>5. Inverts(YearMapping(l, s, e, o, p, w), R)
      BY <2>2, <2>4, <3>1, <3>2, <3>3, <3>4, YearMappingReads, ZenonT(40)
    <3> QED BY <2>11, <2>12, <3>4, <3>5 DEF R
  <2>13. CASE ~(s < e)
    <3> DEFINE w == o - p
    <3>1. /\ w \in Int /\ e + 2 * Abs(w) < s
      BY <2>4, <2>6, <2>13 DEF Abs
    <3>2. e + w \in Epochs /\ s - w \in Epochs
      <4>1. EpochMin <= e + w /\ e + w <= EpochMax /\ EpochMin <= s - w /\ s - w <= EpochMax
        BY <2>2, <2>4, <2>5
      <4> QED BY <2>2, <2>4, <4>1 DEF Epochs
    <3>3. /\ p \in R <=> (p = o \/ ~(e <= l /\ l < s - w))
          /\ o \in R <=> (p = o \/ (e + w <= l /\ l < s))
      <4>1. DstIn(tz, y, l - p) <=> ~(e <= l /\ l < s - w)
        BY <2>2, <2>4, <2>9, <2>13
      <4>2. ~DstIn(tz, y, l - o) <=> e + w <= l /\ l < s
        BY <2>2, <2>4, <2>9, <2>13
      <4> QED BY <2>7, <2>8, <2>10, <4>1, <4>2 DEF o, p
    <3>4. w = o - p /\ R \subseteq {p, o}
      BY <2>10
    <3> HIDE DEF w
    <3>5. Inverts(YearMapping(l, e, s, p, o, w), R)
      BY <2>2, <2>4, <3>1, <3>2, <3>3, <3>4, YearMappingReads, ZenonT(40)
    <3> QED BY <2>11, <2>13, <3>4, <3>5 DEF R
  <2> QED BY <2>12, <2>13
<1> QED BY <1>1, <1>2

\* A zone of module PosixTz: a string alone, or recorded transitions before it.
FooterZone(z, tz) == z = parse_posix(tz) \/ HandsOver(z, tz)

\* Either has the string at its end.
LEMMA FooterEnd ==
    ASSUME NEW z, NEW tz, FooterZone(z, tz)
    PROVE  z.end = <<tz>> /\ z.end # <<>> /\ z.end[1] = tz
<1>1. z = parse_posix(tz) => z.end = <<tz>>
  BY DEF parse_posix
<1>2. HandsOver(z, tz) => z.end = <<tz>>
  BY DEF HandsOver
<1>3. z.end = <<tz>>
  BY <1>1, <1>2 DEF FooterZone
<1> QED BY <1>3

\* The offsets that lead to a local time in such a zone.
FooterLeadTo(z, l) == {o \in Offsets : FooterOffset(z, l - o) = o}

\* A string gives no other offset than its own two.
LEMMA PosixOffsetType ==
    ASSUME NEW tz, SettledTz(tz), NEW t
    PROVE  PosixOffset(tz, t) \in StringOffsets(tz) /\ StringOffsets(tz) \subseteq Offsets
<1>1. CASE tz.dst = <<>>
  BY <1>1 DEF PosixOffset, is_dst_at, StringOffsets, SettledTz
<1>2. CASE tz.dst # <<>>
  <2>1. tz.std \in Offsets /\ tz.dst[1].offset \in Offsets
    BY <1>2 DEF SettledTz, WithDst
  <2> QED BY <1>2, <2>1 DEF PosixOffset, StringOffsets
<1> QED BY <1>1, <1>2

\* What leads to a local time by the string does so among all offsets.
LEMMA LeadToAll ==
    ASSUME NEW tz, SettledTz(tz), NEW l
    PROVE  LeadTo(tz, l) = {o \in Offsets : PosixOffset(tz, l - o) = o}
<1>1. \A t : PosixOffset(tz, t) \in StringOffsets(tz)
  BY PosixOffsetType
<1>2. StringOffsets(tz) \subseteq Offsets
  BY PosixOffsetType
<1>3. LeadTo(tz, l) = {o \in StringOffsets(tz) : PosixOffset(tz, l - o) = o}
  BY DEF LeadTo
<1>4. ASSUME NEW o, PosixOffset(tz, l - o) = o PROVE o \in StringOffsets(tz)
  BY <1>1, <1>4
<1> QED BY <1>2, <1>3, <1>4

\* A table without entries is past its end at once.
LEMMA EmptyBisect ==
    ASSUME NEW arr, Len(arr) = 0, NEW x \in Int
    PROVE  bisect(arr, x) = Past(arr)
<1>1. IsFirstAfter(arr, x, 1) /\ Past(arr) = 1
  BY DEF IsFirstAfter, Past
<1> QED BY <1>1, BisectUnique

\* How far a local time that is not near the ends of time is from an instant.
LEMMA InnerInstants ==
    ASSUME NEW l, Inner(l), NEW o \in Offsets
    PROVE  /\ l \in Int /\ o \in Int /\ l - o \in Int /\ EpochMin <= l - o /\ l - o <= EpochMax
           /\ l - o \in Epochs
           /\ HoursPerDay \in Nat \ {0} /\ -HoursPerDay < o /\ o < HoursPerDay
<1> DEFINE h == HoursPerDay
<1>1. h \in Nat \ {0} /\ OffsetMax = h - 1
  BY HoursAssumption
<1>2. o \in Int /\ -h < o /\ o < h
  BY <1>1 DEF Offsets
<1>3. l \in Int /\ EpochMin + 2 * h <= l /\ l <= EpochMax - 2 * h /\ EpochMin \in Int /\ EpochMax \in Int
  BY RangeAssumption DEF Inner
<1>4. l - o \in Int /\ EpochMin <= l - o /\ l - o <= EpochMax
  <2> HIDE DEF h
  <2> QED BY <1>1, <1>2, <1>3
<1>5. l - o \in Epochs
  BY <1>3, <1>4 DEF Epochs
<1> QED BY <1>1, <1>2, <1>3, <1>4, <1>5

\* A recorded table has its sentinel.
LEMMA OneEntry ==
    ASSUME NEW z, NEW tz, HandsOver(z, tz), Len(z.utc) <= 1
    PROVE  Len(z.utc) = 1
<1> DEFINE utc == z.utc
           Entry == [at : Epochs, offset : Offsets, dst_saving : Int]
<1>1. utc \in Seq(Entry) /\ Len(utc) >= 1 /\ Len(utc) <= 1
  BY DEF HandsOver, WellFormedUtc
<1> HIDE DEF utc, Entry
<1>2. Len(utc) \in Nat
  BY <1>1
<1>3. Len(utc) = 1
  <2> DEFINE n == Len(utc)
  <2>1. n \in Nat /\ n >= 1 /\ n <= 1
    BY <1>1, <1>2
  <2> HIDE DEF n
  <2>2. n = 1
    BY <2>1
  <2> QED BY <2>2 DEF n
<1> QED BY <1>3 DEF utc

\* A zone that asks its string whatever the time, away from the ends.
LEMMA StringAlone ==
    ASSUME NEW z, NEW tz, SettledTz(tz), FooterZone(z, tz), Len(z.utc) <= 1, NEW l, Inner(l)
    PROVE  /\ FooterMapping(z, l) = PosixMapping(tz, l)
           /\ FooterLeadTo(z, l) = LeadTo(tz, l)
<1>1. z.end = <<tz>> /\ z.end # <<>> /\ z.end[1] = tz
  BY FooterEnd
<1>2. l \in Int
  BY DEF Inner
<1>3. Len(z.local) = 0
  <2>1. CASE z = parse_posix(tz)
    BY <2>1 DEF parse_posix
  <2>2. CASE HandsOver(z, tz)
    <3>1. Len(z.utc) = 1 /\ z.local = local_transitions(z.utc)
      BY <2>2, OneEntry DEF HandsOver
    <3> QED BY <3>1 DEF local_transitions
  <2> QED BY <2>1, <2>2 DEF FooterZone
<1>4. FooterMapping(z, l) = PosixMapping(tz, l)
  BY <1>1, <1>2, <1>3, EmptyBisect DEF FooterMapping
<1>5. ASSUME NEW o \in Offsets PROVE FooterOffset(z, l - o) = PosixOffset(tz, l - o)
  <2> DEFINE t == l - o
  <2>1. t \in Int /\ EpochMin <= t
    BY InnerInstants
  <2> HIDE DEF t
  <2>2. bisect(z.utc, t) = Past(z.utc)
    <3>1. CASE z = parse_posix(tz)
      BY <2>1, <3>1, EmptyBisect DEF parse_posix
    <3>2. CASE HandsOver(z, tz)
      <4>1. Len(z.utc) = 1 /\ z.utc[1].at = EpochMin
        BY <3>2, OneEntry DEF HandsOver, WellFormedUtc
      <4>2. IsFirstAfter(z.utc, t, 2)
        BY <2>1, <4>1 DEF IsFirstAfter, Past
      <4>3. \A i \in 1 .. Len(z.utc) : z.utc[i].at \in Int
        BY <4>1, RangeAssumption
      <4> QED BY <2>1, <4>1, <4>2, <4>3, BisectUnique DEF Past
    <3> QED BY <3>1, <3>2 DEF FooterZone
  <2>3. FooterOffset(z, t) = PosixOffset(tz, t)
    BY <1>1, <2>2 DEF FooterOffset
  <2> QED BY <2>3 DEF t
<1>6. FooterLeadTo(z, l) = {o \in Offsets : PosixOffset(tz, l - o) = o}
  BY <1>5 DEF FooterLeadTo
<1> QED BY <1>4, <1>6, LeadToAll

\* The table of a file, closed by its own last offset.
Closed(z) == [utc |-> z.utc, local |-> z.local, end |-> <<Final(z.utc).offset>>]

\* That table is well-formed; its order and bounds.
LEMMA ClosedFacts ==
    ASSUME NEW z, NEW tz, HandsOver(z, tz), Len(z.utc) > 1
    PROVE  LET n == Len(z.utc) IN
           /\ WellFormed(Closed(z)) /\ n \in Nat /\ n >= 2 /\ Len(z.local) = n - 1
           /\ \A i \in 1 .. n : z.utc[i].at \in Int /\ z.utc[i].offset \in Int /\ z.utc[i].offset \in Offsets
           /\ \A i \in 1 .. n - 1 : z.local[i].at = Upper(z.utc, i + 1) /\ z.local[i].at \in Int
           /\ \A i, j \in 1 .. n : i < j => z.utc[i].at < z.utc[j].at
           /\ \A i \in 2 .. n : Upper(z.utc, i) \in Int /\ Upper(z.utc, i) <= Upper(z.utc, n)
           /\ z.utc[n].at + z.utc[n].offset <= Upper(z.utc, n)
           /\ z.utc[n].at + z.utc[n - 1].offset <= Upper(z.utc, n)
<1> DEFINE c == Closed(z)
           n == Len(z.utc)
<1>1. c.utc = z.utc /\ c.local = z.local /\ c.end = <<Final(z.utc).offset>>
  BY DEF Closed
<1>2. WellFormed(c)
  BY <1>1 DEF HandsOver, WellFormed
<1> HIDE DEF c
<1>3. /\ n \in Nat /\ n >= 2 /\ Len(z.local) = n - 1
      /\ \A i \in 1 .. n : z.utc[i].at \in Int /\ z.utc[i].offset \in Int /\ z.utc[i].offset \in Offsets
      /\ \A i \in 1 .. n - 1 : z.local[i].at = Upper(z.utc, i + 1)
  BY <1>1, <1>2, ZoneFacts
<1>4. /\ \A i \in 2 .. n :
            /\ Upper(z.utc, i) \in Int /\ Lower(z.utc, i) \in Int
            /\ Lower(z.utc, i) <= z.utc[i].at + z.utc[i].offset
            /\ z.utc[i].at + z.utc[i].offset <= Upper(z.utc, i)
            /\ z.utc[i].at + z.utc[i - 1].offset <= Upper(z.utc, i)
      /\ \A i, j \in 2 .. n : i < j => Upper(z.utc, i) <= Lower(z.utc, j)
  BY <1>1, <1>2, LocalOrder
<1>5. \A i, j \in 1 .. n : i < j => z.utc[i].at < z.utc[j].at
  BY <1>1, <1>2, UtcOrder
<1> HIDE DEF n
<1>6. n \in 2 .. n /\ n \in 1 .. n
  BY <1>3
<1>7. ASSUME NEW i \in 2 .. n PROVE Upper(z.utc, i) \in Int /\ Upper(z.utc, i) <= Upper(z.utc, n)
  <2>1. CASE i = n
    BY <1>4, <1>6, <2>1
  <2>2. CASE i < n
    <3>1. Upper(z.utc, i) <= Lower(z.utc, n)
      BY <1>4, <1>6, <2>2
    <3>2. z.utc[n].at \in Int /\ z.utc[n].offset \in Int
      BY <1>3, <1>6
    <3>3. Lower(z.utc, n) <= Upper(z.utc, n)
      <4> DEFINE a == Lower(z.utc, n)
                 m == z.utc[n].at + z.utc[n].offset
                 b == Upper(z.utc, n)
      <4>1. a \in Int /\ b \in Int /\ a <= m /\ m <= b
        BY <1>4, <1>6
      <4>2. m \in Int
        BY <3>2
      <4> HIDE DEF a, m, b
      <4>3. a <= b
        BY <4>1, <4>2
      <4> QED BY <4>3 DEF a, b
    <3> QED BY <1>4, <1>6, <3>1, <3>3
  <2> QED BY <1>3, <2>1, <2>2
<1>8. ASSUME NEW i \in 1 .. n - 1 PROVE z.local[i].at = Upper(z.utc, i + 1) /\ z.local[i].at \in Int
  <2>1. i + 1 \in 2 .. n
    BY <1>3
  <2> QED BY <1>3, <1>7, <2>1
<1> QED BY <1>2, <1>3, <1>4, <1>5, <1>6, <1>7, <1>8 DEF n, c

\* Around the last recorded transition the string says what the file says.
LEMMA NearLast ==
    ASSUME NEW z, NEW tz, SettledTz(tz), HandsOver(z, tz), Len(z.utc) > 1, NEW t \in Int,
           z.utc[Len(z.utc)].at - 2 * HoursPerDay <= t, t <= z.utc[Len(z.utc)].at + 2 * HoursPerDay
    PROVE  PosixOffset(tz, t) = z.utc[IF t < z.utc[Len(z.utc)].at THEN Len(z.utc) - 1 ELSE Len(z.utc)].offset
<1> DEFINE n == Len(z.utc)
           a == z.utc[n].at
           h == HoursPerDay
<1>1. tz.dst # <<>> /\ WithDst(tz)
  BY DEF HandsOver, SettledTz
<1>2. PICK y \in Years : RecordsRule(z.utc, tz, y)
  BY DEF HandsOver
<1> DEFINE s == DstStart(tz, y)
           e == DstEnd(tz, y)
           o == tz.std
           p == tz.dst[1].offset
           v == z.utc[n].offset
           w == z.utc[n - 1].offset
           b == NewYear(y)
           c == NewYear(y + 1)
<1>3. /\ o \in Int /\ p \in Int /\ h \in Nat \ {0} /\ Margin = 4 * h
      /\ -h < o /\ o < h /\ -h < p /\ p < h
      /\ s \in Int /\ e \in Int
      /\ b + Margin <= s /\ s <= c - Margin /\ b + Margin <= e /\ e <= c - Margin
  BY <1>1, SettledYear
<1>4. b \in Int /\ c \in Int /\ EpochMin <= b /\ c <= EpochMax + 1 /\ EpochMin \in Int /\ EpochMax \in Int
  BY YearHours, RangeAssumption
<1>5. /\ s + Margin < e \/ e + Margin < s
      /\ \/ a = s - o /\ v = p /\ w = o
         \/ a = e - p /\ v = o /\ w = p
  BY <1>2 DEF RecordsRule
<1>6. a - 2 * h <= t /\ t <= a + 2 * h
  OBVIOUS
<1>7. DstIn(tz, y, t) <=> IF s < e THEN s - o <= t /\ t < e - p ELSE ~(e - p <= t /\ t < s - o)
  BY DEF DstIn
<1>8. PosixOffset(tz, t) = IF is_dst_at(tz, t) THEN p ELSE o
  BY DEF PosixOffset
<1> SUFFICES PosixOffset(tz, t) = IF t < a THEN w ELSE v
  OBVIOUS
<1> HIDE DEF n, a, h, s, e, v, w, b, c
<1>9. is_dst_at(tz, t) <=> DstIn(tz, y, t)
  <2>1. b <= t + o /\ t + o < c /\ t + o \in Int
    <3> HIDE DEF o, p
    <3> QED BY <1>3, <1>4, <1>5, <1>6
  <2>2. b - 2 * h <= t + o /\ t + o < c + 2 * h
    <3> HIDE DEF o
    <3> QED BY <1>3, <1>4, <2>1
  <2>3. t + o \in Epochs
    <3> HIDE DEF o
    <3> QED BY <1>4, <2>1 DEF Epochs
  <2> QED BY <1>1, <2>2, <2>3, RulesOfNearYear DEF b, c, h
<1> HIDE DEF o, p
<1>10. CASE a = s - o /\ v = p /\ w = o
  <2>1. DstIn(tz, y, t) <=> ~(t < a)
    BY <1>3, <1>5, <1>6, <1>7, <1>10
  <2> QED BY <1>8, <1>9, <1>10, <2>1
<1>11. CASE a = e - p /\ v = o /\ w = p
  <2>1. DstIn(tz, y, t) <=> t < a
    BY <1>3, <1>5, <1>6, <1>7, <1>11
  <2> QED BY <1>8, <1>9, <1>11, <2>1
<1> QED BY <1>5, <1>10, <1>11

\* Which of the two asks the table by instant.
LEMMA TableOrString ==
    ASSUME NEW z, NEW tz, HandsOver(z, tz), Len(z.utc) > 1, NEW t \in Int
    PROVE  /\ t < z.utc[Len(z.utc)].at => FooterOffset(z, t) = offset_for_instant(Closed(z), t)
           /\ z.utc[Len(z.utc)].at <= t =>
                /\ FooterOffset(z, t) = PosixOffset(tz, t)
                /\ offset_for_instant(Closed(z), t) = z.utc[Len(z.utc)].offset
<1> DEFINE n == Len(z.utc)
           r == bisect(z.utc, t)
           a == z.utc[n].at
<1>1. /\ n \in Nat /\ n >= 2
      /\ \A i \in 1 .. n : z.utc[i].at \in Int
      /\ \A i, j \in 1 .. n : i < j => z.utc[i].at < z.utc[j].at
  BY ClosedFacts
<1>2. IsFirstAfter(z.utc, t, r)
  BY <1>1, BisectFinds
<1>3. z.end # <<>> /\ z.end[1] = tz
  BY DEF HandsOver
<1>4. /\ Closed(z).utc = z.utc /\ Closed(z).end # <<>> /\ Closed(z).end[1] = z.utc[n].offset
  BY DEF Closed, Final
<1>5. FooterOffset(z, t) = IF r # n + 1 THEN z.utc[Larger(1, r - 1)].offset ELSE PosixOffset(tz, t)
  BY <1>3 DEF FooterOffset, Past
<1>6. offset_for_instant(Closed(z), t) = IF r # n + 1 THEN z.utc[Larger(1, r - 1)].offset ELSE z.utc[n].offset
  BY <1>4 DEF offset_for_instant, Past
<1> HIDE DEF r
<1>7. /\ r \in 1 .. n + 1 /\ \A i \in 1 .. r - 1 : z.utc[i].at <= t
      /\ r # n + 1 => t < z.utc[r].at
  BY <1>2 DEF IsFirstAfter, Past
<1> HIDE DEF n
<1>8. n \in 1 .. n /\ a \in Int
  BY <1>1
<1>9. t < a => r # n + 1
  <2> SUFFICES ASSUME t < a, r = n + 1 PROVE FALSE
    OBVIOUS
  <2>1. n \in 1 .. r - 1
    BY <1>1, <1>8
  <2> QED BY <1>7, <1>8, <2>1
<1>10. a <= t => r = n + 1
  <2> SUFFICES ASSUME a <= t, r # n + 1 PROVE FALSE
    OBVIOUS
  <2>1. r \in 1 .. n /\ t < z.utc[r].at /\ z.utc[r].at \in Int
    BY <1>1, <1>7
  <2>2. z.utc[r].at <= a
    BY <1>1, <1>8, <2>1, SMTT(40)
  <2> QED BY <1>8, <2>1, <2>2
<1> QED BY <1>5, <1>6, <1>8, <1>9, <1>10 DEF n

\* Which of the two asks the table by local time.
LEMMA LocalTableOrString ==
    ASSUME NEW z, NEW tz, HandsOver(z, tz), Len(z.utc) > 1, NEW l \in Int
    PROVE  /\ l < Upper(z.utc, Len(z.utc)) => FooterMapping(z, l) = mapping_for_local(Closed(z), l)
           /\ Upper(z.utc, Len(z.utc)) <= l => FooterMapping(z, l) = PosixMapping(tz, l)
<1> DEFINE n == Len(z.utc)
           r == bisect(z.local, l)
           u == Upper(z.utc, n)
<1>1. /\ n \in Nat /\ n >= 2 /\ Len(z.local) = n - 1
      /\ \A i \in 1 .. n - 1 : z.local[i].at = Upper(z.utc, i + 1) /\ z.local[i].at \in Int
      /\ \A i \in 2 .. n : Upper(z.utc, i) \in Int /\ Upper(z.utc, i) <= u
  BY ClosedFacts
<1>2. IsFirstAfter(z.local, l, r)
  <2>1. Len(z.local) \in Nat /\ \A i \in 1 .. Len(z.local) : z.local[i].at \in Int
    BY <1>1
  <2> QED BY <2>1, BisectFinds
<1>3. z.end # <<>> /\ z.end[1] = tz
  BY DEF HandsOver
<1>4. Closed(z).local = z.local
  BY DEF Closed
<1>5. Past(z.local) = n
  BY <1>1 DEF Past
<1>6. r # n => FooterMapping(z, l) = mapping_for_local(Closed(z), l)
  BY <1>4, <1>5 DEF FooterMapping, mapping_for_local
<1>7. r = n => FooterMapping(z, l) = PosixMapping(tz, l)
  BY <1>3, <1>5 DEF FooterMapping
<1> HIDE DEF r
<1>8. /\ r \in 1 .. n /\ \A i \in 1 .. r - 1 : z.local[i].at <= l
      /\ r # n => l < z.local[r].at
  BY <1>2, <1>5 DEF IsFirstAfter
<1> HIDE DEF n
<1>9. n - 1 \in 1 .. n - 1 /\ (n - 1) + 1 = n /\ n \in 2 .. n
  BY <1>1
<1>10. u \in Int /\ z.local[n - 1].at = u
  BY <1>1, <1>9
<1> HIDE DEF u
<1>11. l < u => r # n
  <2> SUFFICES ASSUME l < u, r = n PROVE FALSE
    OBVIOUS
  <2>1. z.local[n - 1].at <= l
    BY <1>8, <1>9
  <2> QED BY <1>10, <2>1
<1>12. u <= l => r = n
  <2> SUFFICES ASSUME u <= l, r # n PROVE FALSE
    OBVIOUS
  <2>1. r \in 1 .. n - 1 /\ r + 1 \in 2 .. n /\ l < z.local[r].at
    BY <1>1, <1>8
  <2>2. z.local[r].at <= u /\ z.local[r].at \in Int
    BY <1>1, <2>1
  <2> QED BY <1>10, <2>1, <2>2
<1> QED BY <1>6, <1>7, <1>11, <1>12 DEF u, n

\* In a file with a string, a local time before the end of the last recorded
\* change is read from the table, and what the table says is still true where
\* instants beyond it are asked of the string.
LEMMA TableInverts ==
    ASSUME NEW z, NEW tz, SettledTz(tz), HandsOver(z, tz), Len(z.utc) > 1, NEW l, Inner(l),
           l < Upper(z.utc, Len(z.utc))
    PROVE  Inverts(FooterMapping(z, l), FooterLeadTo(z, l))
<1> DEFINE n == Len(z.utc)
           a == z.utc[n].at
           u == Upper(z.utc, n)
           h == HoursPerDay
           c == Closed(z)
<1>1. /\ WellFormed(c) /\ n \in Nat /\ n >= 2
      /\ \A i \in 1 .. n : z.utc[i].at \in Int /\ z.utc[i].offset \in Int /\ z.utc[i].offset \in Offsets
  BY ClosedFacts
<1>2. l \in Int
  BY DEF Inner
<1>3. FooterMapping(z, l) = mapping_for_local(c, l)
  BY <1>2, LocalTableOrString
<1>4. n \in 1 .. n /\ n - 1 \in 1 .. n
  BY <1>1
<1>5. h \in Nat \ {0} /\ OffsetMax = h - 1
  BY HoursAssumption
<1>6. \A i \in {n - 1, n} : z.utc[i].offset \in Int /\ -h < z.utc[i].offset /\ z.utc[i].offset < h
  BY <1>1, <1>4, <1>5, SMTT(40) DEF Offsets
<1>7. a \in Int /\ u \in Int /\ l < u /\ u < a + h
  <2> DEFINE p == z.utc[n - 1].offset
             q == z.utc[n].offset
  <2>1. p \in Int /\ q \in Int /\ p < h /\ q < h /\ a \in Int
    BY <1>1, <1>4, <1>6
  <2>2. u = a + Larger(p, q)
    BY DEF Upper
  <2> HIDE DEF p, q, a, h, u
  <2>3. Larger(p, q) \in {p, q}
    BY DEF Larger
  <2>4. u \in Int /\ u < a + h
    BY <1>5, <2>1, <2>2, <2>3
  <2> QED BY <2>1, <2>4 DEF u
<1>8. ASSUME NEW o \in Offsets PROVE FooterOffset(z, l - o) = offset_for_instant(c, l - o)
  <2> DEFINE t == l - o
  <2>1. t \in Int /\ o \in Int /\ -h < o
    BY InnerInstants
  <2>2. t < a + 2 * h
    <3> HIDE DEF a, u, h
    <3> QED BY <1>2, <1>5, <1>7, <2>1
  <2>3. CASE t < a
    BY <2>1, <2>3, TableOrString
  <2>4. CASE ~(t < a)
    <3> HIDE DEF t
    <3>1. a <= t /\ a - 2 * h <= t /\ t <= a + 2 * h
      <4> HIDE DEF a, h
      <4> QED BY <1>5, <1>7, <2>1, <2>2, <2>4
    <3>2. PosixOffset(tz, t) = z.utc[n].offset
      BY <2>1, <2>4, <3>1, NearLast
    <3>3. FooterOffset(z, t) = offset_for_instant(c, t)
      BY <2>1, <3>1, <3>2, TableOrString
    <3> QED BY <3>3 DEF t
  <2> QED BY <2>3, <2>4
<1>9. FooterLeadTo(z, l) = OffsetsLeadingTo(c, l)
  <2> HIDE DEF c
  <2> QED BY <1>8 DEF FooterLeadTo, OffsetsLeadingTo
<1>10. Inverts(mapping_for_local(c, l), OffsetsLeadingTo(c, l))
  BY <1>1, <1>2, MappingIsInverse
<1> QED BY <1>3, <1>9, <1>10

\* A local time from there on is read from the string, and no recorded offset
\* before the last transition, nor one of the string before it, leads there.
LEMMA BeyondTableInverts ==
    ASSUME NEW z, NEW tz, SettledTz(tz), HandsOver(z, tz), Len(z.utc) > 1, NEW l, Inner(l),
           Upper(z.utc, Len(z.utc)) <= l
    PROVE  Inverts(FooterMapping(z, l), FooterLeadTo(z, l))
<1> DEFINE n == Len(z.utc)
           a == z.utc[n].at
           u == Upper(z.utc, n)
           h == HoursPerDay
           c == Closed(z)
<1>1. /\ WellFormed(c) /\ n \in Nat /\ n >= 2
      /\ \A i \in 1 .. n : z.utc[i].at \in Int /\ z.utc[i].offset \in Int /\ z.utc[i].offset \in Offsets
      /\ a + z.utc[n].offset <= u /\ a + z.utc[n - 1].offset <= u
      /\ \A i \in 2 .. n : Upper(z.utc, i) \in Int
  BY ClosedFacts
<1>2. l \in Int
  BY DEF Inner
<1>3. FooterMapping(z, l) = PosixMapping(tz, l)
  BY <1>2, LocalTableOrString
<1>4. n \in 1 .. n /\ n - 1 \in 1 .. n /\ n \in 2 .. n
  BY <1>1
<1>5. h \in Nat \ {0} /\ OffsetMax = h - 1
  BY HoursAssumption
<1>6. z.utc[n].offset \in Int /\ -h < z.utc[n].offset /\ a \in Int /\ u \in Int /\ z.utc[n - 1].offset \in Int
  <2>1. z.utc[n].offset \in Int /\ z.utc[n].offset \in Offsets /\ z.utc[n - 1].offset \in Int
    BY <1>1, <1>4
  <2>2. a \in Int
    BY <1>1, <1>4
  <2>3. u \in Int
    BY <1>1, <1>4
  <2>4. -h < z.utc[n].offset
    BY <1>5, <2>1 DEF Offsets
  <2> QED BY <2>1, <2>2, <2>3, <2>4
<1>7. u <= l
  OBVIOUS
<1>8. c.utc = z.utc
  BY DEF Closed
<1>9. ASSUME NEW o \in Offsets PROVE FooterOffset(z, l - o) = o <=> PosixOffset(tz, l - o) = o
  <2> DEFINE t == l - o
  <2>1. t \in Int /\ o \in Int /\ -h < o /\ o < h /\ l = t + o
    BY InnerInstants
  <2>2. CASE a <= t
    BY <2>1, <2>2, TableOrString
  <2>3. CASE ~(a <= t)
    <3>1. t < a
      <4> HIDE DEF t, a
      <4> QED BY <1>6, <2>1, <2>3
    <3>2. FooterOffset(z, t) # o
      <4> SUFFICES ASSUME FooterOffset(z, t) = o PROVE FALSE
        OBVIOUS
      <4>1. offset_for_instant(c, l - o) = o
        BY <2>1, <3>1, TableOrString
      <4>2. o \in OffsetsLeadingTo(c, l)
        BY <4>1 DEF OffsetsLeadingTo
      <4>3. PICK i \in 1 .. Len(c.utc) : c.utc[i].offset = o /\ InSpan(c, i, l - o)
        BY <1>1, <1>2, <4>2, LeadingToIsInSpan
      <4> HIDE DEF c
      <4>4. i \in 1 .. n /\ InSpan(c, i, l - c.utc[i].offset)
        BY <1>8, <4>3
      <4>5. i = n \/ i = n + 1
        <5>1. n \in 1 .. Len(c.utc) /\ Upper(c.utc, n) <= l /\ n = Len(c.utc)
          BY <1>4, <1>7, <1>8
        <5> QED BY <1>1, <1>2, <4>4, <5>1, <4>3, SpansAround
      <4>6. i = n
        BY <1>1, <4>4, <4>5
      <4>7. a <= t
        BY <1>1, <1>8, <4>3, <4>6 DEF InSpan
      <4> QED BY <2>3, <4>7
    <3>3. PosixOffset(tz, t) # o
      <4> SUFFICES ASSUME PosixOffset(tz, t) = o PROVE FALSE
        OBVIOUS
      <4> DEFINE q == z.utc[n].offset
                 p == z.utc[n - 1].offset
      <4>0. a + q <= u /\ a + p <= u /\ q \in Int /\ p \in Int /\ -h < q
        BY <1>1, <1>6
      <4> HIDE DEF t
      <4>1. a - 2 * h <= t /\ t <= a + 2 * h
        <5> HIDE DEF a, u, h, q, p
        <5> QED BY <1>2, <1>5, <1>6, <1>7, <2>1, <3>1, <4>0
      <4>2. PosixOffset(tz, t) = p
        BY <2>1, <3>1, <4>1, NearLast
      <4>3. o = p
        BY <4>2
      <4> HIDE DEF a, u, h, q, p
      <4> QED BY <1>6, <1>7, <2>1, <3>1, <4>0, <4>3
    <3> QED BY <3>2, <3>3
  <2> QED BY <2>2, <2>3
<1>10. FooterLeadTo(z, l) = {o \in Offsets : PosixOffset(tz, l - o) = o}
  BY <1>9 DEF FooterLeadTo
<1>11. Inverts(PosixMapping(tz, l), LeadTo(tz, l))
  BY StringMappingInverts
<1> QED BY <1>3, <1>10, <1>11, LeadToAll

\* For every local time, the lookup by local time of a zone with a TZ string is
\* the inverse of the one by instant.
LEMMA FooterInverts ==
    ASSUME NEW z, NEW tz, SettledTz(tz), FooterZone(z, tz), NEW l, Inner(l)
    PROVE  Inverts(FooterMapping(z, l), FooterLeadTo(z, l))
<1>1. CASE Len(z.utc) <= 1
  BY <1>1, StringAlone, StringMappingInverts
<1>2. CASE ~(Len(z.utc) <= 1)
  <2>1. HandsOver(z, tz)
    BY <1>2 DEF FooterZone, parse_posix
  <2>2. Len(z.utc) > 1
    <3>1. z.utc \in Seq([at : Epochs, offset : Offsets, dst_saving : Int])
      BY <2>1 DEF HandsOver, WellFormedUtc
    <3>2. Len(z.utc) \in Nat
      BY <3>1
    <3> QED BY <1>2, <3>2
  <2>3. l \in Int /\ Upper(z.utc, Len(z.utc)) \in Int
    <3>1. Len(z.utc) \in 2 .. Len(z.utc)
      BY <2>1, <2>2, ClosedFacts
    <3> QED BY <2>1, <2>2, <3>1, ClosedFacts DEF Inner
  <2>4. CASE l < Upper(z.utc, Len(z.utc))
    BY <2>1, <2>2, <2>4, TableInverts
  <2>5. CASE Upper(z.utc, Len(z.utc)) <= l
    BY <2>1, <2>2, <2>5, BeyondTableInverts
  <2> QED BY <2>3, <2>4, <2>5
<1> QED BY <1>1, <1>2

\* With a string, every local time has a meaning.
LEMMA FooterMappingKinds ==
    ASSUME NEW z, z.end # <<>>, NEW l
    PROVE  FooterMapping(z, l).kind \in {"unique", "fold", "gap"}
<1>1. \A e : MappingAt(e, l).kind \in {"unique", "fold", "gap"}
  BY DEF MappingAt, Unique, Fold, Gap
<1>2. \A t1, t2, off1, off2, shift :
        YearMapping(l, t1, t2, off1, off2, shift).kind \in {"unique", "fold", "gap"}
  BY DEF YearMapping, Unique, Fold, Gap
<1>3. \A tz : PosixMapping(tz, l).kind \in {"unique", "fold", "gap"}
  BY <1>2 DEF PosixMapping, MappingOfRules, Unique
<1> QED BY <1>1, <1>3 DEF FooterMapping

\* An offset by instant is one of the table or of the string.
LEMMA FooterOffsetType ==
    ASSUME NEW z, NEW tz, SettledTz(tz), FooterZone(z, tz), NEW t \in Int, NEW O,
           StringOffsets(tz) \subseteq O, \A i \in DOMAIN z.utc : z.utc[i].offset \in O
    PROVE  FooterOffset(z, t) \in O /\ FooterOffset(z, t) \in Offsets
<1> DEFINE r == bisect(z.utc, t)
           n == Len(z.utc)
<1>1. z.end # <<>> /\ z.end[1] = tz
  BY FooterEnd
<1>2. CASE r = Past(z.utc)
  <2>1. FooterOffset(z, t) = PosixOffset(tz, t)
    BY <1>1, <1>2 DEF FooterOffset
  <2> QED BY <2>1, PosixOffsetType
<1>3. CASE r # Past(z.utc)
  <2>1. HandsOver(z, tz)
    <3>1. z = parse_posix(tz) => r = Past(z.utc)
      BY EmptyBisect DEF parse_posix
    <3> QED BY <1>3, <3>1 DEF FooterZone
  <2>2. z.utc \in Seq([at : Epochs, offset : Offsets, dst_saving : Int]) /\ n >= 1
    BY <2>1 DEF HandsOver, WellFormedUtc
  <2>3. /\ n \in Nat /\ DOMAIN z.utc = 1 .. n
        /\ \A i \in 1 .. n : z.utc[i] \in [at : Epochs, offset : Offsets, dst_saving : Int]
    <3> DEFINE Entry == [at : Epochs, offset : Offsets, dst_saving : Int]
               utc == z.utc
    <3>1. utc \in Seq(Entry)
      BY <2>2
    <3> HIDE DEF Entry, utc
    <3>2. Len(utc) \in Nat /\ DOMAIN utc = 1 .. Len(utc) /\ \A i \in 1 .. Len(utc) : utc[i] \in Entry
      BY <3>1
    <3> QED BY <3>2 DEF Entry, utc
  <2>4. \A i \in 1 .. n : z.utc[i].at \in Int /\ z.utc[i].offset \in Offsets
    BY <2>3, RangeAssumption DEF Epochs
  <2>5. IsFirstAfter(z.utc, t, r)
    BY <2>3, <2>4, BisectFinds
  <2>6. r \in 1 .. n
    <3> HIDE DEF r
    <3> QED BY <1>3, <2>3, <2>5 DEF IsFirstAfter, Past
  <2> DEFINE i == Larger(1, r - 1)
  <2>7. i \in 1 .. n
    <3> HIDE DEF r, n
    <3> QED BY <2>2, <2>3, <2>6 DEF Larger
  <2>8. FooterOffset(z, t) = z.utc[i].offset
    BY <1>3 DEF FooterOffset
  <2> HIDE DEF i
  <2> QED BY <2>3, <2>4, <2>7, <2>8
<1> QED BY <1>2, <1>3

\* What TzStr::parse makes of the parts of a text that it accepts.
LEMMA ParsedText ==
    ASSUME NEW t \in Texts
    PROVE  /\ parse(t).std = TextOffset(t) /\ TextOffset(t) \in Offsets
           /\ TextOffset(t) \in Int /\ TextDst(t) \in Int /\ LocalMean(t) \in Int
           /\ t.rules = <<>> => parse(t).dst = <<>>
           /\ t.rules # <<>> =>
                /\ parse_rule(t.rules[1]) # <<>> /\ parse_rule(t.rules[2]) # <<>> /\ TextDst(t) \in Offsets
                /\ parse(t).dst # <<>> /\ parse(t).dst[1].offset = TextDst(t)
                /\ parse(t).dst[1].start = parse_rule(t.rules[1])[1]
                /\ parse(t).dst[1].end = parse_rule(t.rules[2])[1]
<1> DEFINE tz == parse(t)
<1>1. t.std \in Int /\ (t.dst = <<>> \/ t.dst[1] \in Int) /\ tz # NoTz
  BY TextsAssumption
<1>2. OffsetMax \in Nat
  BY RangeAssumption
<1>3. ASSUME NEW x \in Int, parse_offset(x) # <<>> PROVE parse_offset(x) = <<-x>> /\ -x \in Offsets
  <2>1. Abs(x) <= OffsetMax
    BY <1>3 DEF parse_offset, parse_hms
  <2>2. parse_offset(x) = <<-x>>
    BY <2>1 DEF parse_offset, parse_hms
  <2>3. -x \in Offsets
    BY <1>2, <2>1 DEF Abs, Offsets
  <2> QED BY <2>2, <2>3
<1>4. parse_offset(t.std) # <<>>
  BY <1>1 DEF parse
<1>5. parse_offset(t.std) = <<TextOffset(t)>> /\ TextOffset(t) \in Offsets /\ parse_offset(t.std)[1] = TextOffset(t)
  BY <1>1, <1>3, <1>4 DEF TextOffset
<1>6. TextOffset(t) \in Int /\ TextDst(t) \in Int /\ LocalMean(t) \in Int
  BY <1>1 DEF TextOffset, TextDst, LocalMean
<1>7. CASE t.rules = <<>>
  <2>1. tz = [std |-> TextOffset(t), dst |-> <<>>]
    BY <1>4, <1>5, <1>7 DEF parse
  <2>2. tz.std = TextOffset(t) /\ tz.dst = <<>>
    BY <2>1
  <2> QED BY <1>5, <1>6, <1>7, <2>2
<1>8. CASE t.rules # <<>>
  <2> DEFINE std == parse_offset(t.std)
             offset == IF t.dst # <<>> THEN parse_offset(t.dst[1])
                       ELSE IF std[1] + DEFAULT_DST \in Offsets THEN <<std[1] + DEFAULT_DST>>
                       ELSE <<>>
             start == parse_rule(t.rules[1])
             end == parse_rule(t.rules[2])
  <2>1. tz = IF offset = <<>> \/ start = <<>> \/ end = <<>> THEN NoTz
             ELSE [std |-> std[1],
                   dst |-> <<[offset |-> offset[1], start |-> start[1], end |-> end[1]]>>]
    BY <1>4, <1>8 DEF parse
  <2>2. offset # <<>> => offset[1] = TextDst(t) /\ offset[1] \in Offsets
    <3>1. CASE t.dst = <<>>
      BY <1>5, <3>1 DEF DEFAULT_DST, TextDst
    <3>2. CASE t.dst # <<>>
      <4>1. offset = parse_offset(t.dst[1]) /\ TextDst(t) = -t.dst[1] /\ t.dst[1] \in Int
        BY <1>1, <3>2 DEF TextDst
      <4> HIDE DEF offset
      <4>2. ASSUME offset # <<>> PROVE offset = <<-t.dst[1]>> /\ -t.dst[1] \in Offsets
        BY <1>3, <4>1, <4>2
      <4> QED BY <4>1, <4>2
    <3> QED BY <3>1, <3>2
  <2> HIDE DEF offset, start, end, tz
  <2>3. /\ offset # <<>> /\ start # <<>> /\ end # <<>>
        /\ tz = [std |-> std[1], dst |-> <<[offset |-> offset[1], start |-> start[1], end |-> end[1]]>>]
    BY <1>1, <2>1
  <2>4. /\ tz.std = TextOffset(t) /\ tz.dst # <<>> /\ tz.dst[1].offset = TextDst(t)
        /\ tz.dst[1].start = start[1] /\ tz.dst[1].end = end[1]
    BY <1>5, <2>2, <2>3
  <2> QED BY <1>5, <1>6, <1>8, <2>2, <2>3, <2>4 DEF tz, start, end
<1> QED BY <1>7, <1>8

\* The string that parse makes of a text is one that the lookups are proved for.
LEMMA ParsedOffsets ==
    ASSUME NEW t \in Texts
    PROVE  /\ SettledTz(parse(t)) /\ StringOffsets(parse(t)) \subseteq {TextOffset(t), TextDst(t)}
           /\ TextOffset(t) \in Int /\ TextDst(t) \in Int /\ LocalMean(t) \in Int
<1> DEFINE tz == parse(t)
<1>1. Settled(tz)
  BY TextsAssumption
<1>2. /\ tz.std = TextOffset(t) /\ TextOffset(t) \in Offsets
      /\ TextOffset(t) \in Int /\ TextDst(t) \in Int /\ LocalMean(t) \in Int
      /\ t.rules = <<>> => tz.dst = <<>>
      /\ t.rules # <<>> => tz.dst # <<>> /\ tz.dst[1].offset = TextDst(t) /\ TextDst(t) \in Offsets
  BY ParsedText
<1> HIDE DEF tz
<1>3. SettledTz(tz) /\ StringOffsets(tz) \subseteq {TextOffset(t), TextDst(t)}
  BY <1>1, <1>2 DEF SettledTz, WithDst, StringOffsets
<1> QED BY <1>2, <1>3 DEF tz

\* The zone of a walk never changes: it is a string alone, or one of the files.
StringInv ==
    /\ text \in Texts
    /\ zone = NoZone \/ zone = parse_posix(parse(text)) \/ (\E n \in Recorded : zone = RecordedZone(text, n))

\* No operation and no walk changes the string or the zone.
LEMMA StringInvariance == MCSpec => []StringInv
<1>1. MCInit => StringInv
  BY DEF MCInit, InitZone, StringInv
<1>2. StringInv /\ [MCNext]_mcvars => StringInv'
  <2>1. [MCNext]_mcvars => text' = text /\ zone' = zone
    BY Zenon DEF MCNext, Walk, mcvars
  <2> QED BY <2>1 DEF StringInv
<1> QED BY <1>1, <1>2, PTL DEF MCSpec

\* The hours of a day that is not one of the first or last two are away from the
\* ends of time.
LEMMA HoursAreInner ==
    ASSUME AwayFromEnds, NEW l \in HoursOfDay
    PROVE  Inner(l)
<1> DEFINE h == HoursPerDay
           d == day
           a == d - UnixDaysMin
           b == UnixDaysMax - d
<1>1. h \in Nat \ {0} /\ EpochMin = UnixDaysMin * h /\ EpochMax = (UnixDaysMax + 1) * h - 1
  BY HoursAssumption
<1>2. UnixDaysMin \in Int /\ UnixDaysMax \in Int
  BY SMT DEF UnixDaysMin, UnixDaysMax
<1>3. d \in Int /\ a \in Int /\ b \in Int /\ a >= 2 /\ b >= 2
  <2>1. d \in UnixDaysMin + 2 .. UnixDaysMax - 2
    BY DEF AwayFromEnds
  <2> HIDE DEF d
  <2> QED BY <1>2, <2>1, SMT
<1>4. l \in d * h .. (d + 1) * h - 1
  BY DEF HoursOfDay
<1>5. d = UnixDaysMin + a /\ UnixDaysMax = d + b
  <2> HIDE DEF d
  <2> QED BY <1>2, <1>3, SMT
<1> HIDE DEF d, h, a, b
<1>6. l \in Int /\ d * h <= l /\ l <= (d + 1) * h - 1
  <2>1. d * h \in Int /\ (d + 1) * h - 1 \in Int
    BY <1>1, <1>3, SMT
  <2> QED BY <1>4, <2>1, SMT
<1>7. d * h = UnixDaysMin * h + a * h /\ (UnixDaysMax + 1) * h = (d + 1) * h + b * h
  <2>1. d * h = UnixDaysMin * h + a * h
    BY <1>1, <1>2, <1>3, <1>5, SMT
  <2>2. (UnixDaysMax + 1) * h = (d + 1) * h + b * h
    BY <1>1, <1>2, <1>3, <1>5, SMT
  <2> QED BY <2>1, <2>2
<1>8. a * h >= 2 * h /\ b * h >= 2 * h
  BY <1>1, <1>3, SMT
<1>9. EpochMin + 2 * h <= l /\ l <= EpochMax - 2 * h
  <2> DEFINE p == d * h
             q == (d + 1) * h
             x == a * h
             y == b * h
             e == UnixDaysMin * h
             f == (UnixDaysMax + 1) * h
  <2>1. p \in Int /\ q \in Int /\ x \in Int /\ y \in Int /\ e \in Int /\ f \in Int
    BY <1>1, <1>2, <1>3, SMT
  <2>2. p = e + x /\ f = q + y /\ x >= 2 * h /\ y >= 2 * h /\ p <= l /\ l <= q - 1
        /\ EpochMin = e /\ EpochMax = f - 1
    BY <1>1, <1>6, <1>7, <1>8
  <2> HIDE DEF p, q, x, y, e, f
  <2> QED BY <1>1, <1>6, <2>1, <2>2, SMT
<1> QED BY <1>6, <1>9 DEF Inner, h

\* What a local time means is the inverse of the offset by instant in every walk:
\* for every TZ string with settled rules, alone or after the transitions that a
\* file records, and also where the table hands over to the string
\* (TimeZone::mapping_for_local and offset_for_instant with a POSIX footer).
THEOREM FooterAlwaysInverts == MCSpec => []FooterMappingInverts
<1>1. StringInv => FooterMappingInverts
  <2> DEFINE tz == parse(text)
             O == {TextOffset(text), TextDst(text), LocalMean(text)}
             R(l) == {o \in O : FooterOffset(zone, l - o) = o}
             m(l) == FooterMapping(zone, l)
  <2> SUFFICES ASSUME StringInv, zone # NoZone, AwayFromEnds, NEW l \in HoursOfDay
               PROVE  CASE m(l).kind = "unique" -> R(l) = {m(l).offset}
                        [] m(l).kind = "fold" -> R(l) = {m(l).before, m(l).after} /\ m(l).before > m(l).after
                        [] m(l).kind = "gap" -> R(l) = {} /\ m(l).before < m(l).after
    BY Zenon DEF FooterMappingInverts
  <2>1. /\ SettledTz(tz) /\ StringOffsets(tz) \subseteq O /\ O \subseteq Int
    BY ParsedOffsets DEF StringInv
  <2>2. FooterZone(zone, tz) /\ \A i \in DOMAIN zone.utc : zone.utc[i].offset \in O
    <3>1. CASE zone = parse_posix(tz)
      BY <3>1 DEF FooterZone, parse_posix
    <3>2. ASSUME NEW n \in Recorded, zone = RecordedZone(text, n)
          PROVE  FooterZone(zone, tz) /\ \A i \in DOMAIN zone.utc : zone.utc[i].offset \in O
      BY <3>2, TextsAssumption DEF FooterZone, StringInv
    <3> QED BY <3>1, <3>2 DEF StringInv
  <2>3. Inner(l) /\ l \in Int
    BY HoursAreInner DEF Inner
  <2> HIDE DEF O, tz
  <2>4. \A t \in Int : FooterOffset(zone, t) \in O /\ FooterOffset(zone, t) \in Offsets
    BY <2>1, <2>2, FooterOffsetType
  <2>5. Offsets \subseteq Int
    BY RangeAssumption DEF Offsets
  <2>6. \A o \in Int : l - o \in Int
    BY <2>3
  <2>7. R(l) = FooterLeadTo(zone, l)
    <3>1. ASSUME NEW o \in O, FooterOffset(zone, l - o) = o PROVE o \in Offsets
      BY <2>1, <2>4, <2>6, <3>1
    <3>2. ASSUME NEW o \in Offsets, FooterOffset(zone, l - o) = o PROVE o \in O
      BY <2>4, <2>5, <2>6, <3>2
    <3> QED BY <3>1, <3>2 DEF FooterLeadTo
  <2>8. Inverts(m(l), R(l))
    BY <2>1, <2>2, <2>3, <2>7, FooterInverts
  <2>9. m(l).kind \in {"unique", "fold", "gap"}
    <3>1. zone.end # <<>>
      BY <2>2, FooterEnd
    <3> QED BY <3>1, FooterMappingKinds
  <2> HIDE DEF m, R
  <2> QED BY <2>8, <2>9 DEF Inverts
<1> QED BY <1>1, StringInvariance, PTL

-----------------------------------------------------------------------------
\* What NothingEscapes says, of any lookups: next and prev are those of the times
\* just before and just after t, after and earlier those of t itself.
FindsChange(t, before, offset, next, prev, after, earlier) ==
    /\ before # offset <=> next.at = t
    /\ before # offset <=> prev.at = t
    /\ before # offset => next.offset = offset /\ prev.offset = next.offset
    /\ after.at = next.at \/ before # offset
    /\ prev.at >= t \/ prev.at = earlier.at

\* The transitions of a year around a time: beyond is what follows the year.
LEMMA NextPicks ==
    ASSUME NEW tz, NEW tr, NEW y, NEW t \in Int, NEW beyond,
           tr.start.at \in Int, tr.end.at \in Int, tr.start.at # tr.end.at,
           beyond = (IF y + 1 \in Years THEN Earliest(utc_transitions_for_year(tz, y + 1)) ELSE NoTransition),
           beyond.at # t
    PROVE  /\ NextInYear(tz, t - 1, tr, y).at = t <=> t \in {tr.start.at, tr.end.at}
           /\ t = tr.start.at => NextInYear(tz, t - 1, tr, y) = tr.start
           /\ t = tr.end.at => NextInYear(tz, t - 1, tr, y) = tr.end
           /\ t \notin {tr.start.at, tr.end.at} => NextInYear(tz, t, tr, y) = NextInYear(tz, t - 1, tr, y)
<1> DEFINE S == tr.start.at
           E == tr.end.at
           pick(u) == IF S > u /\ E > u THEN (IF S <= E THEN tr.start ELSE tr.end)
                   ELSE IF S > u THEN tr.start
                   ELSE IF E > u THEN tr.end
                   ELSE beyond
<1>1. \A u : NextInYear(tz, u, tr, y) = pick(u)
  BY DEF NextInYear, Earliest
<1>2. S \in Int /\ E \in Int /\ S # E /\ tr.start.at = S /\ tr.end.at = E
  OBVIOUS
<1> HIDE DEF S, E
<1>3. /\ t = S => pick(t - 1) = tr.start
      /\ t = E => pick(t - 1) = tr.end
      /\ t \notin {S, E} => pick(t) = pick(t - 1)
      /\ t \notin {S, E} => pick(t - 1).at # t
  <2>1. t = S => pick(t - 1) = tr.start
    BY <1>2
  <2>2. t = E => pick(t - 1) = tr.end
    BY <1>2
  <2>3. t \notin {S, E} => pick(t) = pick(t - 1)
    BY <1>2
  <2>4. t \notin {S, E} => pick(t - 1).at # t
    BY <1>2
  <2> QED BY <2>1, <2>2, <2>3, <2>4
<1> HIDE DEF pick
<1> QED BY <1>1, <1>2, <1>3

\* The same to the other side.
LEMMA PrevPicks ==
    ASSUME NEW tz, NEW tr, NEW y, NEW t \in Int, NEW beyond,
           tr.start.at \in Int, tr.end.at \in Int, tr.start.at # tr.end.at,
           beyond = (IF y - 1 \in Years THEN Latest(utc_transitions_for_year(tz, y - 1)) ELSE NoTransition),
           beyond.at # t
    PROVE  /\ PrevInYear(tz, t + 1, tr, y).at = t <=> t \in {tr.start.at, tr.end.at}
           /\ t = tr.start.at => PrevInYear(tz, t + 1, tr, y) = tr.start
           /\ t = tr.end.at => PrevInYear(tz, t + 1, tr, y) = tr.end
           /\ t \notin {tr.start.at, tr.end.at} => PrevInYear(tz, t, tr, y) = PrevInYear(tz, t + 1, tr, y)
<1> DEFINE S == tr.start.at
           E == tr.end.at
           pick(u) == IF S < u /\ E < u THEN (IF S >= E THEN tr.start ELSE tr.end)
                   ELSE IF S < u THEN tr.start
                   ELSE IF E < u THEN tr.end
                   ELSE beyond
<1>1. \A u : PrevInYear(tz, u, tr, y) = pick(u)
  BY DEF PrevInYear, Latest
<1>2. S \in Int /\ E \in Int /\ S # E /\ tr.start.at = S /\ tr.end.at = E
  OBVIOUS
<1> HIDE DEF S, E
<1>3. /\ t = S => pick(t + 1) = tr.start
      /\ t = E => pick(t + 1) = tr.end
      /\ t \notin {S, E} => pick(t) = pick(t + 1)
      /\ t \notin {S, E} => pick(t + 1).at # t
  <2>1. t = S => pick(t + 1) = tr.start
    BY <1>2
  <2>2. t = E => pick(t + 1) = tr.end
    BY <1>2
  <2>3. t \notin {S, E} => pick(t) = pick(t + 1)
    BY <1>2
  <2>4. t \notin {S, E} => pick(t + 1).at # t
    BY <1>2
  <2> QED BY <2>1, <2>2, <2>3, <2>4
<1> HIDE DEF pick
<1> QED BY <1>1, <1>2, <1>3

\* The transitions of a year are well inside it, by standard time.
LEMMA TransitionsInside ==
    ASSUME NEW tz, WithDst(tz), NEW y \in Years
    PROVE  LET tr == utc_transitions_for_year(tz, y) IN
           /\ tr.start.at \in Int /\ tr.end.at \in Int /\ tr.start.at # tr.end.at
           /\ \A q \in {tr.start.at, tr.end.at} :
                NewYear(y) + 2 * HoursPerDay <= q + tz.std /\ q + tz.std <= NewYear(y + 1) - 2 * HoursPerDay
           /\ Earliest(tr).at \in {tr.start.at, tr.end.at} /\ Latest(tr).at \in {tr.start.at, tr.end.at}
<1> DEFINE tr == utc_transitions_for_year(tz, y)
           s == DstStart(tz, y)
           e == DstEnd(tz, y)
           o == tz.std
           p == tz.dst[1].offset
           h == HoursPerDay
           a == NewYear(y)
           b == NewYear(y + 1)
<1>1. /\ o \in Int /\ p \in Int /\ h \in Nat \ {0} /\ Margin = 4 * h
      /\ -h < o /\ o < h /\ -h < p /\ p < h
      /\ s \in Int /\ e \in Int
      /\ a + Margin <= s /\ s <= b - Margin /\ a + Margin <= e /\ e <= b - Margin
  BY SettledYear
<1>2. a \in Int /\ b \in Int
  BY YearHours
<1>3. tr.start.at = s - o /\ tr.end.at = e - p /\ tr.start.at # tr.end.at
  BY TransitionsOfYear
<1>4. Earliest(tr).at \in {tr.start.at, tr.end.at} /\ Latest(tr).at \in {tr.start.at, tr.end.at}
  BY DEF Earliest, Latest
<1> HIDE DEF tr, s, e, o, p, h, a, b
<1>5. /\ a + 2 * h <= (s - o) + o /\ (s - o) + o <= b - 2 * h
      /\ a + 2 * h <= (e - p) + o /\ (e - p) + o <= b - 2 * h
  BY <1>1, <1>2
<1>6. /\ tr.start.at \in Int /\ tr.end.at \in Int /\ tr.start.at # tr.end.at
      /\ \A q \in {tr.start.at, tr.end.at} : a + 2 * h <= q + o /\ q + o <= b - 2 * h
  BY <1>1, <1>3, <1>5
<1> QED BY <1>4, <1>6 DEF tr, o, h, a, b

\* The year in which an instant falls, by standard time.
LEMMA YearOfInstant ==
    ASSUME NEW tz, WithDst(tz), NEW t \in Int, t + tz.std \in Epochs
    PROVE  LET y == StdYear(tz, t) IN
           y \in Years /\ NewYear(y) <= t + tz.std /\ t + tz.std < NewYear(y + 1)
<1> DEFINE x == t + tz.std
<1>1. x \in Int /\ EpochMin <= x /\ x <= EpochMax /\ x \in Epochs
  BY RangeAssumption DEF Epochs
<1>2. clamp(x) = x
  BY <1>1, ClampInRange
<1>3. StdYear(tz, t) = YearOf(x)
  BY <1>2 DEF StdYear
<1> HIDE DEF x
<1>4. YearOf(x) \in Years /\ NewYear(YearOf(x)) <= x /\ x < NewYear(YearOf(x) + 1)
  BY <1>1, YearOfHour
<1> QED BY <1>3, <1>4 DEF x

\* An hour later it is the same year or the next one begins.
LEMMA NextHour ==
    ASSUME NEW tz, WithDst(tz), NEW t \in Int, t + tz.std \in Epochs, (t + 1) + tz.std \in Epochs,
           NEW y, NEW z, y = StdYear(tz, t), z = StdYear(tz, t + 1)
    PROVE  /\ y \in Years /\ z \in Years /\ y \in Int /\ z \in Int
           /\ z = y \/ (z = y + 1 /\ (t + 1) + tz.std = NewYear(z))
<1> DEFINE o == tz.std
           x == t + o
<1>1. y \in Years /\ NewYear(y) <= x /\ x < NewYear(y + 1)
  BY YearOfInstant
<1>2. z \in Years /\ NewYear(z) <= (t + 1) + o /\ (t + 1) + o < NewYear(z + 1)
  <2>1. t + 1 \in Int
    OBVIOUS
  <2> QED BY <2>1, YearOfInstant
<1>3. o \in Int /\ HoursPerDay \in Nat \ {0} /\ Margin = 4 * HoursPerDay
  BY <1>1, SettledYear
<1>4. x \in Int /\ (t + 1) + o = x + 1
  BY <1>3
<1>5. y \in Int /\ z \in Int /\ 1 <= y /\ z <= 9999
  BY <1>1, <1>2, YearsRange
<1>6. /\ NewYear(y) \in Int /\ NewYear(y + 1) \in Int /\ NewYear(z) \in Int /\ NewYear(z + 1) \in Int
      /\ y < z => NewYear(y + 1) <= NewYear(z)
      /\ z < y => NewYear(z + 1) <= NewYear(y)
  BY <1>1, <1>2, YearHours
<1> HIDE DEF x, o
<1>7. ~(z < y)
  BY <1>1, <1>2, <1>4, <1>6
<1>8. CASE z = y
  BY <1>1, <1>2, <1>5, <1>8
<1>9. CASE y < z
  <2>1. x + 1 = NewYear(z) /\ NewYear(z) = NewYear(y + 1)
    BY <1>1, <1>2, <1>4, <1>6, <1>9
  <2>2. ~(y + 1 < z)
    <3> SUFFICES ASSUME y + 1 < z PROVE FALSE
      OBVIOUS
    <3>1. y + 1 \in Years
      <4>1. y + 1 \in Int /\ 1 <= y + 1 /\ y + 1 <= 9999
        BY <1>5, SMT
      <4> QED BY <4>1, InYears, SMT
    <3> DEFINE w == y + 1
    <3>2. w \in Years /\ w < z
      BY <3>1
    <3> HIDE DEF w
    <3>3. NewYear(w + 1) <= NewYear(z) /\ NewYear(w + 1) \in Int /\ NewYear(w) \in Int
      BY <1>2, <3>2, YearHours
    <3>4. DstStart(tz, w) \in Int /\ NewYear(w) + Margin <= DstStart(tz, w) /\ DstStart(tz, w) <= NewYear(w + 1) - Margin
      BY <3>2, SettledYear
    <3>5. NewYear(w) = NewYear(z)
      BY <2>1 DEF w
    <3> QED BY <1>3, <1>6, <3>3, <3>4, <3>5
  <2>3. z = y + 1
    BY <1>5, <1>9, <2>2
  <2> QED BY <1>1, <1>2, <1>4, <1>5, <2>1, <2>3 DEF o
<1> QED BY <1>5, <1>7, <1>8, <1>9

\* Where the offset of a string changes: at the transitions of the year.
LEMMA StringChanges ==
    ASSUME NEW tz, WithDst(tz), tz.dst[1].offset # tz.std, NEW t \in Int,
           t + tz.std \in Epochs, (t - 1) + tz.std \in Epochs
    PROVE  LET tr == utc_transitions_for_year(tz, StdYear(tz, t)) IN
           /\ PosixOffset(tz, t - 1) # PosixOffset(tz, t) <=> t \in {tr.start.at, tr.end.at}
           /\ t = tr.start.at => PosixOffset(tz, t) = tr.start.offset
           /\ t = tr.end.at => PosixOffset(tz, t) = tr.end.offset
<1> DEFINE y == StdYear(tz, t)
           tr == utc_transitions_for_year(tz, y)
           S == tr.start.at
           E == tr.end.at
           o == tz.std
           p == tz.dst[1].offset
           h == HoursPerDay
           s == DstStart(tz, y)
           e == DstEnd(tz, y)
<1>1. y \in Years /\ NewYear(y) <= t + o /\ t + o < NewYear(y + 1)
  BY YearOfInstant
<1> HIDE DEF y
<1>2. o \in Int /\ p \in Int /\ h \in Nat \ {0} /\ s \in Int /\ e \in Int
  BY <1>1, SettledYear
<1>3. NewYear(y) \in Int /\ NewYear(y + 1) \in Int
  BY <1>1, YearHours
<1>4. /\ S = s - o /\ E = e - p /\ S # E /\ (S < E <=> s < e)
      /\ tr.start.offset = p /\ tr.end.offset = o
  BY <1>1, TransitionsOfYear
<1>5. is_dst_at(tz, t) <=> DstIn(tz, y, t)
  <2>1. NewYear(y) - 2 * h <= t + o /\ t + o < NewYear(y + 1) + 2 * h
    <3> HIDE DEF o, h
    <3> QED BY <1>1, <1>2, <1>3
  <2> QED BY <1>1, <2>1, RulesOfNearYear
<1>6. is_dst_at(tz, t - 1) <=> DstIn(tz, y, t - 1)
  <2> DEFINE u == t - 1
  <2>1. u \in Int
    OBVIOUS
  <2>2. NewYear(y) - 2 * h <= u + o /\ u + o < NewYear(y + 1) + 2 * h
    <3> HIDE DEF o, h
    <3> QED BY <1>1, <1>2, <1>3
  <2>3. u + o \in Epochs
    OBVIOUS
  <2> HIDE DEF u
  <2>4. is_dst_at(tz, u) <=> DstIn(tz, y, u)
    BY <1>1, <2>1, <2>2, <2>3, RulesOfNearYear
  <2> QED BY <2>4 DEF u
<1>7. \A u : DstIn(tz, y, u) <=> IF s < e THEN s - o <= u /\ u < e - p ELSE ~(e - p <= u /\ u < s - o)
  BY DEF DstIn
<1>8. \A u : PosixOffset(tz, u) = IF is_dst_at(tz, u) THEN p ELSE o
  BY DEF PosixOffset
<1>9. p # o
  OBVIOUS
<1> SUFFICES /\ PosixOffset(tz, t - 1) # PosixOffset(tz, t) <=> t \in {S, E}
             /\ t = S => PosixOffset(tz, t) = p
             /\ t = E => PosixOffset(tz, t) = o
  BY <1>4 DEF y
<1> HIDE DEF tr, S, E, o, p, h, s, e
<1>10. S \in Int /\ E \in Int
  BY <1>2, <1>4
<1>11. /\ DstIn(tz, y, t) <=> IF S < E THEN S <= t /\ t < E ELSE ~(E <= t /\ t < S)
       /\ DstIn(tz, y, t - 1) <=> IF S < E THEN S <= t - 1 /\ t - 1 < E ELSE ~(E <= t - 1 /\ t - 1 < S)
  BY <1>4, <1>7
<1>12. (DstIn(tz, y, t) <=> DstIn(tz, y, t - 1)) <=> t \notin {S, E}
  BY <1>4, <1>10, <1>11
<1>13. (t = S => DstIn(tz, y, t)) /\ (t = E => ~DstIn(tz, y, t))
  BY <1>4, <1>10, <1>11
<1> QED BY <1>5, <1>6, <1>8, <1>9, <1>12, <1>13

\* Looking back from any instant of a year, or forward, one finds the transition
\* that the year has there, and over New Year none is lost.
LEMMA StringNext ==
    ASSUME NEW tz, WithDst(tz), NEW t \in Int, t \in Epochs,
           t + tz.std \in Epochs, (t - 1) + tz.std \in Epochs
    PROVE  LET tr == utc_transitions_for_year(tz, StdYear(tz, t)) IN
           /\ PosixNext(tz, t - 1).at = t <=> t \in {tr.start.at, tr.end.at}
           /\ t = tr.start.at => PosixNext(tz, t - 1) = tr.start
           /\ t = tr.end.at => PosixNext(tz, t - 1) = tr.end
           /\ t \notin {tr.start.at, tr.end.at} => PosixNext(tz, t) = PosixNext(tz, t - 1)
<1> DEFINE y == StdYear(tz, t)
           z == StdYear(tz, t - 1)
           tr == utc_transitions_for_year(tz, y)
           o == tz.std
           h == HoursPerDay
<1>1. /\ y \in Years /\ z \in Years /\ y \in Int /\ z \in Int
      /\ y = z \/ (y = z + 1 /\ t + o = NewYear(y))
  <2> DEFINE u == t - 1
  <2>1. u \in Int /\ u + 1 = t /\ u + o \in Epochs /\ (u + 1) + o \in Epochs
    OBVIOUS
  <2>2. z = StdYear(tz, u) /\ y = StdYear(tz, u + 1)
    BY <2>1
  <2> HIDE DEF u, y, z
  <2> QED BY <2>1, <2>2, NextHour
<1>2. NewYear(y) <= t + o /\ t + o < NewYear(y + 1)
  BY YearOfInstant
<1>3. PosixNext(tz, t - 1) = NextInYear(tz, t - 1, utc_transitions_for_year(tz, z), z)
  BY DEF PosixNext, WithDst
<1>4. PosixNext(tz, t) = NextInYear(tz, t, tr, y)
  BY DEF PosixNext, WithDst
<1>5. o \in Int /\ h \in Nat \ {0}
  BY <1>1, SettledYear
<1>6. NewYear(y) \in Int /\ NewYear(y + 1) \in Int
  BY <1>1, YearHours
<1> SUFFICES /\ PosixNext(tz, t - 1).at = t <=> t \in {tr.start.at, tr.end.at}
             /\ t = tr.start.at => PosixNext(tz, t - 1) = tr.start
             /\ t = tr.end.at => PosixNext(tz, t - 1) = tr.end
             /\ t \notin {tr.start.at, tr.end.at} => PosixNext(tz, t) = PosixNext(tz, t - 1)
  OBVIOUS
<1>7. CASE z = y
  <2> DEFINE beyond == IF y + 1 \in Years THEN Earliest(utc_transitions_for_year(tz, y + 1)) ELSE NoTransition
  <2>1. beyond.at # t
    <3>1. CASE y + 1 \in Years
      <4> DEFINE w == y + 1
                 q == beyond.at
      <4>1. w \in Years
        BY <3>1
      <4>2. q = Earliest(utc_transitions_for_year(tz, w)).at
        BY <3>1
      <4> HIDE DEF w, q, y, z
      <4>3. q \in Int /\ NewYear(w) + 2 * h <= q + o
        BY <4>1, <4>2, TransitionsInside
      <4>4. NewYear(w) \in Int /\ t + o < NewYear(w)
        BY <1>2, <1>6 DEF w
      <4>5. q # t
        <5> HIDE DEF o, h
        <5> QED BY <1>5, <4>3, <4>4
      <4> QED BY <4>5 DEF q
    <3>2. CASE y + 1 \notin Years
      <4>1. beyond.at = EpochMin - 1
        BY <3>2 DEF NoTransition
      <4>2. EpochMin <= t /\ EpochMin \in Int
        BY RangeAssumption DEF Epochs
      <4> HIDE DEF beyond
      <4> QED BY <4>1, <4>2
    <3> QED BY <3>1, <3>2
  <2>2. tr.start.at \in Int /\ tr.end.at \in Int /\ tr.start.at # tr.end.at
    BY <1>1, TransitionsInside
  <2>3. PosixNext(tz, t - 1) = NextInYear(tz, t - 1, tr, y)
    BY <1>3, <1>7
  <2> HIDE DEF tr, y, z
  <2> QED BY <1>4, <2>1, <2>2, <2>3, NextPicks
<1>8. CASE z # y
  <2> DEFINE tq == utc_transitions_for_year(tz, z)
  <2>1. y = z + 1 /\ t + o = NewYear(y) /\ NewYear(z + 1) = NewYear(y) /\ z + 1 \in Years
    BY <1>1, <1>8
  <2>2. /\ tq.start.at \in Int /\ tq.end.at \in Int
        /\ \A q \in {tq.start.at, tq.end.at} : q + o <= NewYear(z + 1) - 2 * h
    BY <1>1, TransitionsInside
  <2>3. /\ tr.start.at \in Int /\ tr.end.at \in Int
        /\ \A q \in {tr.start.at, tr.end.at} : NewYear(y) + 2 * h <= q + o
        /\ Earliest(tr).at \in {tr.start.at, tr.end.at}
    BY <1>1, TransitionsInside
  <2>4. \A q \in Int : q + o <= NewYear(y) - 2 * h => ~(q > t - 1)
    <3> HIDE DEF o, h
    <3> QED BY <1>5, <1>6, <2>1
  <2>5. \A q \in Int : NewYear(y) + 2 * h <= q + o => q > t /\ q # t
    <3> HIDE DEF o, h
    <3> QED BY <1>5, <1>6, <2>1
  <2> HIDE DEF tq
  <2>6. ~(tq.start.at > t - 1) /\ ~(tq.end.at > t - 1)
    <3> HIDE DEF y, z, o, h
    <3> QED BY <2>1, <2>2, <2>4
  <2>7. NextInYear(tz, t - 1, tq, z) = Earliest(tr)
    <3>1. NextInYear(tz, t - 1, tq, z) = Earliest(utc_transitions_for_year(tz, z + 1))
      BY <2>1, <2>6 DEF NextInYear
    <3>2. utc_transitions_for_year(tz, z + 1) = tr
      BY <2>1
    <3> QED BY <3>1, <3>2
  <2>8. tr.start.at > t /\ tr.end.at > t /\ t \notin {tr.start.at, tr.end.at} /\ Earliest(tr).at # t
    <3> HIDE DEF y, z, o, h, tr
    <3> QED BY <2>3, <2>5
  <2>9. NextInYear(tz, t, tr, y) = Earliest(tr)
    BY <2>8 DEF NextInYear
  <2>10. PosixNext(tz, t - 1) = Earliest(tr)
    BY <1>3, <2>7 DEF tq
  <2> HIDE DEF tr, y, z
  <2> QED BY <1>4, <2>8, <2>9, <2>10
<1> QED BY <1>7, <1>8

\* The same to the other side.
LEMMA StringPrev ==
    ASSUME NEW tz, WithDst(tz), NEW t \in Int, t \in Epochs,
           t + tz.std \in Epochs, (t + 1) + tz.std \in Epochs
    PROVE  LET tr == utc_transitions_for_year(tz, StdYear(tz, t)) IN
           /\ PosixPrev(tz, t + 1).at = t <=> t \in {tr.start.at, tr.end.at}
           /\ t = tr.start.at => PosixPrev(tz, t + 1) = tr.start
           /\ t = tr.end.at => PosixPrev(tz, t + 1) = tr.end
           /\ t \notin {tr.start.at, tr.end.at} => PosixPrev(tz, t) = PosixPrev(tz, t + 1)
<1> DEFINE y == StdYear(tz, t)
           z == StdYear(tz, t + 1)
           tr == utc_transitions_for_year(tz, y)
           o == tz.std
           h == HoursPerDay
<1>1. /\ y \in Years /\ z \in Years /\ y \in Int /\ z \in Int
      /\ z = y \/ (z = y + 1 /\ (t + 1) + o = NewYear(z))
  BY NextHour
<1>2. NewYear(y) <= t + o /\ t + o < NewYear(y + 1)
  BY YearOfInstant
<1>3. PosixPrev(tz, t + 1) = PrevInYear(tz, t + 1, utc_transitions_for_year(tz, z), z)
  BY DEF PosixPrev, WithDst
<1>4. PosixPrev(tz, t) = PrevInYear(tz, t, tr, y)
  BY DEF PosixPrev, WithDst
<1>5. o \in Int /\ h \in Nat \ {0}
  BY <1>1, SettledYear
<1>6. NewYear(y) \in Int /\ NewYear(y + 1) \in Int
  BY <1>1, YearHours
<1> SUFFICES /\ PosixPrev(tz, t + 1).at = t <=> t \in {tr.start.at, tr.end.at}
             /\ t = tr.start.at => PosixPrev(tz, t + 1) = tr.start
             /\ t = tr.end.at => PosixPrev(tz, t + 1) = tr.end
             /\ t \notin {tr.start.at, tr.end.at} => PosixPrev(tz, t) = PosixPrev(tz, t + 1)
  OBVIOUS
<1>7. CASE z = y
  <2> DEFINE beyond == IF y - 1 \in Years THEN Latest(utc_transitions_for_year(tz, y - 1)) ELSE NoTransition
  <2>1. beyond.at # t
    <3>1. CASE y - 1 \in Years
      <4> DEFINE w == y - 1
                 q == beyond.at
      <4>1. w \in Years /\ w + 1 = y
        BY <1>1, <3>1
      <4>2. q = Latest(utc_transitions_for_year(tz, w)).at
        BY <3>1
      <4> HIDE DEF w, q, y, z
      <4>3. q \in Int /\ q + o <= NewYear(w + 1) - 2 * h
        BY <4>1, <4>2, TransitionsInside
      <4>4. q # t
        <5> HIDE DEF o, h
        <5> QED BY <1>2, <1>5, <1>6, <4>1, <4>3
      <4> QED BY <4>4 DEF q
    <3>2. CASE y - 1 \notin Years
      <4>1. beyond.at = EpochMin - 1
        BY <3>2 DEF NoTransition
      <4>2. EpochMin <= t /\ EpochMin \in Int
        BY RangeAssumption DEF Epochs
      <4> HIDE DEF beyond
      <4> QED BY <4>1, <4>2
    <3> QED BY <3>1, <3>2
  <2>2. tr.start.at \in Int /\ tr.end.at \in Int /\ tr.start.at # tr.end.at
    BY <1>1, TransitionsInside
  <2>3. PosixPrev(tz, t + 1) = PrevInYear(tz, t + 1, tr, y)
    BY <1>3, <1>7
  <2> HIDE DEF tr, y, z
  <2> QED BY <1>4, <2>1, <2>2, <2>3, PrevPicks
<1>8. CASE z # y
  <2> DEFINE tq == utc_transitions_for_year(tz, z)
  <2>1. /\ z = y + 1 /\ (t + 1) + o = NewYear(z) /\ NewYear(y + 1) = NewYear(z)
        /\ z - 1 \in Years /\ z - 1 = y
    BY <1>1, <1>8
  <2>2. /\ tq.start.at \in Int /\ tq.end.at \in Int
        /\ \A q \in {tq.start.at, tq.end.at} : NewYear(z) + 2 * h <= q + o
    BY <1>1, TransitionsInside
  <2>3. /\ tr.start.at \in Int /\ tr.end.at \in Int
        /\ \A q \in {tr.start.at, tr.end.at} : q + o <= NewYear(y + 1) - 2 * h
        /\ Latest(tr).at \in {tr.start.at, tr.end.at}
    BY <1>1, TransitionsInside
  <2>4. \A q \in Int : NewYear(z) + 2 * h <= q + o => ~(q < t + 1)
    <3> HIDE DEF o, h
    <3> QED BY <1>5, <1>6, <2>1
  <2>5. \A q \in Int : q + o <= NewYear(y + 1) - 2 * h => q < t /\ q # t
    <3> HIDE DEF o, h
    <3> QED BY <1>5, <1>6, <2>1
  <2> HIDE DEF tq
  <2>6. ~(tq.start.at < t + 1) /\ ~(tq.end.at < t + 1)
    <3> HIDE DEF y, z, o, h
    <3> QED BY <2>1, <2>2, <2>4
  <2>7. PrevInYear(tz, t + 1, tq, z) = Latest(tr)
    <3>1. PrevInYear(tz, t + 1, tq, z) = Latest(utc_transitions_for_year(tz, z - 1))
      BY <2>1, <2>6 DEF PrevInYear
    <3>2. utc_transitions_for_year(tz, z - 1) = tr
      BY <2>1
    <3> QED BY <3>1, <3>2
  <2>8. tr.start.at < t /\ tr.end.at < t /\ t \notin {tr.start.at, tr.end.at} /\ Latest(tr).at # t
    <3> HIDE DEF y, z, o, h, tr
    <3> QED BY <2>3, <2>5
  <2>9. PrevInYear(tz, t, tr, y) = Latest(tr)
    BY <2>8 DEF PrevInYear
  <2>10. PosixPrev(tz, t + 1) = Latest(tr)
    BY <1>3, <2>7 DEF tq
  <2> HIDE DEF tr, y, z
  <2> QED BY <1>4, <2>8, <2>9, <2>10
<1> QED BY <1>7, <1>8

\* Away from the ends of time, an hour more or less is still in range.
LEMMA InnerHours ==
    ASSUME NEW t, Inner(t), NEW o \in Offsets
    PROVE  /\ t \in Int /\ t \in Epochs /\ EpochMin \in Int /\ EpochMin + 2 <= t
           /\ t + o \in Epochs /\ (t - 1) + o \in Epochs /\ (t + 1) + o \in Epochs
           /\ t - 1 \in Epochs /\ t + 1 \in Epochs
<1> DEFINE h == HoursPerDay
<1>1. h \in Nat \ {0} /\ OffsetMax = h - 1
  BY HoursAssumption
<1>2. o \in Int /\ -h < o /\ o < h
  BY <1>1 DEF Offsets
<1>3. t \in Int /\ EpochMin + 2 * h <= t /\ t <= EpochMax - 2 * h /\ EpochMin \in Int /\ EpochMax \in Int
  BY RangeAssumption DEF Inner
<1> HIDE DEF h
<1>4. \A x \in {t, t + o, (t - 1) + o, (t + 1) + o, t - 1, t + 1} : x \in Int /\ EpochMin <= x /\ x <= EpochMax
  BY <1>1, <1>2, <1>3
<1>5. EpochMin + 2 <= t
  BY <1>1, <1>3
<1> QED BY <1>3, <1>4, <1>5 DEF Epochs

\* No transition of a string that is told as one is None.
LEMMA PrevIsReal ==
    ASSUME NEW tz, SettledTz(tz), NEW t \in Int, t + tz.std \in Epochs
    PROVE  PosixPrev(tz, t) = NoTransition \/ (PosixPrev(tz, t).at \in Int /\ EpochMin <= PosixPrev(tz, t).at)
<1>1. CASE tz.dst = <<>>
  BY <1>1 DEF PosixPrev
<1>2. CASE tz.dst # <<>>
  <2> DEFINE y == StdYear(tz, t)
             tr(w) == utc_transitions_for_year(tz, w)
             P == PosixPrev(tz, t)
  <2>1. WithDst(tz)
    BY <1>2 DEF SettledTz
  <2>2. y \in Years
    BY <2>1, YearOfInstant
  <2>3. ASSUME NEW w \in Years
        PROVE  /\ tr(w).start.at \in Int /\ tr(w).end.at \in Int
               /\ EpochMin <= tr(w).start.at /\ EpochMin <= tr(w).end.at
               /\ Latest(tr(w)) \in {tr(w).start, tr(w).end}
    <3> DEFINE o == tz.std
               h == HoursPerDay
    <3>1. /\ tr(w).start.at \in Int /\ tr(w).end.at \in Int
          /\ \A q \in {tr(w).start.at, tr(w).end.at} : NewYear(w) + 2 * h <= q + o
      BY <2>1, TransitionsInside
    <3>2. NewYear(w) \in Int /\ EpochMin <= NewYear(w) /\ EpochMin \in Int
      BY YearHours, RangeAssumption
    <3>3. o \in Int /\ h \in Nat \ {0} /\ o < h
      BY <2>1, SettledYear
    <3>4. Latest(tr(w)) \in {tr(w).start, tr(w).end}
      BY DEF Latest
    <3> HIDE DEF tr, o, h
    <3>5. \A q \in Int : NewYear(w) + 2 * h <= q + o => EpochMin <= q
      BY <3>2, <3>3
    <3> QED BY <3>1, <3>4, <3>5
  <2>4. P = PrevInYear(tz, t, tr(y), y)
    BY <1>2 DEF PosixPrev
  <2>5. \/ P \in {tr(y).start, tr(y).end, Latest(tr(y)), NoTransition}
        \/ y - 1 \in Years /\ P = Latest(tr(y - 1))
    BY <2>4 DEF PrevInYear
  <2> HIDE DEF P, tr, y
  <2>6. CASE P \in {tr(y).start, tr(y).end, Latest(tr(y)), NoTransition}
    BY <2>2, <2>3, <2>6 DEF P
  <2>7. CASE y - 1 \in Years /\ P = Latest(tr(y - 1))
    BY <2>3, <2>7 DEF P
  <2> QED BY <2>5, <2>6, <2>7
<1> QED BY <1>1, <1>2

\* A string with two offsets, if it has rules.
TwoOffsets(tz) == tz.dst # <<>> => tz.dst[1].offset # tz.std

\* No change of offset escapes TzStr::next_transition and prev_transition, also
\* over New Year, where they look at the rules of the neighbouring year; and they
\* invent none.
THEOREM StringFindsEveryChange ==
    ASSUME NEW tz, SettledTz(tz), TwoOffsets(tz), NEW t, Inner(t)
    PROVE  FindsChange(t, PosixOffset(tz, t - 1), PosixOffset(tz, t),
                       PosixNext(tz, t - 1), PosixPrev(tz, t + 1), PosixNext(tz, t), PosixPrev(tz, t))
<1>1. tz.std \in Offsets
  BY DEF SettledTz
<1>2. /\ t \in Int /\ t \in Epochs /\ EpochMin \in Int /\ EpochMin + 2 <= t
      /\ t + tz.std \in Epochs /\ (t - 1) + tz.std \in Epochs /\ (t + 1) + tz.std \in Epochs
  BY <1>1, InnerHours
<1>3. CASE tz.dst = <<>>
  <2>1. /\ PosixOffset(tz, t - 1) = tz.std /\ PosixOffset(tz, t) = tz.std
        /\ PosixNext(tz, t - 1) = NoTransition /\ PosixNext(tz, t) = NoTransition
        /\ PosixPrev(tz, t + 1) = NoTransition /\ PosixPrev(tz, t) = NoTransition
    BY <1>3 DEF PosixOffset, is_dst_at, PosixNext, PosixPrev
  <2>2. NoTransition.at # t
    BY <1>2 DEF NoTransition
  <2> QED BY <2>1, <2>2 DEF FindsChange
<1>4. CASE tz.dst # <<>>
  <2> DEFINE tr == utc_transitions_for_year(tz, StdYear(tz, t))
             S == tr.start.at
             E == tr.end.at
             before == PosixOffset(tz, t - 1)
             offset == PosixOffset(tz, t)
             next == PosixNext(tz, t - 1)
             after == PosixNext(tz, t)
             prev == PosixPrev(tz, t + 1)
             earlier == PosixPrev(tz, t)
  <2>1. WithDst(tz) /\ tz.dst[1].offset # tz.std
    BY <1>4 DEF SettledTz, TwoOffsets
  <2>2. /\ before # offset <=> t \in {S, E}
        /\ t = S => offset = tr.start.offset
        /\ t = E => offset = tr.end.offset
    BY <1>2, <2>1, StringChanges
  <2>3. /\ next.at = t <=> t \in {S, E}
        /\ t = S => next = tr.start
        /\ t = E => next = tr.end
        /\ t \notin {S, E} => after = next
    BY <1>2, <2>1, StringNext
  <2>4. /\ prev.at = t <=> t \in {S, E}
        /\ t = S => prev = tr.start
        /\ t = E => prev = tr.end
        /\ t \notin {S, E} => earlier = prev
    BY <1>2, <2>1, StringPrev
  <2>5. t >= t
    BY <1>2
  <2> SUFFICES FindsChange(t, before, offset, next, prev, after, earlier)
    OBVIOUS
  <2> HIDE DEF tr, S, E, before, offset, next, after, prev, earlier
  <2>6. CASE t \in {S, E}
    BY <2>2, <2>3, <2>4, <2>5, <2>6 DEF FindsChange
  <2>7. CASE t \notin {S, E}
    BY <2>2, <2>3, <2>4, <2>7 DEF FindsChange
  <2> QED BY <2>6, <2>7
<1> QED BY <1>3, <1>4

\* A zone that is only asked for its string finds what the string finds.
LEMMA StringAloneFinds ==
    ASSUME NEW z, NEW tz, SettledTz(tz), TwoOffsets(tz), FooterZone(z, tz), Len(z.utc) <= 1, NEW t, Inner(t)
    PROVE  FindsChange(t, FooterOffset(z, t - 1), FooterOffset(z, t),
                       FooterNext(z, t - 1), FooterPrev(z, t + 1), FooterNext(z, t), FooterPrev(z, t))
<1>1. tz.std \in Offsets
  BY DEF SettledTz
<1>2. /\ t \in Int /\ t \in Epochs /\ EpochMin \in Int /\ EpochMin + 2 <= t
  BY <1>1, InnerHours
<1>3. z.end # <<>> /\ z.end[1] = tz
  BY FooterEnd
<1>4. ASSUME NEW u \in Int, EpochMin <= u PROVE bisect(z.utc, u) = Past(z.utc)
  <2>1. CASE z = parse_posix(tz)
    BY <2>1, EmptyBisect DEF parse_posix
  <2>2. CASE HandsOver(z, tz)
    <3>1. Len(z.utc) = 1 /\ z.utc[1].at = EpochMin
      BY <2>2, OneEntry DEF HandsOver, WellFormedUtc
    <3>2. IsFirstAfter(z.utc, u, 2)
      BY <1>4, <3>1 DEF IsFirstAfter, Past
    <3>3. \A i \in 1 .. Len(z.utc) : z.utc[i].at \in Int
      BY <3>1, RangeAssumption
    <3> QED BY <3>1, <3>2, <3>3, BisectUnique DEF Past
  <2> QED BY <2>1, <2>2 DEF FooterZone
<1>5. ASSUME NEW u \in Int, EpochMin <= u
      PROVE  FooterOffset(z, u) = PosixOffset(tz, u) /\ FooterNext(z, u) = PosixNext(tz, u)
  BY <1>3, <1>4, <1>5 DEF FooterOffset, FooterNext
<1>6. Len(z.utc) \in {0, 1} /\ (z.utc = <<>> \/ Final(z.utc).at = EpochMin)
  <2>1. CASE z = parse_posix(tz)
    BY <2>1 DEF parse_posix
  <2>2. CASE HandsOver(z, tz)
    BY <2>2, OneEntry DEF HandsOver, WellFormedUtc, Final
  <2> QED BY <2>1, <2>2 DEF FooterZone
<1>7. ASSUME NEW u \in Int, EpochMin <= u - 1
      PROVE  FooterPrev(z, u) = PosixPrev(tz, u)
  <2>1. partition_point(z.utc, u) = Len(z.utc)
    <3>1. u - 1 \in Int
      OBVIOUS
    <3>2. bisect(z.utc, u - 1) = Len(z.utc) + 1
      BY <1>4, <1>7, <3>1 DEF Past
    <3> QED BY <1>6, <3>2 DEF partition_point
  <2>2. RecordedPrev(z, partition_point(z.utc, u)) = NoTransition
    BY <1>6, <2>1 DEF RecordedPrev
  <2>3. z.utc = <<>> \/ u > Final(z.utc).at
    BY <1>2, <1>6, <1>7
  <2> QED BY <1>3, <2>2, <2>3 DEF FooterPrev, PrevOr
<1>8. /\ t - 1 \in Int /\ t + 1 \in Int /\ EpochMin <= t - 1 /\ EpochMin <= t
      /\ EpochMin <= (t + 1) - 1
  BY <1>2
<1>9. /\ FooterOffset(z, t - 1) = PosixOffset(tz, t - 1) /\ FooterNext(z, t - 1) = PosixNext(tz, t - 1)
      /\ FooterOffset(z, t) = PosixOffset(tz, t) /\ FooterNext(z, t) = PosixNext(tz, t)
  BY <1>2, <1>5, <1>8
<1>10. FooterPrev(z, t + 1) = PosixPrev(tz, t + 1) /\ FooterPrev(z, t) = PosixPrev(tz, t)
  BY <1>2, <1>7, <1>8
<1> QED BY <1>9, <1>10, StringFindsEveryChange

\* The recorded span that an instant lies in, as the searches of the lookups at
\* that instant and an hour earlier see it.
LEMMA SpanSearches ==
    ASSUME NEW z, NEW tz, HandsOver(z, tz), Len(z.utc) > 1, NEW t, Inner(t)
    PROVE  \E k \in 1 .. Len(z.utc) :
                /\ bisect(z.utc, t) = k + 1
                /\ z.utc[k].at <= t /\ (k = Len(z.utc) \/ t < z.utc[k + 1].at)
                /\ bisect(z.utc, t - 1) = (IF t = z.utc[k].at THEN k ELSE k + 1)
                /\ t = z.utc[k].at => k > 1
<1> DEFINE n == Len(z.utc)
<1>1. /\ WellFormed(Closed(z)) /\ n \in Nat /\ n >= 2
      /\ \A i \in 1 .. n : z.utc[i].at \in Int
      /\ \A i, j \in 1 .. n : i < j => z.utc[i].at < z.utc[j].at
  BY ClosedFacts
<1>2. t \in Int /\ t \in Epochs /\ EpochMin \in Int /\ EpochMin + 2 <= t
  <2>1. 0 \in Offsets
    BY RangeAssumption DEF Offsets
  <2> QED BY <2>1, InnerHours
<1>3. Closed(z).utc = z.utc
  BY DEF Closed
<1>4. PICK k \in 1 .. n :
        /\ bisect(z.utc, t) = k + 1
        /\ z.utc[k].at <= t
        /\ k = n \/ t < z.utc[k + 1].at
  <2>1. \E k \in 1 .. Len(Closed(z).utc) :
            /\ bisect(Closed(z).utc, t) = k + 1
            /\ Closed(z).utc[k].at <= t
            /\ k = Len(Closed(z).utc) \/ t < Closed(z).utc[k + 1].at
    BY <1>1, <1>2, SpanOf
  <2> QED BY <1>3, <2>1
<1>5. z.utc[1].at = EpochMin
  BY DEF HandsOver, WellFormedUtc
<1>6. t = z.utc[k].at => k > 1
  BY <1>1, <1>2, <1>5
<1>7. bisect(z.utc, t - 1) = IF t = z.utc[k].at THEN k ELSE k + 1
  <2> DEFINE r == IF t = z.utc[k].at THEN k ELSE k + 1
             u == t - 1
  <2>1. u \in Int /\ r \in 1 .. n + 1
    BY <1>1, <1>2
  <2>2. ASSUME NEW i \in 1 .. r - 1 PROVE z.utc[i].at <= u
    <3>1. CASE t = z.utc[k].at
      <4>1. i \in 1 .. n /\ i < k
        BY <1>1, <3>1
      <4>2. z.utc[i].at < z.utc[k].at /\ z.utc[i].at \in Int
        BY <1>1, <4>1
      <4> QED BY <1>2, <3>1, <4>2
    <3>2. CASE t # z.utc[k].at
      <4>1. z.utc[k].at \in Int /\ z.utc[k].at < t
        BY <1>1, <1>2, <1>4, <3>2
      <4>2. i \in 1 .. n /\ (i = k \/ i < k)
        BY <1>1, <3>2
      <4>3. z.utc[i].at \in Int /\ z.utc[i].at <= z.utc[k].at
        BY <1>1, <4>1, <4>2
      <4> QED BY <1>2, <4>1, <4>3
    <3> QED BY <3>1, <3>2
  <2>3. r # n + 1 => u < z.utc[r].at
    <3>1. CASE t = z.utc[k].at
      BY <1>2, <3>1
    <3>2. CASE t # z.utc[k].at /\ k # n
      <4>1. k + 1 \in 1 .. n
        BY <1>1, <3>2
      <4>2. z.utc[k + 1].at \in Int /\ t < z.utc[k + 1].at
        BY <1>1, <1>4, <3>2, <4>1
      <4> QED BY <1>2, <3>2, <4>2
    <3>3. CASE t # z.utc[k].at /\ k = n
      BY <3>3
    <3> QED BY <3>1, <3>2, <3>3
  <2> HIDE DEF r, u
  <2>4. IsFirstAfter(z.utc, u, r)
    BY <2>1, <2>2, <2>3 DEF IsFirstAfter, Past
  <2>5. bisect(z.utc, u) = r
    BY <1>1, <2>1, <2>4, BisectUnique
  <2> QED BY <2>5 DEF r, u
<1> QED BY <1>4, <1>6, <1>7

\* The recorded changes: no transition keeps the offset.
Changing(utc) == \A i \in 2 .. Len(utc) : utc[i].offset # utc[i - 1].offset

\* No change of offset escapes the lookups of a file with a string: within the
\* table, at its last transition, where prev_transition asks the string first,
\* and after it.
LEMMA TableFinds ==
    ASSUME NEW z, NEW tz, SettledTz(tz), TwoOffsets(tz), HandsOver(z, tz), Len(z.utc) > 1,
           Changing(z.utc), NEW t, Inner(t)
    PROVE  FindsChange(t, FooterOffset(z, t - 1), FooterOffset(z, t),
                       FooterNext(z, t - 1), FooterPrev(z, t + 1), FooterNext(z, t), FooterPrev(z, t))
<1> DEFINE n == Len(z.utc)
           a == z.utc[n].at
           before == FooterOffset(z, t - 1)
           offset == FooterOffset(z, t)
           next == FooterNext(z, t - 1)
           after == FooterNext(z, t)
           prev == FooterPrev(z, t + 1)
           earlier == FooterPrev(z, t)
<1>1. /\ n \in Nat /\ n >= 2
      /\ \A i \in 1 .. n : z.utc[i].at \in Int
      /\ \A i, j \in 1 .. n : i < j => z.utc[i].at < z.utc[j].at
  BY ClosedFacts
<1>2. /\ t \in Int /\ t \in Epochs /\ EpochMin \in Int /\ EpochMin + 2 <= t
      /\ t + tz.std \in Epochs /\ (t + 1) + tz.std \in Epochs
  <2>1. tz.std \in Offsets
    BY DEF SettledTz
  <2> QED BY <2>1, InnerHours
<1>3. PICK k \in 1 .. n :
        /\ bisect(z.utc, t) = k + 1
        /\ z.utc[k].at <= t /\ (k = n \/ t < z.utc[k + 1].at)
        /\ bisect(z.utc, t - 1) = (IF t = z.utc[k].at THEN k ELSE k + 1)
        /\ t = z.utc[k].at => k > 1
  BY SpanSearches
<1>4. z.end # <<>> /\ z.end[1] = tz /\ z.utc # <<>> /\ Final(z.utc).at = a
  <2>1. z.end = <<tz>>
    BY DEF HandsOver
  <2>2. z.utc # <<>>
    BY <1>1
  <2> QED BY <2>1, <2>2 DEF Final
<1>5. ASSUME NEW u, NEW r \in Int, bisect(z.utc, u) = r
      PROVE  /\ FooterOffset(z, u) = IF r # n + 1 THEN z.utc[Larger(1, r - 1)].offset ELSE PosixOffset(tz, u)
             /\ FooterNext(z, u) = IF r # n + 1 THEN z.utc[r] ELSE PosixNext(tz, u)
  BY <1>4, <1>5 DEF FooterOffset, FooterNext, Past
<1>6. ASSUME NEW u \in Int, NEW r \in Int, bisect(z.utc, u - 1) = r
      PROVE  FooterPrev(z, u) = PrevOr(IF u > a THEN PosixPrev(tz, u) ELSE NoTransition,
                                       IF r - 1 > 1 THEN z.utc[r - 1] ELSE NoTransition)
  BY <1>4, <1>6 DEF FooterPrev, partition_point, RecordedPrev
<1>7. k \in Int /\ k + 1 \in Int /\ (k + 1) - 1 = k /\ (t + 1) - 1 = t /\ t + 1 \in Int /\ t - 1 \in Int
  BY <1>1, <1>2
<1> DEFINE r == IF t = z.utc[k].at THEN k ELSE k + 1
<1>8. r \in Int
  BY <1>7
<1>9. /\ offset = IF k # n THEN z.utc[k].offset ELSE PosixOffset(tz, t)
      /\ after = IF k # n THEN z.utc[k + 1] ELSE PosixNext(tz, t)
  <2>1. k + 1 # n + 1 <=> k # n
    BY <1>1, <1>7
  <2>2. Larger(1, (k + 1) - 1) = k
    BY <1>1, <1>7 DEF Larger
  <2> QED BY <1>3, <1>5, <1>7, <2>1, <2>2
<1>10. prev = PrevOr(IF t + 1 > a THEN PosixPrev(tz, t + 1) ELSE NoTransition,
                     IF k > 1 THEN z.utc[k] ELSE NoTransition)
  <2>1. bisect(z.utc, (t + 1) - 1) = k + 1
    BY <1>3, <1>7
  <2>2. FooterPrev(z, t + 1) = PrevOr(IF t + 1 > a THEN PosixPrev(tz, t + 1) ELSE NoTransition,
                                      IF (k + 1) - 1 > 1 THEN z.utc[(k + 1) - 1] ELSE NoTransition)
    BY <1>6, <1>7, <2>1
  <2> QED BY <1>7, <2>2
<1>11. /\ before = IF r # n + 1 THEN z.utc[Larger(1, r - 1)].offset ELSE PosixOffset(tz, t - 1)
       /\ next = IF r # n + 1 THEN z.utc[r] ELSE PosixNext(tz, t - 1)
       /\ earlier = PrevOr(IF t > a THEN PosixPrev(tz, t) ELSE NoTransition,
                           IF r - 1 > 1 THEN z.utc[r - 1] ELSE NoTransition)
  BY <1>2, <1>3, <1>5, <1>6, <1>8
<1>12. a \in Int /\ z.utc[k].at \in Int /\ z.utc[k].at <= t /\ NoTransition.at # t
       /\ NoTransition.at = EpochMin - 1
  BY <1>1, <1>2, <1>3, SMTT(40) DEF NoTransition
<1>13. FindsChange(t, PosixOffset(tz, t - 1), PosixOffset(tz, t),
                   PosixNext(tz, t - 1), PosixPrev(tz, t + 1), PosixNext(tz, t), PosixPrev(tz, t))
  BY StringFindsEveryChange
<1>14. /\ PosixPrev(tz, t) = NoTransition \/ (PosixPrev(tz, t).at \in Int /\ EpochMin <= PosixPrev(tz, t).at)
       /\ PosixPrev(tz, t + 1) = NoTransition \/ (PosixPrev(tz, t + 1).at \in Int /\ EpochMin <= PosixPrev(tz, t + 1).at)
  BY <1>2, <1>7, PrevIsReal
<1>15. t >= t
  BY <1>2
<1> SUFFICES FindsChange(t, before, offset, next, prev, after, earlier)
  OBVIOUS
<1> HIDE DEF before, offset, next, after, prev, earlier
<1>16. CASE k # n
  <2>1. k + 1 \in 1 .. n /\ k < n /\ t < z.utc[k + 1].at /\ z.utc[k + 1].at \in Int /\ n \in 1 .. n
    BY <1>1, <1>3, <1>16
  <2>2. z.utc[k + 1].at <= a
    BY <1>1, <1>12, <2>1, SMTT(40)
  <2>3. ~(t + 1 > a) /\ ~(t > a)
    BY <1>2, <1>12, <2>1, <2>2
  <2>4. offset = z.utc[k].offset /\ after = z.utc[k + 1]
        /\ prev = IF k > 1 THEN z.utc[k] ELSE NoTransition
    BY <1>9, <1>10, <1>16, <2>3 DEF PrevOr
  <2>5. CASE t = z.utc[k].at
    <3>1. k > 1 /\ r = k /\ r # n + 1 /\ Larger(1, r - 1) = k - 1 /\ k \in 2 .. n
      BY <1>1, <1>3, <1>7, <2>5 DEF Larger
    <3>2. before = z.utc[k - 1].offset /\ next = z.utc[k] /\ prev = z.utc[k]
      BY <1>11, <2>4, <3>1
    <3>3. before # offset
      BY <2>4, <3>1, <3>2 DEF Changing
    <3> QED BY <1>15, <2>4, <2>5, <3>2, <3>3 DEF FindsChange
  <2>6. CASE t # z.utc[k].at
    <3>1. r = k + 1 /\ r # n + 1 /\ r - 1 = k /\ Larger(1, k) = k
      BY <1>1, <1>7, <1>16, <2>6 DEF Larger
    <3>2. before = z.utc[k].offset /\ next = z.utc[k + 1]
      BY <1>11, <3>1
    <3>3. earlier = IF k > 1 THEN z.utc[k] ELSE NoTransition
      BY <1>11, <2>3, <3>1 DEF PrevOr
    <3>4. next.at # t /\ prev.at # t
      BY <1>2, <1>12, <2>1, <2>4, <2>6, <3>2
    <3> QED BY <2>4, <3>2, <3>3, <3>4 DEF FindsChange
  <2> QED BY <2>5, <2>6
<1>17. CASE k = n /\ t = a
  <2>1. k > 1 /\ r = k /\ r # n + 1 /\ Larger(1, r - 1) = k - 1 /\ k \in 2 .. n /\ t = z.utc[k].at
    BY <1>1, <1>3, <1>7, <1>17 DEF Larger
  <2>2. before = z.utc[k - 1].offset /\ next = z.utc[k]
    BY <1>11, <2>1
  <2>3. HoursPerDay \in Nat \ {0}
    BY HoursAssumption
  <2>4. PosixOffset(tz, t) = z.utc[n].offset
    <3>1. a - 2 * HoursPerDay <= t /\ t <= a + 2 * HoursPerDay /\ ~(t < a)
      BY <1>12, <1>17, <2>3
    <3> QED BY <1>2, <3>1, NearLast
  <2>5. PosixOffset(tz, t - 1) = z.utc[n - 1].offset
    <3> DEFINE u == t - 1
    <3>1. u \in Int /\ a - 2 * HoursPerDay <= u /\ u <= a + 2 * HoursPerDay /\ u < a
      BY <1>12, <1>17, <2>3
    <3> HIDE DEF u
    <3>2. PosixOffset(tz, u) = z.utc[n - 1].offset
      BY <3>1, NearLast
    <3> QED BY <3>2 DEF u
  <2>6. offset = z.utc[n].offset /\ before # offset
    BY <1>9, <1>17, <2>1, <2>2, <2>4 DEF Changing
  <2>7. t + 1 > a
    BY <1>2, <1>17
  <2>8. prev = PrevOr(PosixPrev(tz, t + 1), z.utc[n])
    BY <1>10, <1>17, <2>1, <2>7
  <2>9. PosixPrev(tz, t + 1).at = t /\ PosixPrev(tz, t + 1).offset = offset
    BY <1>13, <1>17, <2>2, <2>4, <2>5, <2>6 DEF FindsChange
  <2>10. prev.at = t /\ prev.offset = offset
    BY <1>17, <2>6, <2>8, <2>9 DEF PrevOr
  <2>11. next.at = t /\ next.offset = offset
    BY <1>17, <2>2, <2>6
  <2> QED BY <1>15, <2>6, <2>10, <2>11 DEF FindsChange
<1>18. CASE k = n /\ t # a
  <2>1. t > a /\ t + 1 > a /\ r = n + 1 /\ r - 1 = n /\ n > 1
    BY <1>1, <1>2, <1>12, <1>18
  <2>2. /\ before = PosixOffset(tz, t - 1) /\ offset = PosixOffset(tz, t)
        /\ next = PosixNext(tz, t - 1) /\ after = PosixNext(tz, t)
    BY <1>9, <1>11, <1>18, <2>1
  <2>3. prev = PrevOr(PosixPrev(tz, t + 1), z.utc[n]) /\ earlier = PrevOr(PosixPrev(tz, t), z.utc[n])
    BY <1>10, <1>11, <1>18, <2>1
  <2> DEFINE P == PosixPrev(tz, t + 1)
             Q == PosixPrev(tz, t)
  <2>4. /\ before # offset <=> next.at = t
        /\ before # offset <=> P.at = t
        /\ before # offset => next.offset = offset /\ P.offset = next.offset
        /\ after.at = next.at \/ before # offset
        /\ P.at >= t \/ P.at = Q.at
    BY <1>13, <2>2 DEF FindsChange
  <2>5. /\ prev = IF P # NoTransition THEN P ELSE z.utc[n]
        /\ earlier = IF Q # NoTransition THEN Q ELSE z.utc[n]
    BY <2>3 DEF PrevOr
  <2>6. /\ Q = NoTransition \/ (Q.at \in Int /\ EpochMin <= Q.at)
        /\ P = NoTransition \/ (P.at \in Int /\ EpochMin <= P.at)
    BY <1>14
  <2> HIDE DEF P, Q
  <2>7. CASE P # NoTransition
    <3>1. prev = P
      BY <2>5, <2>7
    <3>2. P.at >= t \/ Q # NoTransition
      BY <1>2, <1>12, <2>4, <2>6, <2>7
    <3>3. prev.at >= t \/ prev.at = earlier.at
      BY <2>4, <2>5, <3>1, <3>2
    <3> QED BY <2>4, <3>1, <3>3 DEF FindsChange
  <2>8. CASE P = NoTransition
    <3>1. prev = z.utc[n] /\ prev.at # t /\ P.at # t
      BY <1>12, <1>18, <2>5, <2>8
    <3>2. Q = NoTransition
      <4>1. P.at = EpochMin - 1 /\ ~(P.at >= t)
        BY <1>2, <1>12, <2>8
      <4> QED BY <1>2, <2>4, <2>6, <4>1
    <3>3. earlier = z.utc[n]
      BY <2>5, <3>2
    <3> QED BY <2>4, <3>1, <3>3 DEF FindsChange
  <2> QED BY <2>7, <2>8
<1> QED BY <1>16, <1>17, <1>18

\* No change of offset escapes FooterNext and FooterPrev in any walk, nor do they
\* invent one: within the recorded transitions, where the table hands over to the
\* string, and over New Year (next_transition and prev_transition of TimeZone).
THEOREM FooterAlwaysFindsChanges == MCSpec => []FooterFindsEveryChange
<1>1. StringInv => FooterFindsEveryChange
  <2> SUFFICES ASSUME StringInv, zone # NoZone, AwayFromEnds, NEW t \in HoursOfDay
               PROVE  NothingEscapes(t, FooterOffset(zone, t - 1), FooterOffset(zone, t),
                                     FooterNext(zone, t - 1), FooterPrev(zone, t + 1))
    BY Zenon DEF FooterFindsEveryChange
  <2> DEFINE tz == parse(text)
  <2>1. SettledTz(tz) /\ TwoOffsets(tz)
    BY ParsedOffsets, ChangesAssumption DEF StringInv, TwoOffsets
  <2>2. FooterZone(zone, tz) /\ (Len(zone.utc) <= 1 \/ (HandsOver(zone, tz) /\ Changing(zone.utc)))
    <3>1. CASE zone = parse_posix(tz)
      BY <3>1 DEF FooterZone, parse_posix
    <3>2. ASSUME NEW n \in Recorded, zone = RecordedZone(text, n)
          PROVE  HandsOver(zone, tz) /\ Changing(zone.utc)
      BY <3>2, TextsAssumption, ChangesAssumption DEF StringInv, Changing
    <3> QED BY <3>1, <3>2 DEF StringInv, FooterZone
  <2>3. Inner(t)
    BY HoursAreInner
  <2> HIDE DEF tz
  <2>4. CASE Len(zone.utc) <= 1
    <3>1. FindsChange(t, FooterOffset(zone, t - 1), FooterOffset(zone, t),
                      FooterNext(zone, t - 1), FooterPrev(zone, t + 1), FooterNext(zone, t), FooterPrev(zone, t))
      BY <2>1, <2>2, <2>3, <2>4, StringAloneFinds
    <3> QED BY <3>1 DEF FindsChange, NothingEscapes
  <2>5. CASE ~(Len(zone.utc) <= 1)
    <3>1. HandsOver(zone, tz) /\ Changing(zone.utc)
      BY <2>2, <2>5
    <3>2. Len(zone.utc) > 1
      <4>1. zone.utc \in Seq([at : Epochs, offset : Offsets, dst_saving : Int])
        BY <3>1 DEF HandsOver, WellFormedUtc
      <4>2. Len(zone.utc) \in Nat
        BY <4>1
      <4> QED BY <2>5, <4>2
    <3>3. FindsChange(t, FooterOffset(zone, t - 1), FooterOffset(zone, t),
                      FooterNext(zone, t - 1), FooterPrev(zone, t + 1), FooterNext(zone, t), FooterPrev(zone, t))
      BY <2>1, <2>3, <3>1, <3>2, TableFinds
    <3> QED BY <3>3 DEF FindsChange, NothingEscapes
  <2> QED BY <2>4, <2>5
<1> QED BY <1>1, StringInvariance, PTL

-----------------------------------------------------------------------------
(***************************************************************************)
(* What a rule means: the reference counts the days of a month, the code   *)
(* computes the day.                                                       *)
(***************************************************************************)

\* Days a week apart are as many as their numbers.
LEMMA WeeksApart ==
    ASSUME NEW a \in Int, NEW n \in Nat, NEW S, S = {a + 7 * (i - 1) : i \in 1 .. n}
    PROVE  Cardinality(S) = n
<1> DEFINE f == [i \in 1 .. n |-> a + 7 * (i - 1)]
<1>1. f \in [1 .. n -> S]
  BY SMT
<1>2. \A i, j \in 1 .. n : f[i] = f[j] => i = j
  BY SMT
<1>3. \A k \in S : \E i \in 1 .. n : f[i] = k
  BY SMT
<1> HIDE DEF f
<1>4. f \in Bijection(1 .. n, S)
  BY <1>1, <1>2, <1>3 DEF Bijection, Injection, Surjection, IsInjective
<1>5. ExistsBijection(1 .. n, S)
  BY <1>4 DEF ExistsBijection
<1> QED BY <1>5, FS_CountingElements

\* The weekday of a text (Sunday is 0) is that of the rule (Sunday is 7).
LEMMA SundayIsSeven ==
    ASSUME NEW w \in 0 .. 6, NEW dow, dow = IF w = 0 THEN 7 ELSE w, NEW k \in Int
    PROVE  dow \in Weekdays /\ (day_of_week(k) % 7 = w <=> day_of_week(k) = dow)
<1> DEFINE x == day_of_week(k)
<1>1. x \in 1 .. 7
  BY WeekdayStep
<1> HIDE DEF x
<1>2. x % 7 = IF x = 7 THEN 0 ELSE x
  BY <1>1, SMT
<1>3. dow \in Weekdays
  BY SMT DEF Weekdays
<1>4. x % 7 = w <=> x = dow
  BY <1>1, <1>2, SMT
<1> QED BY <1>3, <1>4 DEF x

\* How many of the days there are up to the day d.
Rank(days, d) == Cardinality({e \in days : e <= d})

\* The days of the name dow in a month of x days that begins with the number
\* first, and the first of them.
NamedInMonth(days, first, x, dow, a) ==
    /\ first \in Int /\ x \in 28 .. 31 /\ a \in 1 .. 7 /\ day_of_week(first + a - 1) = dow
    /\ \A d : d \in days <=> d \in 1 .. x /\ day_of_week(first + d - 1) = dow

\* Days of one name in a month of x days that begins on the day first: they are
\* whole weeks apart from the first of them, and the nth is the one of rank n.
LEMMA RankOfDays ==
    ASSUME NEW first, NEW x, NEW dow, NEW a, NEW days, NamedInMonth(days, first, x, dow, a)
    PROVE  /\ \A d \in days : \E j \in Nat : d = a + 7 * j /\ Rank(days, d) = j + 1
           /\ \A j \in Nat : a + 7 * j <= x => a + 7 * j \in days
<1>0. /\ first \in Int /\ x \in 28 .. 31 /\ a \in 1 .. 7 /\ day_of_week(first + a - 1) = dow
      /\ \A d : d \in days <=> d \in 1 .. x /\ day_of_week(first + d - 1) = dow
  BY DEF NamedInMonth
<1>1. ASSUME NEW j \in Nat, a + 7 * j <= x PROVE a + 7 * j \in days
  <2> DEFINE d == a + 7 * j
             u == first + a - 1
             k == first + d - 1
  <2>1. d \in 1 .. x /\ u \in Int /\ k \in Int /\ k = u + 7 * j /\ j \in Int
    BY <1>0, <1>1, SMT
  <2>2. day_of_week(u) = dow
    BY <1>0
  <2> HIDE DEF u
  <2>3. day_of_week(k) = dow
    BY <2>1, <2>2, SameWeekday
  <2> QED BY <1>0, <2>1, <2>3
<1>2. ASSUME NEW d \in days
      PROVE  \E j \in Nat : d = a + 7 * j
  <2> DEFINE u == first + a - 1
             k == first + d - 1
  <2>1. d \in 1 .. x /\ u \in Int /\ k \in Int /\ day_of_week(k) = dow /\ day_of_week(u) = dow
    BY <1>0, SMT
  <2>2. \E j \in Int : k = u + 7 * j
    <3> HIDE DEF u, k
    <3> QED BY <2>1, SameWeekday
  <2>3. PICK j \in Int : k = u + 7 * j
    BY <2>2
  <2>4. d = a + 7 * j /\ j \in Nat
    BY <1>0, <2>1, <2>3, SMT
  <2> QED BY <2>4
<1>3. days \subseteq 1 .. x
  BY <1>0
<1>4. ASSUME NEW d \in days, NEW j \in Nat, d = a + 7 * j
      PROVE  Rank(days, d) = j + 1
  <2> DEFINE S == {e \in days : e <= d}
             T == {a + 7 * (i - 1) : i \in 1 .. (j + 1)}
  <2>1. d <= x /\ d \in Int
    BY <1>0, <1>3, SMT
  <2>2. ASSUME NEW e \in S PROVE e \in T
    <3>1. e \in days /\ e <= d /\ e \in Int
      BY <1>0, <1>3, SMT
    <3>2. PICK i \in Nat : e = a + 7 * i
      BY <1>2, <3>1
    <3>3. i + 1 \in 1 .. (j + 1) /\ e = a + 7 * ((i + 1) - 1)
      BY <1>0, <1>4, <3>1, <3>2, SMT
    <3> QED BY <3>3
  <2>3. ASSUME NEW e \in T PROVE e \in S
    <3>1. PICK i \in 1 .. (j + 1) : e = a + 7 * (i - 1)
      BY <2>3
    <3>2. i - 1 \in Nat /\ a + 7 * (i - 1) <= d /\ a + 7 * (i - 1) <= x
      BY <1>0, <1>4, <2>1, SMT
    <3>3. a + 7 * (i - 1) \in days
      BY <1>1, <3>2
    <3> QED BY <3>1, <3>2, <3>3
  <2>4. S = T
    <3> HIDE DEF S, T
    <3> QED BY <2>2, <2>3
  <2>5. Cardinality(T) = j + 1
    <3> DEFINE m == j + 1
    <3>1. m \in Nat /\ a \in Int /\ T = {a + 7 * (i - 1) : i \in 1 .. m}
      BY <1>0, SMT
    <3> HIDE DEF m, T
    <3>2. Cardinality(T) = m
      BY <3>1, WeeksApart
    <3> QED BY <3>2 DEF m
  <2> QED BY <2>4, <2>5 DEF Rank
<1>5. ASSUME NEW d \in days
      PROVE  \E j \in Nat : d = a + 7 * j /\ Rank(days, d) = j + 1
  <2>1. PICK j \in Nat : d = a + 7 * j
    BY <1>2
  <2> QED BY <1>4, <2>1
<1> QED BY <1>1, <1>5

\* The numbers of the days of a month follow that of its first.
LEMMA DaysOfMonth ==
    ASSUME NEW y \in Years, NEW m \in Months
    PROVE  /\ unix_days(Date(y, m, 1)) \in Int /\ days_in_month(y, m) \in 28 .. 31
           /\ \A i \in Int : unix_days(Date(y, m, i)) = unix_days(Date(y, m, 1)) + i - 1
<1> DEFINE v == days_before(y)
           b == days_before_month(y, m)
<1>1. y \in Int
  BY YearsRange
<1>2. days_in_month(y, m) \in 28 .. 31 /\ b \in Int
  <2>1. days_in_month(y, m) \in 28 .. 31 /\ b \in 0 .. 335
    BY <1>1, MonthLength
  <2> HIDE DEF b
  <2>2. b \in Int
    BY <2>1, SMT
  <2> QED BY <2>1, <2>2
<1>3. v \in Int
  BY <1>1, SMT DEF days_before
<1>4. \A i : unix_days(Date(y, m, i)) = v + b + i + (-719162) - 1
  BY UnixDaysOf, SMT DEF UnixDaysMin
<1> HIDE DEF v, b
<1>5. unix_days(Date(y, m, 1)) = v + b + 1 + (-719162) - 1
  BY <1>4
<1>6. unix_days(Date(y, m, 1)) \in Int
  BY <1>2, <1>3, <1>5, SMT
<1>7. ASSUME NEW i \in Int PROVE unix_days(Date(y, m, i)) = unix_days(Date(y, m, 1)) + i - 1
  <2>1. unix_days(Date(y, m, i)) = v + b + i + (-719162) - 1
    BY <1>4
  <2> QED BY <1>2, <1>3, <1>5, <2>1, SMT
<1> QED BY <1>2, <1>6, <1>7

\* The days of a month that the text of a weekday rule is about.
RuleDays(rule, y) ==
    {d \in 1 .. days_in_month(y, rule.nums[1]) :
        day_of_week(unix_days(Date(y, rule.nums[1], d))) % 7 = rule.nums[3]}

\* What TextDay says of a weekday rule
LEMMA WeekdayText ==
    ASSUME NEW rule, rule.kind = "M", NEW y, NEW k \in RuleDays(rule, y),
           \A d \in RuleDays(rule, y) :
                (IF rule.nums[2] = 5 THEN \A e \in RuleDays(rule, y) : e <= d
                 ELSE Cardinality({e \in RuleDays(rule, y) : e <= d}) = rule.nums[2]) <=> d = k
    PROVE  TextDay(rule, y) = unix_days(Date(y, rule.nums[1], k))
<1> DEFINE P(d) == IF rule.nums[2] = 5 THEN \A e \in RuleDays(rule, y) : e <= d
                   ELSE Cardinality({e \in RuleDays(rule, y) : e <= d}) = rule.nums[2]
           c == CHOOSE d \in RuleDays(rule, y) : P(d)
<1>1. TextDay(rule, y) = unix_days(Date(y, rule.nums[1], c))
  BY DEF TextDay, RuleDays
<1>2. \A d \in RuleDays(rule, y) : P(d) <=> d = k
  OBVIOUS
<1> HIDE DEF P
<1>3. c = k
  BY <1>2
<1> QED BY <1>1, <1>3

\* A weekday rule is for the day that its text describes, in every year:
\* Date::nth_weekday_in_month against the count of the days of that name.
LEMMA WeekdayRuleReads ==
    ASSUME NEW rule, rule.kind = "M", parse_weekday_rule(rule.nums) # <<>>, NEW y \in Years
    PROVE  TextDay(rule, y) = DayOfRule(parse_weekday_rule(rule.nums)[1], y) /\ TextDay(rule, y) \in Int
<1> DEFINE m == rule.nums[1]
           w == rule.nums[2]
           dow == IF rule.nums[3] = 0 THEN 7 ELSE rule.nums[3]
           first == unix_days(Date(y, m, 1))
           x == days_in_month(y, m)
           last == unix_days(Date(y, m, x))
           g == (dow - day_of_week(first)) % 7
           h == (day_of_week(last) - dow) % 7
           days == RuleDays(rule, y)
           a == 1 + g
           z == x - h
           k == IF w = 5 THEN z ELSE a + 7 * (w - 1)
           r == parse_weekday_rule(rule.nums)[1]
<1>1. /\ m \in Months /\ w \in 1 .. 5 /\ rule.nums[3] \in 0 .. 6
      /\ r = IF w = 5 THEN LastWeekday(dow, m) ELSE NthWeekday(w, dow, m)
  BY DEF parse_weekday_rule
<1>2. first \in Int /\ x \in 28 .. 31 /\ (\A i \in Int : unix_days(Date(y, m, i)) = first + i - 1)
  BY <1>1, DaysOfMonth
<1>3. last = first + x - 1 /\ last \in Int
  <2>1. x \in 28 .. 31 /\ first \in Int
    BY <1>2
  <2> HIDE DEF x, first
  <2>2. x \in Int /\ first + x - 1 \in Int
    BY <2>1, SMT
  <2> QED BY <1>2, <2>2 DEF first
<1>4. dow \in Weekdays /\ \A i \in Int : day_of_week(i) % 7 = rule.nums[3] <=> day_of_week(i) = dow
  BY <1>1, SundayIsSeven
<1>5. g \in 0 .. 6 /\ day_of_week(first + g) = dow /\ h \in 0 .. 6 /\ day_of_week(last - h) = dow
  BY <1>2, <1>3, <1>4, DistanceToWeekday
<1>6. DayOfRule(r, y) = unix_days(NewDate(y, m, k))
  <2>1. CASE w = 5
    <3>1. r.kind = "last" /\ r.w = dow /\ r.m = m
      BY <1>1, <2>1 DEF LastWeekday
    <3>2. DayOfRule(r, y) = unix_days(nth_weekday_in_month(y, m, -1, dow))
      BY <3>1 DEF DayOfRule
    <3>3. nth_weekday_in_month(y, m, -1, dow) = NewDate(y, m, (x - h) + ((-1) + 1) * 7)
      BY SMT DEF nth_weekday_in_month
    <3>4. (x - h) + ((-1) + 1) * 7 = k
      <4> HIDE DEF x, h
      <4> QED BY <1>2, <1>5, <2>1, SMT
    <3> QED BY <3>2, <3>3, <3>4
  <2>2. CASE w # 5
    <3>1. r.kind = "nth" /\ r.n = w /\ r.w = dow /\ r.m = m
      BY <1>1, <2>2 DEF NthWeekday
    <3>2. DayOfRule(r, y) = unix_days(nth_weekday_in_month(y, m, w, dow))
      BY <3>1 DEF DayOfRule
    <3>3. w > 0
      BY <1>1
    <3>4. nth_weekday_in_month(y, m, w, dow) = NewDate(y, m, (1 + g) + (w - 1) * 7)
      BY <3>3 DEF nth_weekday_in_month
    <3>5. (1 + g) + (w - 1) * 7 = k
      <4> HIDE DEF g, w
      <4> QED BY <1>1, <1>5, <2>2, SMT
    <3> QED BY <3>2, <3>4, <3>5
  <2> QED BY <2>1, <2>2
<1> HIDE DEF g, h, dow
<1>7. days = {d \in 1 .. x : day_of_week(first + d - 1) = dow}
  <2>1. ASSUME NEW d \in 1 .. x
        PROVE  day_of_week(unix_days(Date(y, m, d))) % 7 = rule.nums[3] <=> day_of_week(first + d - 1) = dow
    <3>1. d \in Int /\ first + d - 1 \in Int
      BY <1>2, SMT
    <3> QED BY <1>2, <1>4, <3>1
  <2> QED BY <2>1 DEF RuleDays
<1> SUFFICES TextDay(rule, y) = DayOfRule(r, y) /\ TextDay(rule, y) \in Int
  OBVIOUS
<1> HIDE DEF r, last, first, days
<1>15. x \in Int /\ 28 <= x /\ x <= 31 /\ h \in Int /\ 0 <= h /\ h <= 6 /\ first \in Int /\ last = first + x - 1
  <2> HIDE DEF x
  <2>0. x \in 28 .. 31
    BY <1>2
  <2>1. x \in Int /\ 28 <= x /\ x <= 31
    BY <2>0, SMT
  <2>2. h \in Int /\ 0 <= h /\ h <= 6
    BY <1>5, SMT
  <2> QED BY <1>2, <1>3, <2>1, <2>2
<1>8. a \in 1 .. 7 /\ day_of_week(first + a - 1) = dow
  <2>1. a \in 1 .. 7 /\ first + a - 1 = first + g
    BY <1>2, <1>5, SMT
  <2> QED BY <1>5, <2>1
<1> HIDE DEF a, x, m, w
<1>9. /\ \A d \in days : \E j \in Nat : d = a + 7 * j /\ Rank(days, d) = j + 1
      /\ \A j \in Nat : a + 7 * j <= x => a + 7 * j \in days
  <2>1. x \in 28 .. 31 /\ first \in Int
    BY <1>2
  <2>2. \A d : d \in days <=> d \in 1 .. x /\ day_of_week(first + d - 1) = dow
    BY <1>7
  <2>3. NamedInMonth(days, first, x, dow, a)
    BY <1>8, <2>1, <2>2 DEF NamedInMonth
  <2> QED BY <2>3, RankOfDays
<1>10. /\ k \in days
       /\ \A d \in days : (IF w = 5 THEN \A e \in days : e <= d
                           ELSE Rank(days, d) = w) <=> d = k
  <2>1. CASE w = 5
    <3>1. z \in 1 .. x /\ z \in Int /\ first + z - 1 = last - h
      BY <1>15, SMT
    <3>2. z \in days
      BY <1>5, <1>7, <3>1
    <3>3. ASSUME NEW e \in days PROVE e <= z /\ e \in Int
      <4>1. e \in 1 .. x
        BY <1>7
      <4>2. PICK j \in Nat : e = a + 7 * j
        BY <1>9
      <4>3. PICK i \in Nat : z = a + 7 * i
        BY <1>9, <3>2
      <4>4. x - 6 <= z
        BY <1>15, SMT
      <4> HIDE DEF z
      <4> QED BY <1>2, <1>8, <3>1, <4>1, <4>2, <4>3, <4>4, SMT
    <3> HIDE DEF z
    <3>4. \A d \in days : (\A e \in days : e <= d) <=> d = z
      <4> SUFFICES ASSUME NEW d \in days PROVE (\A e \in days : e <= d) <=> d = z
        OBVIOUS
      <4>1. ASSUME \A e \in days : e <= d PROVE d = z
        <5>1. z <= d /\ d <= z /\ d \in Int /\ z \in Int
          BY <3>1, <3>2, <3>3, <4>1
        <5> QED BY <5>1, SMT
      <4> QED BY <3>3, <4>1
    <3> QED BY <2>1, <3>2, <3>4
  <2>2. CASE w # 5
    <3> DEFINE i == w - 1
    <3>1. i \in 0 .. 3 /\ i \in Nat /\ k = a + 7 * i /\ w = i + 1 /\ a + 7 * i <= x
      BY <1>1, <1>15, <1>8, <2>2, SMT
    <3>2. k \in days
      BY <1>9, <3>1
    <3> HIDE DEF i, k
    <3>3. \A d \in days : Rank(days, d) = w <=> d = k
      <4> SUFFICES ASSUME NEW d \in days PROVE Rank(days, d) = w <=> d = k
        OBVIOUS
      <4>1. PICK j \in Nat : d = a + 7 * j /\ Rank(days, d) = j + 1
        BY <1>9
      <4> DEFINE n == Rank(days, d)
      <4>2. n = j + 1
        BY <4>1
      <4> HIDE DEF n
      <4>3. n = w <=> d = k
        BY <1>8, <3>1, <4>1, <4>2, SMT
      <4> QED BY <4>3 DEF n
    <3> QED BY <2>2, <3>2, <3>3
  <2> QED BY <2>1, <2>2
<1>11. TextDay(rule, y) = unix_days(Date(y, m, k))
  <2> HIDE DEF k
  <2>1. k \in RuleDays(rule, y)
    BY <1>10 DEF days
  <2>2. \A d \in RuleDays(rule, y) :
            (IF rule.nums[2] = 5 THEN \A e \in RuleDays(rule, y) : e <= d
             ELSE Cardinality({e \in RuleDays(rule, y) : e <= d}) = rule.nums[2]) <=> d = k
    BY <1>10 DEF days, w, Rank
  <2>3. TextDay(rule, y) = unix_days(Date(y, rule.nums[1], k))
    BY <2>1, <2>2, WeekdayText
  <2> QED BY <2>3 DEF m
<1> HIDE DEF k
<1>12. k \in 1 .. x /\ k \in Int
  <2>1. k \in 1 .. x
    BY <1>7, <1>10
  <2> QED BY <1>2, <2>1, SMT
<1>13. NewDate(y, m, k) = Date(y, m, k)
  <2>1. k \in 1 .. days_in_month(y, m)
    BY <1>12 DEF x
  <2> QED BY <1>1, <2>1 DEF NewDate
<1>14. unix_days(Date(y, m, k)) \in Int
  <2>1. unix_days(Date(y, m, k)) = first + k - 1
    BY <1>2, <1>12
  <2> QED BY <1>2, <1>12, <2>1, SMT
<1> QED BY <1>6, <1>11, <1>13, <1>14

\* Every day of a common year has a month.
LEMMA MonthOfCommonDay ==
    ASSUME NEW n \in 1 .. 365
    PROVE  \E k \in Months : n \in DaysBeforeMonth[k] + 1 .. DaysBeforeMonth[k] + MaxMonthDays[k]
<1> DEFINE In(k) == n \in DaysBeforeMonth[k] + 1 .. DaysBeforeMonth[k] + MaxMonthDays[k]
<1>1. \/ In(1) \/ In(2) \/ In(3) \/ In(4) \/ In(5) \/ In(6)
      \/ In(7) \/ In(8) \/ In(9) \/ In(10) \/ In(11) \/ In(12)
  BY SMT DEF DaysBeforeMonth, MaxMonthDays
<1>2. {1, 2, 3, 4, 5, 6, 7, 8, 9, 10, 11, 12} \subseteq Months
  BY SMT DEF Months
<1> HIDE DEF In
<1>3. \E k \in Months : In(k)
  BY <1>1, <1>2
<1> QED BY <1>3 DEF In

\* A Julian rule is for the date that its number has in a common year: the code
\* counts 29 February by comparing the number to 59.
LEMMA JulianRuleReads ==
    ASSUME NEW rule, rule.kind = "J", rule.nums[1] \in 1 .. 365, NEW y \in Years
    PROVE  TextDay(rule, y) = DayOfRule(JulianDayOfYear(rule.nums[1]), y) /\ TextDay(rule, y) \in Int
<1> DEFINE n == rule.nums[1]
           m == CHOOSE k \in Months : n \in DaysBeforeMonth[k] + 1 .. DaysBeforeMonth[k] + MaxMonthDays[k]
           b == DaysBeforeMonth[m]
           x == MaxMonthDays[m]
           v == days_before(y)
           leap == is_leap(y)
<1>1. m \in Months /\ n \in b + 1 .. b + x
  BY MonthOfCommonDay
<1>2. TextDay(rule, y) = unix_days(Date(y, m, n - b))
  <2>1. CommonDate(n) = <<m, n - b>>
    BY DEF CommonDate
  <2> QED BY <2>1 DEF TextDay
<1> HIDE DEF m
<1>3. /\ x \in 28 .. 31 /\ b \in 0 .. 334 /\ (m > 2 => b >= 59) /\ (m <= 2 => b + x <= 59)
  <2>1. x \in 28 .. 31 /\ b \in 0 .. 334 /\ (m > 2 => b >= 59)
    BY <1>1, Tables
  <2>2. m <= 2 => b + x <= 59
    BY <1>1, SMT DEF Months, DaysBeforeMonth, MaxMonthDays
  <2> QED BY <2>1, <2>2
<1>4. y \in Int /\ m \in Int
  BY <1>1, YearsRange, SMT DEF Months
<1>5. v \in Int /\ leap \in BOOLEAN
  BY <1>4, SMT DEF days_before, is_leap
<1>6. TextDay(rule, y) = v + (b + Truth(m > 2 /\ leap)) + (n - b) + (-719162) - 1
  <2>1. days_before_month(y, m) = b + Truth(m > 2 /\ leap)
    BY DEF days_before_month
  <2>2. UnixDaysMin = -719162
    BY SMT DEF UnixDaysMin
  <2>3. unix_days(Date(y, m, n - b)) = v + days_before_month(y, m) + (n - b) + UnixDaysMin - 1
    BY UnixDaysOf
  <2> QED BY <1>2, <2>1, <2>2, <2>3
<1>7. DayOfRule(JulianDayOfYear(n), y) = (v + (-719162)) + n - 1 + Truth(leap /\ n > 59)
  <2>1. JulianDayOfYear(n).kind = "julian" /\ JulianDayOfYear(n).d = n
    BY DEF JulianDayOfYear
  <2>2. unix_days_at_jan1(y) = v + (-719162)
    BY SMT DEF unix_days_at_jan1, UnixDaysMin
  <2> QED BY <2>1, <2>2 DEF DayOfRule
<1> HIDE DEF v, leap, b, x, n
<1>8. n \in Int /\ b \in Int /\ x \in Int /\ (m > 2 <=> n > 59)
  BY <1>1, <1>3, <1>4, SMT
<1>9. Truth(m > 2 /\ leap) = Truth(leap /\ n > 59) /\ Truth(leap /\ n > 59) \in 0 .. 1
  BY <1>8, SMT DEF Truth
<1> DEFINE c == Truth(leap /\ n > 59)
<1> HIDE DEF c
<1>10. TextDay(rule, y) = v + (b + c) + (n - b) + (-719162) - 1 /\ c \in 0 .. 1
  BY <1>6, <1>9 DEF c
<1>11. DayOfRule(JulianDayOfYear(n), y) = (v + (-719162)) + n - 1 + c
  BY <1>7 DEF c
<1> QED BY <1>5, <1>8, <1>10, <1>11, SMT DEF n

\* A rule by the number of its day counts from 1 January.
LEMMA NumberRuleReads ==
    ASSUME NEW rule, rule.kind = "n", rule.nums[1] \in 0 .. 364, NEW y \in Years
    PROVE  TextDay(rule, y) = DayOfRule(DayOfYear(rule.nums[1] + 1), y) /\ TextDay(rule, y) \in Int
<1> DEFINE n == rule.nums[1]
           v == days_before(y)
           len == DaysInYear(y)
<1>1. y \in Int
  BY YearsRange
<1>2. v \in Int /\ len \in 365 .. 366
  BY <1>1, SMT DEF days_before, DaysInYear
<1>3. TextDay(rule, y) = v + 0 + 1 + (-719162) - 1 + n
  <2>1. days_before_month(y, 1) = 0
    <3>1. 1 \in Months
      BY SMT DEF Months
    <3> QED BY <1>1, <3>1, MonthLength
  <2>2. UnixDaysMin = -719162
    BY SMT DEF UnixDaysMin
  <2>3. unix_days(Date(y, 1, 1)) = v + 0 + 1 + (-719162) - 1
    BY <2>1, <2>2, UnixDaysOf
  <2> QED BY <2>3 DEF TextDay
<1>4. DayOfRule(DayOfYear(n + 1), y) = (v + (-719162)) + Smaller(n + 1, len) - 1
  <2>1. DayOfYear(n + 1).kind = "day" /\ DayOfYear(n + 1).d = n + 1
    BY DEF DayOfYear
  <2>2. unix_days_at_jan1(y) = v + (-719162)
    BY SMT DEF unix_days_at_jan1, UnixDaysMin
  <2> QED BY <2>1, <2>2 DEF DayOfRule
<1>5. n \in 0 .. 364
  OBVIOUS
<1> HIDE DEF v, len, n
<1>6. Smaller(n + 1, len) = n + 1
  BY <1>2, <1>5, SMT DEF Smaller
<1> QED BY <1>2, <1>3, <1>4, <1>5, <1>6, SMTT(40) DEF n

\* A rule that parse reads is for the hour that its text describes, in every year.
LEMMA RuleReads ==
    ASSUME NEW rule, ReadsPlainly(rule), parse_rule(rule) # <<>>, NEW y \in Years
    PROVE  LET r == parse_rule(rule)[1] IN
           /\ TextHour(rule, y) = DayOfRule(r.rule, y) * HoursPerDay + r.time
           /\ TextHour(rule, y) \in Int
<1> DEFINE n == rule.nums[1]
           q == CASE rule.kind = "M" -> parse_weekday_rule(rule.nums)
                  [] rule.kind = "J" -> IF n \in 1 .. 365 THEN <<JulianDayOfYear(n)>> ELSE <<>>
                  [] rule.kind = "n" -> IF n \in 0 .. 365 THEN <<DayOfYear(n + 1)>> ELSE <<>>
           time == IF rule.time = <<>> THEN <<>> ELSE parse_hms(rule.time[1], RuleTimeMax)
           r == parse_rule(rule)[1]
           hour == IF rule.time = <<>> THEN 2 ELSE rule.time[1]
<1>1. parse_rule(rule) = IF q = <<>> THEN <<>>
                         ELSE <<[rule |-> q[1], time |-> IF time = <<>> THEN DEFAULT_RULE_TIME ELSE time[1]]>>
  BY DEF parse_rule
<1>2. HoursPerDay \in Nat \ {0}
  BY HoursAssumption
<1>3. RuleTimeMax \in Int
  BY <1>2 DEF RuleTimeMax
<1>4. (IF time = <<>> THEN DEFAULT_RULE_TIME ELSE time[1]) = hour /\ hour \in Int
  <2>1. CASE rule.time = <<>>
    BY <2>1 DEF DEFAULT_RULE_TIME
  <2>2. CASE rule.time # <<>>
    <3>1. rule.time[1] \in -RuleTimeMax .. RuleTimeMax
      BY <2>2 DEF ReadsPlainly
    <3>2. rule.time[1] \in Int /\ Abs(rule.time[1]) <= RuleTimeMax
      BY <1>3, <3>1 DEF Abs
    <3>3. time = <<rule.time[1]>>
      BY <2>2, <3>2, SMTT(40) DEF parse_hms
    <3> HIDE DEF time
    <3> QED BY <2>2, <3>2, <3>3
  <2> QED BY <2>1, <2>2
<1>5. TextDay(rule, y) = DayOfRule(q[1], y) /\ TextDay(rule, y) \in Int /\ q # <<>>
  <2>0. q # <<>>
    BY <1>1
  <2>1. CASE rule.kind = "M"
    <3>1. q = parse_weekday_rule(rule.nums)
      BY <2>1
    <3> HIDE DEF q
    <3> QED BY <2>0, <2>1, <3>1, WeekdayRuleReads
  <2>2. CASE rule.kind = "J"
    <3>1. q = IF n \in 1 .. 365 THEN <<JulianDayOfYear(n)>> ELSE <<>>
      BY <2>2
    <3> HIDE DEF q
    <3>2. n \in 1 .. 365 /\ q[1] = JulianDayOfYear(n)
      BY <2>0, <3>1, SMTT(40)
    <3> QED BY <2>0, <2>2, <3>2, JulianRuleReads
  <2>3. CASE rule.kind = "n"
    <3>1. q = (IF n \in 0 .. 365 THEN <<DayOfYear(n + 1)>> ELSE <<>>) /\ n \in 0 .. 364
      BY <2>3 DEF ReadsPlainly
    <3> HIDE DEF q
    <3>2. q[1] = DayOfYear(n + 1)
      BY <2>0, <3>1
    <3> QED BY <2>0, <2>3, <3>1, <3>2, NumberRuleReads
  <2> QED BY <2>1, <2>2, <2>3, ZenonT(40) DEF ReadsPlainly
<1> HIDE DEF q, time
<1>6. r.rule = q[1] /\ r.time = hour
  BY <1>1, <1>4, <1>5
<1>7. TextHour(rule, y) = TextDay(rule, y) * HoursPerDay + hour
  BY DEF TextHour
<1> HIDE DEF hour
<1>8. TextHour(rule, y) \in Int
  <2> DEFINE d == TextDay(rule, y)
  <2>1. d \in Int
    BY <1>5
  <2> HIDE DEF d
  <2>2. d * HoursPerDay \in Int
    BY <1>2, <2>1, SMT
  <2>3. d * HoursPerDay + hour \in Int
    BY <1>4, <2>2
  <2> QED BY <1>7, <2>3 DEF d
<1> QED BY <1>5, <1>6, <1>7, <1>8

\* The transitions of a year are at the hours that the text describes.
LEMMA RulesRead ==
    ASSUME NEW t \in Texts, t.rules # <<>>, NEW y \in Years
    PROVE  /\ DstStart(parse(t), y) = TextHour(t.rules[1], y)
           /\ DstEnd(parse(t), y) = TextHour(t.rules[2], y)
<1> DEFINE tz == parse(t)
           a == NewYear(y)
           b == NewYear(y + 1)
<1>1. /\ parse_rule(t.rules[1]) # <<>> /\ parse_rule(t.rules[2]) # <<>> /\ tz.dst # <<>>
      /\ tz.dst[1].start = parse_rule(t.rules[1])[1] /\ tz.dst[1].end = parse_rule(t.rules[2])[1]
  BY ParsedText
<1>2. WithDst(tz)
  BY <1>1, ParsedOffsets DEF SettledTz
<1>3. /\ HoursPerDay \in Nat \ {0} /\ Margin = 4 * HoursPerDay
      /\ a + Margin <= DstStart(tz, y) /\ DstStart(tz, y) <= b - Margin
      /\ a + Margin <= DstEnd(tz, y) /\ DstEnd(tz, y) <= b - Margin
  BY <1>2, SettledYear
<1>4. a \in Int /\ b \in Int /\ EpochMin <= a /\ b <= EpochMax + 1 /\ EpochMin \in Int /\ EpochMax \in Int
  BY YearHours, RangeAssumption
<1>5. ASSUME NEW rule, ReadsPlainly(rule), parse_rule(rule) # <<>>,
             NEW x, x = for_year(parse_rule(rule)[1], y), a + Margin <= x, x <= b - Margin
      PROVE  x = TextHour(rule, y)
  <2> DEFINE k == TextHour(rule, y)
             r == parse_rule(rule)[1]
  <2>1. k = DayOfRule(r.rule, y) * HoursPerDay + r.time /\ k \in Int
    BY <1>5, RuleReads
  <2>2. x = clamp(k)
    BY <1>5, <2>1 DEF for_year
  <2> HIDE DEF k, a, b
  <2>3. clamp(k) = k
    BY <1>3, <1>4, <1>5, <2>1, <2>2 DEF clamp, Larger, Smaller
  <2> QED BY <2>2, <2>3 DEF k
<1>6. ReadsPlainly(t.rules[1]) /\ ReadsPlainly(t.rules[2])
  BY RulesAssumption
<1>7. DstStart(tz, y) = for_year(tz.dst[1].start, y) /\ DstEnd(tz, y) = for_year(tz.dst[1].end, y)
  BY DEF DstStart, DstEnd
<1> QED BY <1>1, <1>3, <1>5, <1>6, <1>7

\* At every instant of a year the rules of that year hold, also at both ends of
\* time, where the local time is out of range.
LEMMA RulesOfYear ==
    ASSUME NEW tz, WithDst(tz), NEW y \in Years, NEW t \in Epochs, NewYear(y) <= t, t < NewYear(y + 1)
    PROVE  is_dst_at(tz, t) <=> DstIn(tz, y, t)
<1> DEFINE o == tz.std
           h == HoursPerDay
           x == t + o
           c == clamp(x)
           z == YearOf(c)
<1>1. o \in Int /\ h \in Nat \ {0} /\ Margin = 4 * h /\ -h < o /\ o < h
  BY SettledYear
<1>2. t \in Int /\ EpochMin <= t /\ t <= EpochMax /\ EpochMin \in Int /\ EpochMax \in Int
  BY RangeAssumption DEF Epochs
<1>3. y \in Int /\ NewYear(y) \in Int /\ NewYear(y + 1) \in Int
  BY YearsRange, YearHours
<1>4. CASE x \in Epochs
  <2>1. NewYear(y) - 2 * h <= x /\ x < NewYear(y + 1) + 2 * h
    <3> HIDE DEF o, h
    <3> QED BY <1>1, <1>2, <1>3
  <2> QED BY <1>2, <1>4, <2>1, RulesOfNearYear
<1>5. CASE x \notin Epochs
  <2>1. c \in Epochs /\ c \in Int /\ c \in {EpochMin, EpochMax} /\ -h < c - t /\ c - t < h
    <3> HIDE DEF o, h
    <3> QED BY <1>1, <1>2, <1>5 DEF clamp, Larger, Smaller, Epochs
  <2> HIDE DEF c
  <2>2. z \in Years /\ NewYear(z) <= c /\ c < NewYear(z + 1)
    BY <2>1, YearOfHour
  <2>3. /\ z \in Int /\ NewYear(z) \in Int /\ NewYear(z + 1) \in Int
        /\ y < z => NewYear(y + 1) <= NewYear(z)
        /\ z < y => NewYear(z + 1) <= NewYear(y)
    BY <2>2, YearsRange, YearHours
  <2>4. NewYear(z) + 8 * h <= NewYear(z + 1) /\ EpochMin <= NewYear(z) /\ NewYear(z + 1) <= EpochMax + 1
    <3>1. NewYear(z) + Margin <= DstStart(tz, z) /\ DstStart(tz, z) <= NewYear(z + 1) - Margin /\ DstStart(tz, z) \in Int
      BY <2>2, SettledYear
    <3>2. NewYear(z) + 8 * h <= NewYear(z + 1)
      <4> HIDE DEF h, z
      <4> QED BY <1>1, <2>3, <3>1
    <3> QED BY <2>2, <3>2, YearHours
  <2> HIDE DEF h, z
  <2>5. z = y
    BY <1>1, <1>2, <1>3, <2>1, <2>2, <2>3, <2>4
  <2>6. is_dst_at(tz, t) <=> InForce(utc_transitions_for_year(tz, z), t)
    BY DEF is_dst_at, StdYear, WithDst, z, c
  <2> QED BY <1>2, <2>5, <2>6, TransitionsOfYear
<1> QED BY <1>4, <1>5

\* The instants at which the rules of a year begin and end DST.
StartsAt(tz, y) == DstStart(tz, y) - tz.std
EndsAt(tz, y) == DstEnd(tz, y) - tz.dst[1].offset

\* They lie in their year, in the order that every year has.
LEMMA InstantsOfYear ==
    ASSUME NEW tz, WithDst(tz), NEW y \in Years
    PROVE  /\ StartsAt(tz, y) \in Int /\ EndsAt(tz, y) \in Int
           /\ NewYear(y) < StartsAt(tz, y) /\ StartsAt(tz, y) < NewYear(y + 1)
           /\ NewYear(y) < EndsAt(tz, y) /\ EndsAt(tz, y) < NewYear(y + 1)
           /\ South(tz, y) => EndsAt(tz, y) < StartsAt(tz, y)
           /\ ~South(tz, y) => StartsAt(tz, y) < EndsAt(tz, y)
           /\ \A z \in Years : South(tz, z) <=> South(tz, y)
<1> DEFINE s == DstStart(tz, y)
           e == DstEnd(tz, y)
           o == tz.std
           p == tz.dst[1].offset
           h == HoursPerDay
           a == NewYear(y)
           b == NewYear(y + 1)
           d == DstChange(tz)
<1>1. /\ o \in Int /\ p \in Int /\ h \in Nat \ {0} /\ d \in Nat /\ Margin = 4 * h
      /\ -h < o /\ o < h /\ -h < p /\ p < h
      /\ s \in Int /\ e \in Int
      /\ a + Margin <= s /\ s <= b - Margin /\ a + Margin <= e /\ e <= b - Margin
  BY SettledYear
<1>2. a \in Int /\ b \in Int
  BY YearHours
<1>3. d = Abs(p - o)
  BY DEF DstChange
<1>4. South(tz, y) <=> e + 2 * d < s
  BY DEF South
<1>5. s + 2 * d < e \/ e + 2 * d < s
  BY SettledOrder DEF North, South
<1>6. \A z \in Years : South(tz, z) <=> South(tz, y)
  <2>1. \A w \in Years : ~(North(tz, w) /\ South(tz, w))
    <3> TAKE w \in Years
    <3>1. DstStart(tz, w) \in Int /\ DstEnd(tz, w) \in Int /\ DstChange(tz) \in Nat
      BY SettledYear
    <3> QED BY <3>1 DEF North, South
  <2> QED BY <2>1, SettledOrder
<1> HIDE DEF s, e, o, p, h, a, b, d
<1>7. /\ s - o \in Int /\ e - p \in Int
      /\ a < s - o /\ s - o < b /\ a < e - p /\ e - p < b
  BY <1>1, <1>2
<1>8. /\ South(tz, y) => e - p < s - o
      /\ ~South(tz, y) => s - o < e - p
  BY <1>1, <1>3, <1>4, <1>5 DEF Abs
<1> QED BY <1>6, <1>7, <1>8 DEF StartsAt, EndsAt, s, e, o, p, a, b

\* The transitions of some years, with the offsets that they lead to.
RuleTransitions(tz, years) ==
    {[at |-> StartsAt(tz, y), offset |-> tz.dst[1].offset] : y \in years}
    \cup {[at |-> EndsAt(tz, y), offset |-> tz.std] : y \in years}

\* Those of the year y and its neighbours up to the instant t.
RulesUpTo(tz, y, t) == {tr \in RuleTransitions(tz, {y - 1, y, y + 1} \cap Years) : tr.at <= t}

\* DST is in force as the last transition has it, among those of the year and of
\* the years before and after.
LEMMA LastTransition ==
    ASSUME NEW tz, WithDst(tz), NEW y \in Years, NEW t \in Epochs, NewYear(y) <= t, t < NewYear(y + 1),
           NEW past, past = RulesUpTo(tz, y, t), past # {}
    PROVE  (CHOOSE tr \in past : \A u \in past : u.at <= tr.at).offset
                = IF DstIn(tz, y, t) THEN tz.dst[1].offset ELSE tz.std
<1> DEFINE W == {y - 1, y, y + 1} \cap Years
           S(w) == StartsAt(tz, w)
           E(w) == EndsAt(tz, w)
           o == tz.std
           p == tz.dst[1].offset
           start(w) == [at |-> S(w), offset |-> p]
           end(w) == [at |-> E(w), offset |-> o]
           goal == IF DstIn(tz, y, t) THEN p ELSE o
           last == CHOOSE tr \in past : \A u \in past : u.at <= tr.at
<1>1. t \in Int /\ y \in Int /\ NewYear(y) \in Int /\ NewYear(y + 1) \in Int /\ y \in W /\ W \subseteq Years
  BY RangeAssumption, YearsRange, YearHours DEF Epochs
<1>2. ASSUME NEW w \in W
      PROVE  /\ S(w) \in Int /\ E(w) \in Int /\ w \in Int /\ (w < y => w = y - 1)
             /\ South(tz, w) => E(w) < S(w)
             /\ ~South(tz, w) => S(w) < E(w)
             /\ South(tz, w) <=> South(tz, y)
             /\ w = y => NewYear(y) < S(w) /\ NewYear(y) < E(w)
             /\ w < y => S(w) < NewYear(y) /\ E(w) < NewYear(y)
             /\ y < w => t < S(w) /\ t < E(w)
  <2>1. w \in Years /\ w \in Int /\ (w < y => w = y - 1)
    <3>1. w \in Years /\ w \in {y - 1, y, y + 1}
      OBVIOUS
    <3>2. w \in Int
      BY <3>1, YearsRange
    <3> QED BY <1>1, <3>1, <3>2
  <2>2. /\ S(w) \in Int /\ E(w) \in Int
        /\ NewYear(w) < S(w) /\ S(w) < NewYear(w + 1)
        /\ NewYear(w) < E(w) /\ E(w) < NewYear(w + 1)
        /\ South(tz, w) => E(w) < S(w)
        /\ ~South(tz, w) => S(w) < E(w)
        /\ South(tz, y) <=> South(tz, w)
    BY <2>1, InstantsOfYear
  <2>3. /\ NewYear(w) \in Int /\ NewYear(w + 1) \in Int
        /\ w < y => NewYear(w + 1) <= NewYear(y)
        /\ y < w => NewYear(y + 1) <= NewYear(w)
    BY <2>1, YearHours
  <2> HIDE DEF S, E
  <2> QED BY <1>1, <2>1, <2>2, <2>3
<1>3. \A u : u \in past <=> \E w \in W : (u = start(w) /\ S(w) <= t) \/ (u = end(w) /\ E(w) <= t)
  <2>1. \A u : u \in RuleTransitions(tz, W) <=> \E w \in W : u = start(w) \/ u = end(w)
    BY DEF RuleTransitions
  <2>2. \A w : start(w).at = S(w) /\ end(w).at = E(w)
    OBVIOUS
  <2>3. \A u : u \in past <=> u \in RuleTransitions(tz, W) /\ u.at <= t
    BY DEF RulesUpTo
  <2> HIDE DEF start, end, S, E, W
  <2> QED BY <2>1, <2>2, <2>3
<1>4. \A w : /\ start(w).at = S(w) /\ start(w).offset = p
             /\ end(w).at = E(w) /\ end(w).offset = o
  OBVIOUS
<1>5. ASSUME NEW x \in past, x.at \in Int, x.offset = goal,
             \A u \in past : u.at \in Int /\ u.at <= x.at /\ (u.at = x.at => u.offset = x.offset)
      PROVE  last.offset = goal
  <2>1. last \in past /\ \A u \in past : u.at <= last.at
    <3>1. \E tr \in past : \A u \in past : u.at <= tr.at
      BY <1>5
    <3> QED BY <3>1
  <2> HIDE DEF last
  <2>2. last.at = x.at
    <3> DEFINE a == last.at
               b == x.at
    <3>1. a \in Int /\ b \in Int /\ a <= b /\ b <= a
      BY <1>5, <2>1
    <3> HIDE DEF a, b
    <3>2. a = b
      BY <3>1
    <3> QED BY <3>2 DEF a, b
  <2> QED BY <1>5, <2>1, <2>2
<1>6. S(y) \in Int /\ E(y) \in Int
  BY <1>1, <1>2
<1>7. \A w \in W : S(w) \in Int /\ E(w) \in Int
  BY <1>2
<1>8. DstIn(tz, y, t) <=> IF DstStart(tz, y) < DstEnd(tz, y) THEN S(y) <= t /\ t < E(y)
                          ELSE ~(E(y) <= t /\ t < S(y))
  BY DEF DstIn, StartsAt, EndsAt
<1>9. DstStart(tz, y) < DstEnd(tz, y) <=> S(y) < E(y)
  BY TransitionsOfYear DEF StartsAt, EndsAt
<1> SUFFICES last.offset = goal
  OBVIOUS
<1>10. \/ t < S(y) /\ t < E(y)
       \/ S(y) <= t /\ E(y) <= t
       => (DstIn(tz, y, t) <=> South(tz, y))
  BY <1>1, OutsideTransitions DEF StartsAt, EndsAt
<1> HIDE DEF S, E, start, end, p, o, last, W
<1>11. ASSUME NEW v \in W, S(v) <= t, E(v) <= t, DstIn(tz, y, t) <=> South(tz, y),
              \A w \in W : w # v => (t < S(w) \/ (S(w) < S(v) /\ S(w) < E(v))) /\ (t < E(w) \/ (E(w) < S(v) /\ E(w) < E(v)))
       PROVE  last.offset = goal
  <2>1. start(v) \in past /\ end(v) \in past
    BY <1>3, <1>11
  <2>2. CASE South(tz, y)
    <3>1. E(v) < S(v) /\ start(v).offset = goal
      BY <1>2, <1>4, <1>11, <2>2
    <3>2. ASSUME NEW u \in past
          PROVE  u.at \in Int /\ u.at <= start(v).at /\ (u.at = start(v).at => u.offset = start(v).offset)
      <4>1. PICK w \in W : (u = start(w) /\ S(w) <= t) \/ (u = end(w) /\ E(w) <= t)
        BY <1>3
      <4>2. CASE w = v
        BY <1>4, <1>7, <3>1, <4>1, <4>2
      <4>3. CASE w # v
        BY <1>1, <1>4, <1>7, <1>11, <4>1, <4>3
      <4> QED BY <4>2, <4>3
    <3>3. start(v).at \in Int
      BY <1>4, <1>7
    <3> QED BY <1>5, <2>1, <3>1, <3>2, <3>3
  <2>3. CASE ~South(tz, y)
    <3>1. S(v) < E(v) /\ end(v).offset = goal
      BY <1>2, <1>4, <1>11, <2>3
    <3>2. ASSUME NEW u \in past
          PROVE  u.at \in Int /\ u.at <= end(v).at /\ (u.at = end(v).at => u.offset = end(v).offset)
      <4>1. PICK w \in W : (u = start(w) /\ S(w) <= t) \/ (u = end(w) /\ E(w) <= t)
        BY <1>3
      <4>2. CASE w = v
        BY <1>4, <1>7, <3>1, <4>1, <4>2
      <4>3. CASE w # v
        BY <1>1, <1>4, <1>7, <1>11, <4>1, <4>3
      <4> QED BY <4>2, <4>3
    <3>3. end(v).at \in Int
      BY <1>4, <1>7
    <3> QED BY <1>5, <2>1, <3>1, <3>2, <3>3
  <2> QED BY <2>2, <2>3
<1>12. CASE t < S(y) /\ t < E(y)
  <2>1. PICK u \in past : TRUE
    OBVIOUS
  <2>2. PICK v \in W : (u = start(v) /\ S(v) <= t) \/ (u = end(v) /\ E(v) <= t)
    BY <1>3, <2>1
  <2>3. v < y /\ v = y - 1
    <3>1. v \in Int /\ ~(y < v) /\ v # y /\ (v < y => v = y - 1)
      BY <1>1, <1>2, <1>6, <1>12, <2>2
    <3> QED BY <1>1, <3>1
  <2>4. S(v) <= t /\ E(v) <= t
    BY <1>1, <1>2, <2>3
  <2>5. ASSUME NEW w \in W, w # v PROVE t < S(w) /\ t < E(w)
    <3>1. w = y \/ y < w
      BY <1>1, <1>2, <2>3, <2>5
    <3> QED BY <1>2, <1>12, <3>1
  <2> QED BY <1>10, <1>11, <1>12, <2>4, <2>5
<1>13. CASE S(y) <= t /\ E(y) <= t
  <2>1. ASSUME NEW w \in W, w # y
        PROVE  (t < S(w) \/ (S(w) < S(y) /\ S(w) < E(y))) /\ (t < E(w) \/ (E(w) < S(y) /\ E(w) < E(y)))
    <3>1. w < y \/ y < w
      BY <1>1, <1>2, <2>1
    <3>2. NewYear(y) < S(y) /\ NewYear(y) < E(y)
      BY <1>1, <1>2
    <3> QED BY <1>1, <1>2, <1>6, <3>1, <3>2
  <2> QED BY <1>1, <1>10, <1>11, <1>13, <2>1
<1>14. CASE S(y) <= t /\ t < E(y)
  <2>1. DstIn(tz, y, t)
    BY <1>1, <1>6, <1>8, <1>9, <1>14
  <2>2. start(y) \in past
    BY <1>1, <1>3, <1>14
  <2>3. ASSUME NEW u \in past
        PROVE  u.at \in Int /\ u.at <= start(y).at /\ (u.at = start(y).at => u.offset = start(y).offset)
    <3>1. PICK w \in W : (u = start(w) /\ S(w) <= t) \/ (u = end(w) /\ E(w) <= t)
      BY <1>3
    <3>2. CASE w = y
      BY <1>1, <1>4, <1>6, <1>14, <3>1, <3>2
    <3>3. CASE w # y
      <4>1. w < y \/ y < w
        BY <1>1, <1>2, <3>3
      <4>2. NewYear(y) < S(y)
        BY <1>1, <1>2
      <4>3. w < y
        BY <1>1, <1>2, <3>1, <4>1
      <4>4. S(w) < S(y) /\ E(w) < S(y)
        BY <1>1, <1>2, <1>6, <4>2, <4>3
      <4> QED BY <1>4, <1>6, <1>7, <3>1, <4>4
    <3> QED BY <3>2, <3>3
  <2> QED BY <1>4, <1>5, <1>6, <2>1, <2>2, <2>3
<1>15. CASE E(y) <= t /\ t < S(y)
  <2>1. ~DstIn(tz, y, t)
    BY <1>1, <1>6, <1>8, <1>9, <1>15
  <2>2. end(y) \in past
    BY <1>1, <1>3, <1>15
  <2>3. ASSUME NEW u \in past
        PROVE  u.at \in Int /\ u.at <= end(y).at /\ (u.at = end(y).at => u.offset = end(y).offset)
    <3>1. PICK w \in W : (u = start(w) /\ S(w) <= t) \/ (u = end(w) /\ E(w) <= t)
      BY <1>3
    <3>2. CASE w = y
      BY <1>1, <1>4, <1>6, <1>15, <3>1, <3>2
    <3>3. CASE w # y
      <4>1. w < y \/ y < w
        BY <1>1, <1>2, <3>3
      <4>2. NewYear(y) < E(y)
        BY <1>1, <1>2
      <4>3. w < y
        BY <1>1, <1>2, <3>1, <4>1
      <4>4. S(w) < E(y) /\ E(w) < E(y)
        BY <1>1, <1>2, <1>6, <4>2, <4>3
      <4> QED BY <1>4, <1>6, <1>7, <3>1, <4>4
    <3> QED BY <3>2, <3>3
  <2> QED BY <1>4, <1>5, <1>6, <2>1, <2>2, <2>3
<1> QED BY <1>1, <1>6, <1>12, <1>13, <1>14, <1>15

\* From the last recorded transition on, the string is asked.
LEMMA CoveredByString ==
    ASSUME NEW z, NEW tz, FooterZone(z, tz), NEW t \in Int, EpochMin <= t,
           z.utc = <<>> \/ t >= Final(z.utc).at
    PROVE  bisect(z.utc, t) = Past(z.utc)
<1>1. CASE z = parse_posix(tz)
  BY <1>1, EmptyBisect DEF parse_posix
<1>2. CASE HandsOver(z, tz)
  <2> DEFINE utc == z.utc
             n == Len(z.utc)
             r == bisect(z.utc, t)
             Entry == [at : Epochs, offset : Offsets, dst_saving : Int]
  <2>1. utc \in Seq(Entry) /\ Len(utc) >= 1
    BY <1>2 DEF HandsOver, WellFormedUtc
  <2>2. n \in Nat /\ n >= 1 /\ \A i \in 1 .. n : utc[i] \in Entry
    <3> HIDE DEF utc, Entry
    <3>1. Len(utc) \in Nat /\ \A i \in 1 .. Len(utc) : utc[i] \in Entry
      BY <2>1
    <3> QED BY <2>1, <3>1 DEF utc
  <2>3. \A i \in 1 .. n : z.utc[i].at \in Int
    BY <2>2, RangeAssumption DEF Epochs
  <2>4. n > 1 => \A i, j \in 1 .. n : i < j => z.utc[i].at < z.utc[j].at
    BY <1>2, ClosedFacts
  <2>5. z.utc # <<>>
    <3> HIDE DEF n
    <3>1. z.utc = <<>> => Len(z.utc) = 0
      OBVIOUS
    <3> QED BY <2>2, <3>1 DEF n
  <2>6. z.utc[n].at <= t
    BY <2>2, <2>3, <2>5 DEF Final
  <2>7. IsFirstAfter(z.utc, t, r)
    BY <2>2, <2>3, BisectFinds
  <2> HIDE DEF r, utc, Entry
  <2>8. r \in 1 .. n + 1 /\ (r # n + 1 => t < z.utc[r].at)
    BY <2>7 DEF IsFirstAfter, Past
  <2> HIDE DEF n
  <2>9. r = n + 1
    <3> SUFFICES ASSUME r # n + 1 PROVE FALSE
      OBVIOUS
    <3>1. r \in 1 .. n /\ n \in 1 .. n /\ t < z.utc[r].at
      BY <2>2, <2>8
    <3>2. z.utc[r].at \in Int /\ z.utc[n].at \in Int
      BY <2>3, <3>1
    <3>3. CASE r = n
      BY <2>6, <3>1, <3>2, <3>3
    <3>4. CASE r < n
      <4>1. n > 1
        BY <2>2, <3>1, <3>4
      <4>2. z.utc[r].at < z.utc[n].at
        BY <2>4, <3>1, <3>4, <4>1
      <4> QED BY <2>6, <3>1, <3>2, <4>2
    <3> QED BY <2>2, <3>1, <3>3, <3>4
  <2> QED BY <2>9 DEF r, n, Past
<1> QED BY <1>1, <1>2 DEF FooterZone

\* The hours of a date are of its year.
LEMMA HoursOfYear ==
    ASSUME IsDate(obj), NEW t \in HoursOfDay
    PROVE  t \in Epochs /\ obj.year \in Years /\ NewYear(obj.year) <= t /\ t < NewYear(obj.year + 1)
<1> DEFINE h == HoursPerDay
           d == day
<1>1. h \in Nat \ {0} /\ EpochMin = UnixDaysMin * h /\ EpochMax = (UnixDaysMax + 1) * h - 1
  BY HoursAssumption
<1>2. UnixDaysMin = -719162 /\ UnixDaysMax + 1 = 2932897
  BY SMT DEF UnixDaysMin, UnixDaysMax
<1>3. d \in UnixDays /\ UnixDaysDate(d) = obj
  BY UnixDaysDateInverts, UnixDaysInRange DEF day
<1>4. d \in Int /\ -719162 <= d /\ d + 1 <= 2932897
  <2>1. d \in Int /\ -719162 <= d /\ d <= 2932896
    BY <1>3, UnixDaysRange
  <2> HIDE DEF d
  <2> QED BY <2>1, SMT
<1>5. t \in d * h .. (d + 1) * h - 1
  BY DEF HoursOfDay
<1> HIDE DEF d, h
<1>6. t \in Int /\ d * h <= t /\ t < (d + 1) * h
  <2>1. d * h \in Int /\ (d + 1) * h \in Int
    BY <1>1, <1>4, SMT
  <2> QED BY <1>5, <2>1, SMT
<1>7. EpochMin <= t /\ t <= EpochMax
  <2>1. \A p \in Int, q \in Int : p <= q => p * h <= q * h /\ p * h \in Int /\ q * h \in Int
    BY <1>1, SMT
  <2>2. -719162 \in Int /\ 2932897 \in Int /\ d + 1 \in Int
    BY <1>4, SMT
  <2>3. (-719162) * h <= d * h /\ (d + 1) * h <= 2932897 * h
    BY <1>4, <2>1, <2>2
  <2> DEFINE a == (-719162) * h
             b == d * h
             c == (d + 1) * h
             e == 2932897 * h
  <2>4. a \in Int /\ b \in Int /\ c \in Int /\ e \in Int /\ a <= b /\ c <= e /\ b <= t /\ t < c
    BY <1>4, <1>6, <2>1, <2>2, <2>3
  <2>5. EpochMin = a /\ EpochMax = e - 1
    BY <1>1, <1>2
  <2> HIDE DEF a, b, c, e
  <2> QED BY <1>6, <2>4, <2>5, SMT
<1>8. t \in Epochs
  BY <1>6, <1>7, RangeAssumption DEF Epochs
<1>9. t \div h = d
  <2> DEFINE q == t \div h
  <2>1. q \in Int /\ d <= q /\ q < d + 1
    BY <1>1, <1>4, <1>6, QuotientBounds
  <2> HIDE DEF q
  <2>2. q = d
    BY <1>4, <2>1
  <2> QED BY <2>2 DEF q
<1>10. YearOf(t) = obj.year
  BY <1>3, <1>9 DEF YearOf, h
<1> QED BY <1>8, <1>10, YearOfHour

\* The offset by instant is the one that the last transition before it leads to,
\* as the text of the string prescribes the transitions (TzStr::parse, Rule::for_year
\* and TzStr::offset_for_instant): for every string with settled rules, in every
\* year of the range, from its first transition on.
THEOREM OffsetAlwaysFollowsRules == MCSpec => []OffsetFollowsRules
<1>1. StringInv /\ DatesInv => OffsetFollowsRules
  <2> DEFINE tz == parse(text)
             y == obj.year
             all == TextTransitions(text, {y - 1, y, y + 1})
             past(t) == {tr \in all : tr.at <= t}
             last(t) == CHOOSE tr \in past(t) : \A u \in past(t) : u.at <= tr.at
  <2> SUFFICES ASSUME StringInv, DatesInv, zone # NoZone, NEW t \in HoursOfDay, Covered(t),
                      past(t) # {} \/ text.rules = <<>>
               PROVE  /\ FooterOffset(zone, t) = IF past(t) = {} THEN TextOffset(text) ELSE last(t).offset
                      /\ FooterOffset(zone, t) - FooterSaving(zone, t) = TextOffset(text)
    BY Zenon DEF OffsetFollowsRules
  <2>1. text \in Texts
    BY DEF StringInv
  <2>2. FooterZone(zone, tz)
    <3>1. CASE zone = parse_posix(tz)
      BY <3>1 DEF FooterZone
    <3>2. ASSUME NEW n \in Recorded, zone = RecordedZone(text, n)
          PROVE  FooterZone(zone, tz)
      BY <2>1, <3>2, TextsAssumption DEF FooterZone
    <3> QED BY <3>1, <3>2 DEF StringInv
  <2>3. t \in Epochs /\ y \in Years /\ NewYear(y) <= t /\ t < NewYear(y + 1)
    BY HoursOfYear DEF DatesInv
  <2>4. t \in Int /\ EpochMin <= t
    BY <2>3, RangeAssumption DEF Epochs
  <2>5. bisect(zone.utc, t) = Past(zone.utc)
    BY <2>2, <2>4, CoveredByString DEF Covered
  <2>6. FooterOffset(zone, t) = PosixOffset(tz, t) /\ FooterSaving(zone, t) = PosixSaving(tz, t)
    <3>1. zone.end # <<>> /\ zone.end[1] = tz
      BY <2>2, FooterEnd
    <3> QED BY <2>5, <3>1 DEF FooterOffset, FooterSaving
  <2>7. /\ tz.std = TextOffset(text) /\ TextOffset(text) \in Int /\ TextDst(text) \in Int
        /\ text.rules = <<>> => tz.dst = <<>>
        /\ text.rules # <<>> => tz.dst # <<>> /\ tz.dst[1].offset = TextDst(text)
    BY <2>1, ParsedText
  <2>8. PosixOffset(tz, t) - PosixSaving(tz, t) = TextOffset(text)
    <3>1. CASE tz.dst = <<>>
      BY <2>7, <3>1 DEF PosixOffset, PosixSaving, is_dst_at
    <3>2. CASE tz.dst # <<>>
      BY <2>7, <3>2 DEF PosixOffset, PosixSaving
    <3> QED BY <3>1, <3>2
  <2>9. CASE text.rules = <<>>
    <3>1. past(t) = {}
      BY <2>9 DEF TextTransitions
    <3>2. PosixOffset(tz, t) = TextOffset(text)
      BY <2>7, <2>9 DEF PosixOffset, is_dst_at
    <3> QED BY <2>6, <2>8, <3>1, <3>2
  <2>10. CASE text.rules # <<>>
    <3> DEFINE W == {y - 1, y, y + 1} \cap Years
    <3>1. WithDst(tz)
      BY <2>1, <2>7, <2>10, ParsedOffsets DEF SettledTz
    <3>2. all = RuleTransitions(tz, W)
      <4>1. ASSUME NEW w \in W
            PROVE  /\ TextHour(text.rules[1], w) - TextOffset(text) = StartsAt(tz, w)
                   /\ TextHour(text.rules[2], w) - TextDst(text) = EndsAt(tz, w)
        <5>1. w \in Years
          OBVIOUS
        <5> QED BY <2>1, <2>7, <2>10, <5>1, RulesRead DEF StartsAt, EndsAt
      <4>2. all = {[at |-> TextHour(text.rules[1], w) - TextOffset(text), offset |-> TextDst(text)] : w \in W}
                  \cup {[at |-> TextHour(text.rules[2], w) - TextDst(text), offset |-> TextOffset(text)] : w \in W}
        BY <2>10 DEF TextTransitions
      <4>3. RuleTransitions(tz, W) =
                  {[at |-> StartsAt(tz, w), offset |-> TextDst(text)] : w \in W}
                  \cup {[at |-> EndsAt(tz, w), offset |-> TextOffset(text)] : w \in W}
        BY <2>7, <2>10 DEF RuleTransitions
      <4> HIDE DEF W, all, tz
      <4> QED BY <4>1, <4>2, <4>3
    <3>3. past(t) # {}
      BY <2>10
    <3>4. last(t).offset = IF DstIn(tz, y, t) THEN tz.dst[1].offset ELSE tz.std
      <4> DEFINE P == past(t)
      <4>1. P = RulesUpTo(tz, y, t) /\ P # {}
        BY <3>2, <3>3 DEF RulesUpTo
      <4> HIDE DEF P, tz, W
      <4>2. (CHOOSE tr \in P : \A u \in P : u.at <= tr.at).offset
                = IF DstIn(tz, y, t) THEN tz.dst[1].offset ELSE tz.std
        <5> HIDE DEF y
        <5> QED BY <2>3, <3>1, <4>1, LastTransition
      <4> QED BY <4>2 DEF P
    <3>5. is_dst_at(tz, t) <=> DstIn(tz, y, t)
      BY <2>3, <3>1, RulesOfYear
    <3>6. PosixOffset(tz, t) = last(t).offset
      BY <3>4, <3>5 DEF PosixOffset
    <3> QED BY <2>6, <2>8, <3>3, <3>6
  <2> QED BY <2>9, <2>10
<1> QED BY <1>1, StringInvariance, DatesInvariance, PTL
=============================================================================
