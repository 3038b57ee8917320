------------------------------ MODULE Calendar ------------------------------
(***************************************************************************)
(* The proleptic Gregorian calendar of src/domain/date.rs and the checked  *)
(* numbers of src/domain/scalar.rs, with their real ranges.                *)
(*                                                                         *)
(* A date is a record [year, month, day]; NoDate is the None of the code.  *)
(* Days are counted from 1970-01-01 and weekdays are those of ISO, Monday  *)
(* = 1.  Integers are mathematical: the ranges are far inside the widths   *)
(* of the code, except in UnixDaysDate, where the width matters.           *)
(***************************************************************************)
EXTENDS Integers

Years == 1 .. 9999
Months == 1 .. 12
UnixDaysMin == -719162
UnixDaysMax == 2932896
UnixDays == UnixDaysMin .. UnixDaysMax
DeltaMonths == -(9999 * 12) .. 9999 * 12
DeltaDays == UnixDaysMin - UnixDaysMax - 1 .. UnixDaysMax - UnixDaysMin + 1

NoDate == [year |-> 0, month |-> 0, day |-> 0]
NoDays == UnixDaysMin - 1          \* None for a number of days

Date(y, m, d) == [year |-> y, month |-> m, day |-> d]
DateMin == Date(1, 1, 1)
DateMax == Date(9999, 12, 31)

Truth(b) == IF b THEN 1 ELSE 0
is_leap(y) == (y % 4 = 0 /\ y % 100 # 0) \/ y % 400 = 0
DaysInYear(y) == IF is_leap(y) THEN 366 ELSE 365

MaxMonthDays == <<31, 28, 31, 30, 31, 30, 31, 31, 30, 31, 30, 31>>
DaysBeforeMonth == <<0, 31, 59, 90, 120, 151, 181, 212, 243, 273, 304, 334>>

days_in_month(y, m) == MaxMonthDays[m] + Truth(m = 2 /\ is_leap(y))
days_before_month(y, m) == DaysBeforeMonth[m] + Truth(m > 2 /\ is_leap(y))
days_before(y) == (y - 1) * 365 + (y - 1) \div 4 - (y - 1) \div 100 + (y - 1) \div 400
unix_days_at_jan1(y) == days_before(y) + UnixDaysMin

\* A date of the range: what Date::new lets exist
IsDate(d) ==
    /\ d \in [year : Years, month : Months, day : 1 .. 31]
    /\ d.day <= days_in_month(d.year, d.month)

\* Date::new, and Date::from_i64_components for numbers of any size
NewDate(y, m, d) ==
    IF y \in Years /\ m \in Months /\ d \in 1 .. days_in_month(y, m)
    THEN Date(y, m, d) ELSE NoDate

new_clamp_days(y, m, d) ==
    Date(y, m, IF d <= days_in_month(y, m) THEN d ELSE days_in_month(y, m))

unix_days(d) == days_before(d.year) + days_before_month(d.year, d.month) + d.day + UnixDaysMin - 1
ShiftUnix(n, by) == IF n + by \in UnixDays THEN n + by ELSE NoDays
day_of_week(n) == ((n + 3) % 7) + 1
day_of_year(d) == days_before_month(d.year, d.month) + d.day

\* Dates in the order of the code: by year, then month, then day
DateLess(a, b) ==
    \/ a.year < b.year
    \/ a.year = b.year /\ a.month < b.month
    \/ a.year = b.year /\ a.month = b.month /\ a.day < b.day

DateNoCorrection(n) ==     \* mutant: January and February stay in the year before
    LET n1 == 4 * (n + 719468 + 146097 * 82) + 3
        n2 == 4 * ((n1 % 146097) \div 4) + 3
        whole == 2939745 * (n2 \div 512) + (2939745 * (n2 % 512)) \div 512
        high == whole % 8388608
        ny == ((high * 128 + ((2939745 * (n2 % 512)) % 512) \div 4) \div 2939745)
        n3 == 2141 * ny + 197913
        m == n3 \div 65536
    IN  Date(100 * (n1 \div 146097) + whole \div 8388608 - 400 * 82,
             IF ny >= 306 THEN m - 12 ELSE m, (n3 % 65536) \div 2141 + 1)

(***************************************************************************)
(* UnixDays::date, the algorithm of Neri and Schneider.  The product of    *)
(* 64 bits is kept in two parts: p_2 = 512 * whole + rest, so that its     *)
(* quotient by 2^32 is whole \div 2^23.                                    *)
(***************************************************************************)
UnixDaysDate(n) ==
    LET n1 == 4 * (n + 719468 + 146097 * 82) + 3
        n2 == 4 * ((n1 % 146097) \div 4) + 3
        low == 2939745 * (n2 % 512)
        whole == 2939745 * (n2 \div 512) + low \div 512
        ny == ((whole % 8388608) * 128 + (low % 512) \div 4) \div 2939745
        n3 == 2141 * ny + 197913
        m == n3 \div 65536
        j == ny >= 306
    IN  Date(100 * (n1 \div 146097) + whole \div 8388608 - 400 * 82 + Truth(j),
             IF j THEN m - 12 ELSE m,
             (n3 % 65536) \div 2141 + 1)

-----------------------------------------------------------------------------
(***************************************************************************)
(* Moving a date.                                                          *)
(***************************************************************************)
DateOrNone(n) == IF n = NoDays THEN NoDate ELSE UnixDaysDate(n)
shift_days(d, days) == DateOrNone(ShiftUnix(unix_days(d), days))

\* Month::shift: the year and the month so many months on
MonthShift(y, m, months) == <<y + (m + months - 1) \div 12, ((m + months - 1) % 12) + 1>>

shift_months(d, months) ==
    LET ym == MonthShift(d.year, d.month, months) IN
    IF ym[1] \in Years THEN new_clamp_days(ym[1], ym[2], d.day) ELSE NoDate

\* Date::shift: months first, then days
OrNoDate(d, days) == IF d = NoDate THEN NoDate ELSE shift_days(d, days)
ShiftDate(d, months, days) == OrNoDate(shift_months(d, months), days)

tomorrow(d) ==
    IF d.day < days_in_month(d.year, d.month) THEN [d EXCEPT !.day = @ + 1]
    ELSE IF d.month < 12 THEN Date(d.year, d.month + 1, 1)
    ELSE NewDate(d.year + 1, 1, 1)

yesterday(d) ==
    IF d.day > 1 THEN [d EXCEPT !.day = @ - 1]
    ELSE IF d.month > 1 THEN Date(d.year, d.month - 1, days_in_month(d.year, d.month - 1))
    ELSE NewDate(d.year - 1, 12, 31)

\* The nth such weekday of a month, from its end if n is negative
nth_weekday_in_month(y, m, n, dow) ==
    LET first == 1 + ((dow - day_of_week(unix_days(Date(y, m, 1)))) % 7)
        last == days_in_month(y, m)
                - ((day_of_week(unix_days(Date(y, m, days_in_month(y, m)))) - dow) % 7)
    IN  NewDate(y, m, IF n > 0 THEN first + (n - 1) * 7 ELSE last + (n + 1) * 7)

IsoYearWeekThisYear(d) ==     \* mutant: the days before week 1 count into this year
    LET doy == day_of_year(d) IN <<d.year, (doy - 1) \div 7 + 1>>

\* The ISO week is that of the nearest Thursday.
iso_year_week(d) ==
    LET thursday == day_of_year(d) + 4 - day_of_week(unix_days(d))
    IN  IF thursday <= 0 THEN <<d.year - 1, (thursday + DaysInYear(d.year - 1) - 1) \div 7 + 1>>
        ELSE IF thursday > DaysInYear(d.year) THEN <<d.year + 1, 1>>
        ELSE <<d.year, (thursday - 1) \div 7 + 1>>

-----------------------------------------------------------------------------
(***************************************************************************)
(* The boundaries of the calendar units (DateBoundaryUnit).                *)
(***************************************************************************)
DateBoundaryUnit == {"year", "month", "week_mon", "week_sun"}

DateStartOf(d, unit) ==
    LET dow == day_of_week(unix_days(d)) IN
    CASE unit = "week_mon" -> shift_days(d, 1 - dow)
      [] unit = "week_sun" -> shift_days(d, -(dow % 7))
      [] unit = "month" -> Date(d.year, d.month, 1)
      [] unit = "year" -> Date(d.year, 1, 1)

DateEndOf(d, unit) ==
    LET dow == day_of_week(unix_days(d)) IN
    CASE unit = "week_mon" -> shift_days(d, 7 - dow)
      [] unit = "week_sun" -> shift_days(d, (6 - dow) % 7)
      [] unit = "month" -> Date(d.year, d.month, days_in_month(d.year, d.month))
      [] unit = "year" -> Date(d.year, 12, 31)

DayAfter(d) == IF d = NoDate THEN NoDate ELSE tomorrow(d)
next_start_of(d, unit) == DayAfter(DateEndOf(d, unit))
=============================================================================
