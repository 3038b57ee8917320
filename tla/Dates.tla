------------------------------- MODULE Dates --------------------------------
(***************************************************************************)
(* The Date class (src/classes/date.rs): a date through any sequence of    *)
(* method calls, on the real calendar.  Every call makes a new object or   *)
(* raises, in which case the caller keeps the old one; err is the error of *)
(* the last call, "none" if it returned.                                   *)
(*                                                                         *)
(* months and days of a DateDelta are numbers; its text and the text of a  *)
(* date are modelled in module Text.                                       *)
(***************************************************************************)
EXTENDS Difference

CONSTANTS
    StartDates,   \* the dates that calls begin with
    Shifts,       \* arguments of add and subtract, [months, days]
    WeekdayNs,    \* arguments n of nth_weekday and nth_weekday_of_month
    Fields,       \* arguments of the constructor and of replace: [year, month, day]
    MaxCalls      \* the number of calls

ASSUME DatesAssumption ==
    /\ \A d \in StartDates : IsDate(d)
    /\ Shifts \subseteq [months : DeltaMonths, days : DeltaDays]
    /\ WeekdayNs \subseteq Int
    /\ Fields \subseteq [year : Int, month : Int, day : Int]

VARIABLES obj, other, delta, err, calls
vars == <<obj, other, delta, err, calls>>

Weekdays == 1 .. 7
NoDelta == [months |-> 0, days |-> 0]

Call == calls < MaxCalls /\ calls' = calls + 1

\* The object a call returns, or the error it raises
Return(date, error) ==
    /\ Call
    /\ obj' = IF date = NoDate THEN obj ELSE date
    /\ err' = IF date = NoDate THEN error ELSE "none"
    /\ UNCHANGED <<other, delta>>

Init ==
    /\ obj \in StartDates
    /\ other \in StartDates
    /\ delta = NoDelta
    /\ err = "none"
    /\ calls = 0

\* __new__ of three integers, and replace with some of them
New == \E f \in Fields : Return(NewDate(f.year, f.month, f.day), "value")
ReplaceField(field) ==
    \E f \in Fields :
        LET d == [obj EXCEPT ![field] = f[field]] IN Return(NewDate(d.year, d.month, d.day), "value")
Replace == \E field \in {"year", "month", "day"} : ReplaceField(field)

NextDay == Return(ShiftDate(obj, 0, 1), "range")
PrevDay == Return(ShiftDate(obj, 0, -1), "range")

nth_weekday_of_month(d, n, dow) ==
    IF n # 0 /\ n \in -5 .. 5 THEN nth_weekday_in_month(d.year, d.month, n, dow) ELSE NoDate

\* The numbers of weeks that fit in the range
NthWeeks == -521722 .. 521722

\* The nth such weekday after (before, for a negative n) the date, itself excluded
nth_weekday(d, n, dow) ==
    LET dist == (dow - day_of_week(unix_days(d))) % 7
        ahead == IF dist = 0 THEN 7 ELSE dist
        back == IF dist = 0 THEN 7 ELSE 7 - dist
        days == IF n > 0 THEN ahead + (n - 1) * 7 ELSE -(back + (-n - 1) * 7)
    IN  IF n # 0 /\ n \in NthWeeks /\ days \in DeltaDays THEN ShiftDate(d, 0, days) ELSE NoDate

NthWeekdayOfMonth ==
    \E n \in WeekdayNs, dow \in Weekdays : Return(nth_weekday_of_month(obj, n, dow), "value")
NthWeekdayAfter ==
    \E n \in WeekdayNs, dow \in Weekdays :
        Return(nth_weekday(obj, n, dow), IF n = 0 \/ n \notin NthWeeks THEN "value" ELSE "range")

StartOf == \E unit \in DateBoundaryUnit : Return(DateStartOf(obj, unit), "range")
EndOf == \E unit \in DateBoundaryUnit : Return(DateEndOf(obj, unit), "range")

\* add and subtract; __add__ and __sub__ of a DateDelta do the same
Shift == \E s \in Shifts, negate \in BOOLEAN :
            Return(shift_by(obj, CalendarShiftNegateIf(s, negate)), "range")

\* The object becomes the argument of the calls to come.
Keep == /\ Call
        /\ other' = obj
        /\ err' = "none"
        /\ UNCHANGED <<obj, delta>>

\* __sub__ of two dates (deprecated): months, corrected by one, and then days
minus(slf, oth) ==
    LET months == slf.month - oth.month + 12 * (slf.year - oth.year)
        moved == shift_months(oth, months)
        up == shift_months(oth, months + 1)
        down == shift_months(oth, months - 1)
    IN  IF DateLess(slf, oth) /\ DateLess(moved, slf)
        THEN [months |-> months + 1,
              days |-> slf.day - days_in_month(slf.year, slf.month) - up.day]
        ELSE IF DateLess(oth, slf) /\ DateLess(slf, moved)
        THEN [months |-> months - 1,
              days |-> slf.day + days_in_month(down.year, down.month) - down.day]
        ELSE [months |-> months, days |-> slf.day - moved.day]

Minus ==
    /\ Call
    /\ delta' = minus(obj, other)
    /\ err' = "none"
    /\ UNCHANGED <<obj, other>>

\* since and until (until swaps the two dates) with in_units
ReturnDelta(d) ==
    /\ Call
    /\ delta' = IF d.ok THEN to_calendar_shift(d.value) ELSE delta
    /\ err' = IF d.ok THEN "none" ELSE "range"
    /\ UNCHANGED <<obj, other>>
Since ==
    \E units \in (SUBSET Names(CalendarUnit)) \ {{}}, negate \in BOOLEAN :
        ReturnDelta(IF negate THEN date_since_iddelta(other, obj, units, "trunc", 1)
                              ELSE date_since_iddelta(obj, other, units, "trunc", 1))

days_since(slf, oth) == unix_days(slf) - unix_days(oth)

Next ==
    \/ New \/ Replace \/ NextDay \/ PrevDay \/ NthWeekdayOfMonth \/ NthWeekdayAfter
    \/ StartOf \/ EndOf \/ Shift \/ Keep \/ Minus \/ Since

Spec == Init /\ [][Next]_vars
=============================================================================
