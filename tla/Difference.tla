----------------------------- MODULE Difference -----------------------------
(***************************************************************************)
(* The difference of two dates in calendar units (src/domain/difference.rs *)
(* and the arguments of src/common/difference_args.rs): the units are      *)
(* taken from the largest to the smallest, each leads as far towards the   *)
(* target as it can, and the last one is rounded.                          *)
(*                                                                         *)
(* b is the date that is counted from and a the target; neg says that a    *)
(* lies before b.  A unit set is a set of names; an ItemizedDateDelta is a *)
(* function from the units asked for to numbers.  An interim date may be   *)
(* the 29th of February of a common year.                                  *)
(***************************************************************************)
EXTENDS Calendar, Rounding, Sequences, SequencesExt

CalendarUnit == <<"years", "months", "weeks", "days">>
DifferenceUnit == CalendarUnit \o <<"hours", "minutes", "seconds", "nanoseconds">>
ExactUnit == <<"weeks", "days", "hours", "minutes", "seconds",
               "milliseconds", "microseconds", "nanoseconds">>

Names(seq) == {seq[i] : i \in DOMAIN seq}

\* The units of a set, largest first, and the smallest of them
InOrder(order, units) == SelectSeq(order, LAMBDA u : u \in units)
smallest(order, units) == order[Max({i \in DOMAIN order : order[i] \in units})]

calendar_only(units) == units \cap Names(CalendarUnit)
exact_only(units) == units \cap {"hours", "minutes", "seconds", "nanoseconds"}
has_calendar(units) == calendar_only(units) # {}
has_exact(units) == exact_only(units) # {}
has_days_or_weeks(units) == units \cap {"days", "weeks"} # {}

\* to_exact_assuming_24h_days: {} where years or months stand in the way
to_exact_24h(units) == IF units \cap {"years", "months"} # {} THEN {} ELSE units

\* parse_ordered_units: a sequence of distinct units in decreasing size
parse_ordered_units(order, names) ==
    /\ names # <<>>
    /\ \A i \in DOMAIN names : names[i] \in Names(order)
    /\ names = InOrder(order, Names(names))

\* DifferenceUnitSet::from_py
DifferenceUnitsOk(names) ==
    /\ parse_ordered_units(DifferenceUnit, names)
    /\ "nanoseconds" \in Names(names) => "seconds" \in Names(names)

\* DifferenceSpec::parse_with: the keywords of a call, in order, as records
\* [key, value]; total excludes in_units and every rounding keyword.
DifferenceSpecOk(kwargs) ==
    LET keys == {kwargs[i].key : i \in DOMAIN kwargs}
        Value(key) == kwargs[CHOOSE i \in DOMAIN kwargs : kwargs[i].key = key].value
    IN  \/ /\ "total" \in keys /\ keys \subseteq {"total"}
           /\ Value("total") \in Names(DifferenceUnit)
        \/ /\ "in_units" \in keys /\ keys \subseteq {"in_units", "round_mode", "round_increment"}
           /\ DifferenceUnitsOk(Value("in_units"))
           /\ "round_mode" \in keys => Value("round_mode") \in Mode
           /\ "round_increment" \in keys => Value("round_increment") > 0

IncrementMax == UnixDaysMax - UnixDaysMin + 1
CalendarIncrementOk(inc) == inc \in 1 .. IncrementMax

\* CalendarIncrement::truncate, towards zero
truncate(inc, v) == IF v >= 0 THEN v - (v % inc) ELSE -((-v) - ((-v) % inc))

-----------------------------------------------------------------------------
(***************************************************************************)
(* One unit.                                                               *)
(***************************************************************************)
NoDiff == [ok |-> FALSE]
Diff(value, trunc, expand) == [ok |-> TRUE, value |-> value, trunc |-> trunc, expand |-> expand]

InterimResolve(d) == new_clamp_days(d.year, d.month, d.day)

\* InterimDate::replace_year keeps the day, InterimDate::shift_months clamps it.
InterimYears(b, n) == IF b.year + n \in Years THEN [b EXCEPT !.year = @ + n] ELSE NoDate
InterimMonths(b, n) == IF n \in DeltaMonths THEN shift_months(b, n) ELSE NoDate

Overshot(a, diff, reached) ==
    \/ diff > 0 /\ DateLess(a, InterimResolve(reached))
    \/ diff < 0 /\ DateLess(InterimResolve(reached), a)

NoOvershoot(a, diff, reached) == FALSE     \* mutant: an overshoot stays

Between(value, trunc, expand) == IF NoDate \in {trunc, expand} THEN NoDiff ELSE Diff(value, trunc, expand)

\* The number of steps that does not lead past a, what it leads to, and what
\* one step more leads to; At(n) is None out of range.
Around(value, step, At(_)) == Between(value, At(value), At(value + step))
Towards(a, diff, step, At(_), Past(_, _, _)) ==
    IF At(diff) = NoDate THEN NoDiff
    ELSE Around(IF Past(a, diff, At(diff)) THEN diff - step ELSE diff, step, At)

YearsDiffNoCorrection(a, b, inc, neg) ==     \* mutant: a day before the anniversary counts
    LET At(n) == InterimYears(b, n) IN
    Towards(a, truncate(inc, a.year - b.year), Step(inc, neg), At, NoOvershoot)

years_diff(a, b, inc, neg) ==
    LET At(n) == InterimYears(b, n) IN
    Towards(a, truncate(inc, a.year - b.year), Step(inc, neg), At, Overshot)

months_diff(a, b, inc, neg) ==
    LET At(n) == InterimMonths(b, n) IN
    Towards(a, truncate(inc, (a.year - b.year) * 12 + a.month - b.month), Step(inc, neg), At, Overshot)

days_diff(a, b, inc, neg) ==
    LET At(n) == shift_days(InterimResolve(b), n) IN
    Around(truncate(inc, unix_days(a) - unix_days(InterimResolve(b))), Step(inc, neg), At)

InWeeks(d) == IF d.ok THEN Diff(d.value \div 7, d.trunc, d.expand) ELSE NoDiff
weeks_diff(a, b, inc, neg) ==
    IF CalendarIncrementOk(inc * 7) THEN InWeeks(days_diff(a, b, inc * 7, neg)) ELSE NoDiff

\* CalendarUnit::diff_into and date_diff_single_unit
UnitDiff(unit, a, b, inc, neg) ==
    CASE unit = "years" -> years_diff(a, b, inc, neg)
      [] unit = "months" -> months_diff(a, b, inc, neg)
      [] unit = "weeks" -> weeks_diff(a, b, inc, neg)
      [] unit = "days" -> days_diff(a, b, inc, neg)

\* All units, largest first: the increment belongs to the smallest one.
Further(acc, unit, d) ==
    IF d.ok THEN Diff([acc.value EXCEPT ![unit] = d.value], d.trunc, d.expand) ELSE NoDiff
TakeUnit(acc, unit, a, inc, units, neg) ==
    IF unit \notin units \/ ~acc.ok THEN acc
    ELSE Further(acc, unit, UnitDiff(unit, a, acc.trunc,
                                         IF unit = smallest(CalendarUnit, units) THEN inc ELSE 1, neg))
date_diff(a, b, inc, units, neg) ==
    LET years == TakeUnit(Diff([u \in units |-> 0], b, a), "years", a, inc, units, neg)
        months == TakeUnit(years, "months", a, inc, units, neg)
        weeks == TakeUnit(months, "weeks", a, inc, units, neg)
    IN  TakeUnit(weeks, "days", a, inc, units, neg)

-----------------------------------------------------------------------------
(***************************************************************************)
(* Rounding the smallest unit by the days between trunc, target and        *)
(* expand.                                                                 *)
(***************************************************************************)
round_by_days(value, target, trunc, expand, mode, inc, neg) ==
    LET from == unix_days(InterimResolve(trunc)) IN
    RoundByDistance(value, Distance(unix_days(target), from),
                    Distance(unix_days(InterimResolve(expand)), from), mode, inc, neg)

-----------------------------------------------------------------------------
(***************************************************************************)
(* Date.since and Date.until, and adding the result again.                 *)
(***************************************************************************)
RoundLast(d, a, last, mode, inc, neg) ==
    IF d.ok THEN [d EXCEPT !.value[last] = round_by_days(@, a, d.trunc, d.expand, mode, inc, neg)] ELSE NoDiff
date_since_iddelta(a, b, units, mode, inc) ==
    LET neg == DateLess(a, b) IN
    RoundLast(date_diff(a, b, inc, units, neg), a, smallest(CalendarUnit, units), to_abs_trunc(mode, neg), inc, neg)

\* The whole part and the fraction num / denom that the total consists of
Fractional(d, a, neg) ==
    LET from == unix_days(InterimResolve(d.trunc)) IN
    IF d.ok THEN [ok |-> TRUE, whole |-> Distance(0, d.value), neg |-> neg, num |-> unix_days(a) - from,
                  denom |-> unix_days(InterimResolve(d.expand)) - from]
    ELSE NoDiff
date_since_float(a, b, unit) == Fractional(UnitDiff(unit, a, b, 1, DateLess(a, b)), a, DateLess(a, b))

FieldOr0(delta, unit) == IF unit \in DOMAIN delta THEN delta[unit] ELSE 0

\* ItemizedDateDelta::to_calendar_shift, None out of the ranges
NoShift == [months |-> 0, days |-> 2 * IncrementMax]
to_calendar_shift(delta) ==
    LET months == FieldOr0(delta, "years") * 12 + FieldOr0(delta, "months")
        days == FieldOr0(delta, "weeks") * 7 + FieldOr0(delta, "days")
    IN  IF months \in DeltaMonths /\ days \in DeltaDays
        THEN [months |-> months, days |-> days] ELSE NoShift

\* Date::shift_by
shift_by(d, shift) == IF shift = NoShift THEN NoDate ELSE ShiftDate(d, shift.months, shift.days)

CalendarShiftAdd(s, t) ==
    IF s.months + t.months \in DeltaMonths /\ s.days + t.days \in DeltaDays
    THEN [months |-> s.months + t.months, days |-> s.days + t.days] ELSE NoShift
CalendarShiftNegateIf(s, neg) == IF neg THEN [months |-> -s.months, days |-> -s.days] ELSE s
=============================================================================
