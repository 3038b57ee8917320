------------------------------- MODULE Deltas -------------------------------
(***************************************************************************)
(* TimeDelta, DateDelta and DateTimeDelta (src/domain/*_delta.rs and       *)
(* src/classes/*_delta.rs), the shifts they turn into and their text.      *)
(*                                                                         *)
(* A TimeDelta is its total number of nanoseconds; its whole seconds are   *)
(* rounded down, as in the code.  The clock is scaled: the constants say   *)
(* how many nanoseconds are in a microsecond and so on up to the day, so   *)
(* that the whole range of dates fits into 32 bits.  Days are those of the *)
(* calendar.  Integers stand for the Python integers and floats are out.   *)
(***************************************************************************)
EXTENDS Difference

CONSTANTS HoursPerDay, MinutesPerHour, SecondsPerMinute, MillisPerSecond, MicrosPerMilli, NanosPerMicro

ASSUME ClockAssumption ==
    /\ HoursPerDay \in Nat \ {0} /\ MinutesPerHour \in Nat \ {0} /\ SecondsPerMinute \in Nat \ {0}
    /\ MillisPerSecond \in Nat \ {0} /\ MicrosPerMilli \in Nat \ {0}
    /\ NanosPerMicro \in Nat \ {0} /\ NanosPerMicro % 2 = 0

NanosPerMilli == MicrosPerMilli * NanosPerMicro
NanosPerSecond == MillisPerSecond * NanosPerMilli
NanosPerMinute == SecondsPerMinute * NanosPerSecond
NanosPerHour == MinutesPerHour * NanosPerMinute
NanosPerDay == HoursPerDay * NanosPerHour

\* ExactUnit::in_nanos
in_nanos(unit) ==
    CASE unit = "weeks" -> 7 * NanosPerDay
      [] unit = "days" -> NanosPerDay
      [] unit = "hours" -> NanosPerHour
      [] unit = "minutes" -> NanosPerMinute
      [] unit = "seconds" -> NanosPerSecond
      [] unit = "milliseconds" -> NanosPerMilli
      [] unit = "microseconds" -> NanosPerMicro
      [] unit = "nanoseconds" -> 1

-----------------------------------------------------------------------------
(***************************************************************************)
(* TimeDelta.                                                              *)
(***************************************************************************)
TimeDeltaMax == 9999 * 366 * NanosPerDay
TimeDeltas == -TimeDeltaMax .. TimeDeltaMax
NoNanos == TimeDeltaMax + NanosPerSecond     \* None

\* The objects that exist: rounding checks whole seconds only, and negation nothing, so that a
\* TimeDelta may lie less than a second beyond the range of the arithmetic.
TimeDeltaObjects == 1 - NoNanos .. NoNanos - 1

secs(n) == n \div NanosPerSecond
subsec(n) == n % NanosPerSecond

from_nanos(n) == IF n \in TimeDeltas THEN n ELSE NoNanos
is_negative(n) == secs(n) < 0
TimeDeltaAbs(n) == IF secs(n) >= 0 THEN n ELSE -n
TimeDeltaAdd(n, m) == from_nanos(n + m)
TimeDeltaMul(n, factor) == from_nanos(n * factor)
NegateIf(n, negate) == IF negate THEN -n ELSE n

\* Python's // and %, from the division of Rust, which truncates; the divisor is not 0.
Quot(a, b) ==
    LET q == Distance(0, a) \div Distance(0, b) IN IF (a < 0) = (b < 0) THEN q ELSE -q
Rem(a, b) == a - Quot(a, b) * b
Signum(n) == IF n > 0 THEN 1 ELSE IF n < 0 THEN -1 ELSE 0

floordiv(a, b) ==
    Quot(a, b) - IF Signum(a) # Signum(b) /\ Rem(a, b) # 0 THEN 1 ELSE 0
mod(a, b) ==
    Rem(a, b) + IF Signum(a) # Signum(b) /\ Rem(a, b) # 0 THEN b ELSE 0

\* __truediv__ by an integer: exact if it can be, else to the nearest, ties away from zero
TrueDiv(n, factor) ==
    IF Rem(n, factor) = 0 THEN Quot(n, factor)
    ELSE LET q == (2 * Distance(0, n) + Distance(0, factor)) \div (2 * Distance(0, factor))
         IN  IF (n < 0) = (factor < 0) THEN q ELSE -q

(***************************************************************************)
(* TimeDelta::round.  An increment that divides the second is applied to   *)
(* the sub-second alone, which also decides what counts as even, and the   *)
(* seconds it carries are unwrapped; other results are checked by their    *)
(* whole seconds only.                                                     *)
(***************************************************************************)
Panics == -NoNanos

RoundSubsec(n, inc, mode) ==
    LET r == secs(n) * NanosPerSecond + RoundMultiple(subsec(n), inc, mode) IN
    IF Distance(0, secs(r)) <= secs(TimeDeltaMax) THEN r ELSE Panics

round_u128(n, inc, mode) ==
    LET r == RoundMultiple(n, inc, mode) IN
    IF Distance(0, secs(r)) <= secs(TimeDeltaMax) THEN r ELSE NoNanos

TimeDeltaRoundTrunc(n, inc, mode) == round_u128(n, inc, to_abs_trunc(mode, is_negative(n)))     \* mutant

\* TimeDelta.round: the remainder is that of the quotient rounded down
TimeDeltaRound(n, inc, mode) ==
    LET abs == to_abs_euclid(mode, is_negative(n)) IN
    IF inc < NanosPerSecond /\ NanosPerSecond % inc = 0
    THEN RoundSubsec(n, inc, abs) ELSE round_u128(n, inc, abs)

\* in_exact_units: the smallest unit is rounded, each takes what it can of the rest,
\* truncating.  Milliseconds and microseconds are not among the units.
TakeExact(acc, unit, units) ==
    IF unit \notin units THEN acc
    ELSE [rest |-> Rem(acc.rest, in_nanos(unit)),
          fields |-> [acc.fields EXCEPT ![unit] = Quot(acc.rest, in_nanos(unit))]]
in_exact_units(n, units, inc, mode) ==
    LET rounded == TimeDeltaRound(n, in_nanos(smallest(ExactUnit, units)) * inc, mode)
        weeks == TakeExact([rest |-> rounded, fields |-> [u \in units |-> 0]], "weeks", units)
        days == TakeExact(weeks, "days", units)
        hours == TakeExact(days, "hours", units)
        minutes == TakeExact(hours, "minutes", units)
        seconds == TakeExact(minutes, "seconds", units)
    IN  IF rounded \in {NoNanos, Panics} THEN [ok |-> FALSE]
        ELSE [ok |-> TRUE, value |-> TakeExact(seconds, "nanoseconds", units).fields]

\* in_hrs_mins_secs_nanos and in_months_days_secs_nanos: the parts have one sign
in_hrs_mins_secs_nanos(n) ==
    LET s == IF is_negative(n) /\ subsec(n) # 0 THEN secs(n) + 1 ELSE secs(n)
        perHour == MinutesPerHour * SecondsPerMinute
    IN  [hours |-> Quot(s, perHour), minutes |-> Quot(Rem(s, perHour), SecondsPerMinute),
         seconds |-> Rem(s, SecondsPerMinute), nanoseconds |-> n - s * NanosPerSecond]

\* ExactUnit::parse_py_number of an integer; each keyword is added under the range check.
parse_py_number(unit, value) == from_nanos(value * in_nanos(unit))

timedelta_from_kwargs(kwargs) ==
    FoldLeft(LAMBDA n, kw :
                IF n = NoNanos \/ parse_py_number(kw.unit, kw.value) = NoNanos THEN NoNanos
                ELSE TimeDeltaAdd(n, parse_py_number(kw.unit, kw.value)),
             0, kwargs)

-----------------------------------------------------------------------------
(***************************************************************************)
(* DateDelta and DateTimeDelta: [months, days] and [months, days, nanos].  *)
(***************************************************************************)
TooBig == [months |-> 0, days |-> 0, nanos |-> NoNanos]
MixedSign == [months |-> 0, days |-> 0, nanos |-> NoNanos + 1]
IsDelta(d) == d \notin {TooBig, MixedSign}

DateTimeDelta(months, days, nanos) == [months |-> months, days |-> days, nanos |-> nanos]

same_sign(months, days) == (months >= 0 /\ days >= 0) \/ (months <= 0 /\ days <= 0)

\* DateTimeDelta::new: the sign of the time is that of its whole seconds
SameSign3(months, days, nanos) ==
    \/ months >= 0 /\ days >= 0 /\ secs(nanos) >= 0
    \/ months <= 0 /\ days <= 0 /\ secs(nanos) <= 0

NewDateTimeDelta(months, days, nanos) ==
    IF SameSign3(months, days, nanos) THEN DateTimeDelta(months, days, nanos) ELSE MixedSign

\* The constructor looks at the nanoseconds, and at the ranges after the signs.
DateTimeDeltaFromKwargs(months, days, nanos) ==
    IF ~(same_sign(months, days) /\ same_sign(months, nanos) /\ same_sign(days, nanos)) THEN MixedSign
    ELSE IF months \in DeltaMonths /\ days \in DeltaDays /\ nanos \in TimeDeltas
         THEN DateTimeDelta(months, days, nanos) ELSE TooBig

\* DateDelta::add (nanos = 0) and DateTimeDelta::add
DeltaAdd(a, b) ==
    IF ~(a.months + b.months \in DeltaMonths /\ a.days + b.days \in DeltaDays) THEN TooBig
    ELSE IF ~same_sign(a.months + b.months, a.days + b.days) THEN MixedSign
    ELSE IF TimeDeltaAdd(a.nanos, b.nanos) = NoNanos THEN TooBig
    ELSE NewDateTimeDelta(a.months + b.months, a.days + b.days, a.nanos + b.nanos)

DeltaNeg(a) == DateTimeDelta(-a.months, -a.days, -a.nanos)

DeltaMul(a, factor) ==
    IF a.months * factor \in DeltaMonths /\ a.days * factor \in DeltaDays /\ a.nanos * factor \in TimeDeltas
    THEN DateTimeDelta(a.months * factor, a.days * factor, a.nanos * factor) ELSE TooBig

\* DateTimeDelta::__abs__; DateDelta::abs negates both parts, which have one sign
DeltaAbs(a) ==
    IF a.months >= 0 /\ a.days >= 0 /\ ~is_negative(a.nanos) THEN a
    ELSE DateTimeDelta(Distance(0, a.months), Distance(0, a.days), TimeDeltaAbs(a.nanos))

\* unpickle of the two classes checks ranges and signs again
DeltaUnpickle(a) ==
    IF a.months \in DeltaMonths /\ a.days \in DeltaDays /\ same_sign(a.months, a.days)
       /\ a.nanos \in TimeDeltas
    THEN NewDateTimeDelta(a.months, a.days, a.nanos) ELSE TooBig

-----------------------------------------------------------------------------
(***************************************************************************)
(* Shifts (src/domain/shift.rs and src/common/shift_args.rs): the calendar *)
(* part is a CalendarShift and may have mixed signs.                       *)
(***************************************************************************)
NoDateTimeShift == [months |-> NoShift.months, days |-> NoShift.days, nanos |-> 0]

\* parse_datetime_shift_arg of a TimeDelta, DateDelta or DateTimeDelta takes it as it
\* is; ItemizedDelta::to_shift of a function from units to numbers checks the ranges.
ItemizedToShift(delta) ==
    LET cal == to_calendar_shift(delta)
        nanos == FieldOr0(delta, "hours") * NanosPerHour + FieldOr0(delta, "minutes") * NanosPerMinute
                 + FieldOr0(delta, "seconds") * NanosPerSecond + FieldOr0(delta, "nanoseconds")
    IN  IF cal = NoShift \/ nanos \notin TimeDeltas THEN NoDateTimeShift
        ELSE DateTimeDelta(cal.months, cal.days, nanos)

\* DateTimeShift::add
ShiftAdd(s, t) ==
    LET cal == CalendarShiftAdd(s, t) IN
    IF cal = NoShift \/ TimeDeltaAdd(s.nanos, t.nanos) = NoNanos THEN NoDateTimeShift
    ELSE DateTimeDelta(cal.months, cal.days, s.nanos + t.nanos)

\* parse_calendar_shift_unit and parse_datetime_shift_unit
ShiftUnit(unit, value) ==
    LET shift ==
            CASE unit = "years" -> DateTimeDelta(value * 12, 0, 0)
              [] unit = "months" -> DateTimeDelta(value, 0, 0)
              [] unit = "weeks" -> DateTimeDelta(0, value * 7, 0)
              [] unit = "days" -> DateTimeDelta(0, value, 0)
              [] OTHER -> DateTimeDelta(0, 0, value * in_nanos(unit))
    IN  IF shift.months \in DeltaMonths /\ shift.days \in DeltaDays /\ shift.nanos \in TimeDeltas
        THEN shift ELSE NoDateTimeShift

parse_datetime_shift_kwargs(kwargs) ==
    FoldLeft(LAMBDA s, kw :
                IF s = NoDateTimeShift \/ ShiftUnit(kw.unit, kw.value) = NoDateTimeShift
                THEN NoDateTimeShift ELSE ShiftAdd(s, ShiftUnit(kw.unit, kw.value)),
             DateTimeDelta(0, 0, 0), kwargs)

-----------------------------------------------------------------------------
(***************************************************************************)
(* ISO 8601 durations.  A text is [neg, date, t, time]: its sign, the      *)
(* components before the T, whether there is a T, and those after it.  A   *)
(* component is [unit, value]; seconds carry their fraction, so that their *)
(* value counts nanoseconds.                                               *)
(***************************************************************************)
Part(unit, value) == [unit |-> unit, value |-> value]
Parts(parts) == SelectSeq(parts, LAMBDA p : p.value # 0)

\* format_components and fmt_components_abs, which gets the absolute value of the seconds
DateParts(months, days) ==
    Parts(<<Part("years", months \div 12), Part("months", months % 12), Part("days", days)>>)
TimeParts(n) ==
    LET s == Distance(0, secs(n))
        perHour == MinutesPerHour * SecondsPerMinute
    IN  Parts(<<Part("hours", s \div perHour), Part("minutes", (s % perHour) \div SecondsPerMinute),
                Part("seconds", (s % SecondsPerMinute) * NanosPerSecond + subsec(n))>>)

TimeDeltaTextFloor(n) ==     \* mutant: the sign is written, the value not negated
    [neg |-> is_negative(n), date |-> <<>>, t |-> TRUE,
     time |-> IF n = 0 THEN <<Part("seconds", 0)>> ELSE TimeParts(n)]

\* TimeDelta::fmt_iso, DateDelta::fmt_iso and DateTimeDelta::fmt_iso
TimeDeltaText(n) ==
    [neg |-> is_negative(n), date |-> <<>>, t |-> TRUE,
     time |-> IF n = 0 THEN <<Part("seconds", 0)>> ELSE TimeParts(IF is_negative(n) THEN -n ELSE n)]

DeltaText(d) ==
    LET neg == is_negative(d.nanos) \/ d.months < 0 \/ d.days < 0
        a == IF neg THEN DeltaNeg(d) ELSE d
        zero == d.months = 0 /\ d.days = 0 /\ d.nanos = 0
    IN  [neg |-> neg, date |-> IF zero THEN <<Part("days", 0)>> ELSE DateParts(a.months, a.days),
         t |-> a.nanos # 0, time |-> IF a.nanos = 0 THEN <<>> ELSE TimeParts(a.nanos)]

\* The units of a text come from the largest to the smallest, each at most once.
Ordered(parts, order) ==
    LET names == [i \in DOMAIN parts |-> parts[i].unit]
    IN  Names(names) \subseteq Names(order) /\ names = InOrder(order, Names(names))

PartValue(parts, unit) ==
    FoldLeft(LAMBDA sum, p : IF p.unit = unit THEN sum + p.value ELSE sum, 0, parts)

\* The sums of parse_date_components and parse_all_components
MonthsOf(text) == PartValue(text.date, "years") * 12 + PartValue(text.date, "months")
DaysOf(text) == PartValue(text.date, "weeks") * 7 + PartValue(text.date, "days")
NanosOf(text) ==
    PartValue(text.time, "hours") * NanosPerHour + PartValue(text.time, "minutes") * NanosPerMinute
    + PartValue(text.time, "seconds")

TimeOrder == <<"hours", "minutes", "seconds">>
InvalidText == NoNanos + 1

\* TimeDelta::parse_iso: a number, NoNanos if it is out of range, InvalidText
TimeDeltaParse(text) ==
    IF ~(text.t /\ text.date = <<>> /\ text.time # <<>> /\ Ordered(text.time, TimeOrder)) THEN InvalidText
    ELSE IF NanosOf(text) \in TimeDeltas THEN NegateIf(NanosOf(text), text.neg) ELSE NoNanos

\* DateTimeDelta::parse_iso; DateDelta::parse_iso where the text has no T.  A wrong text
\* and a number out of range are the same error.
DeltaParse(text) ==
    IF /\ text.date \in Seq([unit : Names(CalendarUnit), value : Nat])     \* digits only
       /\ Ordered(text.date, CalendarUnit) /\ Ordered(text.time, TimeOrder)
       /\ text.t = (text.time # <<>>) /\ (text.date # <<>> \/ text.time # <<>>)
       /\ MonthsOf(text) \in DeltaMonths /\ DaysOf(text) \in DeltaDays /\ NanosOf(text) \in TimeDeltas
    THEN LET d == DateTimeDelta(MonthsOf(text), DaysOf(text), NanosOf(text))
         IN  IF text.neg THEN DeltaNeg(d) ELSE d
    ELSE TooBig

-----------------------------------------------------------------------------
(***************************************************************************)
(* The arguments of round() (src/common/round_args.rs): no argument, a     *)
(* TimeDelta [delta], or [unit, increment], where the keyword increment is *)
(* 1 if it is absent.  A result of 0 is an error.                          *)
(***************************************************************************)
RoundUnit == <<"day", "hour", "minute", "second", "millisecond", "microsecond", "nanosecond">>
default_increment(unit) ==
    CASE unit = "week" -> 7 * NanosPerDay [] unit = "day" -> NanosPerDay
      [] unit = "hour" -> NanosPerHour [] unit = "minute" -> NanosPerMinute
      [] unit = "second" -> NanosPerSecond [] unit = "millisecond" -> NanosPerMilli
      [] unit = "microsecond" -> NanosPerMicro [] unit = "nanosecond" -> 1

Divides(n) == n > 0 /\ NanosPerDay % n = 0

RoundArgs(arg) ==
    CASE arg.kind = "none" -> [day |-> FALSE, nanos |-> NanosPerSecond]
      [] arg.kind = "delta" -> [day |-> FALSE, nanos |-> IF Divides(arg.nanos) THEN arg.nanos ELSE 0]
      [] arg.kind = "unit" /\ arg.unit = "day" ->
            [day |-> TRUE, nanos |-> IF arg.increment = 1 THEN NanosPerDay ELSE 0]
      [] arg.kind = "unit" /\ arg.unit \in Names(RoundUnit) \ {"day"} ->
            LET n == default_increment(arg.unit) * arg.increment
            IN  [day |-> FALSE, nanos |-> IF Divides(n) THEN n ELSE 0]
      [] OTHER -> [day |-> FALSE, nanos |-> 0]

\* DeltaArgs::parse: any positive increment
RoundDeltaArgs(arg) ==
    LET n == CASE arg.kind = "none" -> NanosPerSecond
               [] arg.kind = "delta" -> arg.nanos
               [] arg.kind = "unit" -> default_increment(arg.unit) * arg.increment
    IN  IF n > 0 THEN n ELSE 0
=============================================================================
