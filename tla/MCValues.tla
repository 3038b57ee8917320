------------------------------ MODULE MCValues ------------------------------
(***************************************************************************)
(* Values on a day of 4 hours of 3 minutes of 2 seconds of 12 nanoseconds, *)
(* which keeps the whole range of dates within 32 bits: objects at the     *)
(* ends of the ranges, around zero and on awkward dates.                   *)
(***************************************************************************)
EXTENDS Values

Kw(unit, value) == [unit |-> unit, value |-> value]
MCKwargs ==
    {<<Kw("hours", 1), Kw("nanoseconds", -1)>>, <<Kw("days", 9999 * 366), Kw("seconds", 1)>>,
     <<Kw("weeks", -1), Kw("milliseconds", 3)>>}
MCFactors == {-2, 0, 2}

D(m, d, n) == DateTimeDelta(m, d, n)
MCDeltaArgs == {D(1, 0, 0), D(-12, -1, -NanosPerSecond), D(0, 0, 5), D(0, 1, -5), D(0, 0, NanosPerDay + 1)}

Round(kind, unit, n, mode) ==
    [arg |-> [kind |-> kind, unit |-> unit, increment |-> n, nanos |-> n], mode |-> mode]
MCRoundCalls ==
    {Round("none", "", 0, "half_even"), Round("delta", "", 10, "ceil"), Round("delta", "", 6, "ceil"),
     Round("unit", "day", 1, "half_floor"), Round("unit", "hour", 2, "expand"), Round("unit", "second", 5, "trunc")}

C(y, mo, d, h, mi, s, n) ==
    [year |-> y, month |-> mo, day |-> d, hour |-> h, minute |-> mi, second |-> s, nanosecond |-> n]
MCComponents ==
    {C(2024, 2, 29, 3, 2, 1, 11), C(2023, 2, 29, 0, 0, 0, 0), C(9999, 12, 31, 0, 0, 0, 0), C(1, 1, 1, 4, 0, 0, 0),
     C(1, 1, 1, 0, 0, 1, 12)}

Rep(field, value) == [field |-> field, value |-> value]
MCReplacements == {<<Rep("hour", 3), Rep("nanosecond", 11)>>, <<Rep("minute", 3)>>, <<Rep("year", 2023), Rep("day", 1)>>}
MCOffsetArgs == {1 - SecondsPerDay, 7, SecondsPerDay}
MCTimestamps == {-1, 5, EpochMin, EpochMax, EpochMax + 1}

At(y, m, d, time) == Plain(Date(y, m, d), time)
MCPlains ==
    {p \in {At(1, 1, 1, 0), At(2023, 3, 31, 100), At(2024, 2, 29, NanosPerDay - 1), At(2024, 12, 31, 100),
     At(2025, 2, 28, 101), At(9999, 12, 31, NanosPerDay - 1)} :
        IsPlain(p)}

MCStarts ==
    {OfNanos("time_delta", n) :
        n \in {0, 1, -1, 5, 77, -77, NanosPerDay + 13, -NanosPerDay, TimeDeltaMax, -TimeDeltaMax}}
    \cup {OfDelta("date_delta", d) : d \in {D(0, 0, 0), D(13, 2, 0), D(0, -1, 0)}}
    \cup {OfDelta("datetime_delta", d) :
            d \in {D(0, 0, 0), D(1, 40, 29), D(0, -1, -5), D(-14, 0, -100), D(9999 * 12 - 1, 366, 1)}}
    \cup {OfNanos("time", n) : n \in {0, 29, NanosPerDay - 1}}
    \cup {OfNanos("instant", n) : n \in {-1, 0, 290, EpochMin * NanosPerSecond + 1, NoInstant - 1}}
    \cup {OfPlain(p) : p \in MCPlains}
    \cup {OfOffset(assume_offset(p, f)) : p \in {At(2024, 2, 29, 100), At(2025, 2, 28, 101)}, f \in {-5, 7}}
    \cup {OfOffset(assume_offset(At(9999, 12, 31, 200), -6))}

-----------------------------------------------------------------------------
\* Sub-second amounts count as either sign in a DateTimeDelta.
OneSigned(d) ==
    \/ d.months >= 0 /\ d.days >= 0 /\ d.nanos >= 0
    \/ d.months <= 0 /\ d.days <= 0 /\ d.nanos <= 0

\* What format_iso writes of a delta, parse_iso reads back; a pickle too.  A
\* negative delta has its seconds rounded down, but none is written so.
DeltaTextRoundTrip ==
    /\ Is("time_delta") /\ obj.nanos \in TimeDeltas => TimeDeltaParse(TimeDeltaText(obj.nanos)) = obj.nanos
    /\ HasDelta /\ OneSigned(obj.delta) =>
            DeltaParse(DeltaText(obj.delta)) = obj.delta /\ DeltaUnpickle(obj.delta) = obj.delta

\* TimeDelta // and % are Python's: together they give the dividend back, and
\* the remainder lies between zero and the divisor.
DividesExactly ==
    Pair("time_delta") /\ other.nanos # 0 =>
        LET q == floordiv(obj.nanos, other.nanos) r == mod(obj.nanos, other.nanos) IN
        /\ q * other.nanos + r = obj.nanos
        /\ IF other.nanos > 0 THEN r \in 0 .. other.nanos - 1 ELSE r \in other.nanos + 1 .. 0

\* A shift that ends here may be refused (see InstantsAddExactly).
FirstSecond(p) == LocalSeconds(p) = EpochMin

\* in_units of a TimeDelta with relative_to: added to it, the units lead where the
\* TimeDelta does, and without calendar units relative_to makes no difference.
ItemizedLeadsTo(b, d, a) == d.ok => PlainShiftBy(b, ItemizedToShift(d.value)) = a
SameUnits(d, e) == d.ok /\ d.value = e.value
RelativeUnitsAddUp(n, b) ==
    LET a == PlainShift(b, n) IN
    a # NoPlain /\ ~FirstSecond(a) =>
        /\ ItemizedLeadsTo(b, timedelta_in_units(n, b, {"years", "months", "days", "seconds", "nanoseconds"}, "trunc", 1), a)
        /\ SameUnits(timedelta_in_units(n, b, {"seconds", "nanoseconds"}, "half_even", 2),
                     timedelta_in_units(n, NoPlain, {"seconds", "nanoseconds"}, "half_even", 2))

\* What the exact units of a difference add up to
ExactSum(value) ==
    FieldOr0(value, "weeks") * in_nanos("weeks") + FieldOr0(value, "days") * in_nanos("days")
    + FieldOr0(value, "hours") * in_nanos("hours") + FieldOr0(value, "minutes") * in_nanos("minutes")
    + FieldOr0(value, "seconds") * in_nanos("seconds") + FieldOr0(value, "nanoseconds")

\* in_units of a TimeDelta: the parts have one sign and add up to the multiple
\* of the smallest unit that the mode asks for.  A multiple that divides the
\* second counts as even within its second.
ExactUnitsAddUp ==
    /\ DividesExactly
    /\ Is("time_delta") => \A b \in MCPlains : RelativeUnitsAddUp(obj.nanos, b)
    /\ Is("time_delta") =>
        \A units \in {{"weeks", "hours"}, {"days", "minutes", "seconds", "nanoseconds"}, {"seconds"}, {"hours", "minutes"}},
           inc \in {1, 2}, mode \in Mode :
            LET r == in_exact_units(obj.nanos, units, inc, mode)
                step == in_nanos(smallest(ExactUnit, units)) * inc
                sum == ExactSum(r.value)
                base == IF step < NanosPerSecond THEN secs(obj.nanos) * NanosPerSecond ELSE 0
            IN  r.ok =>
                    /\ mode # "half_even" => RoundsTo(obj.nanos, step, mode, sum)
                    /\ mode = "half_even" => RoundsTo(obj.nanos - base, step, mode, sum - base)
                    /\ (\A u \in units : r.value[u] >= 0) \/ (\A u \in units : r.value[u] <= 0)

PastTarget(a, b, p) == IF PlainLess(a, b) THEN PlainLess(p, a) ELSE PlainLess(a, p)

\* A total in a calendar unit is the whole number of units, and a fraction below
\* one of the next; for days and weeks of 24 hours it is the quotient.
TotalAddsUp(t, n, since, exact, unit) ==
    t.ok => /\ IF n < 0 THEN t.denom < t.num /\ t.num <= 0 ELSE 0 <= t.num /\ t.num < t.denom
            /\ since.value[unit] = t.whole
            /\ unit \in {"weeks", "days"} =>
                    Distance(0, t.whole) * exact.denom + Distance(0, t.num) = Distance(0, exact.num)
TotalsAddUp(a, b) ==
    LET n == assume_utc(a) - assume_utc(b) IN
    \A unit \in Names(CalendarUnit) :
        TotalAddsUp(timedelta_total(n, b, unit), n, plain_since_in_units(a, b, {unit}, "trunc", 1),
                    plain_since_float(a, b, unit), unit)

\* back is what a difference d leads to, next what one more of its smallest unit
\* leads to.
LeadsTo(a, b, units, d, back, next) ==
    /\ back # NoPlain /\ ~PastTarget(a, b, back)
    /\ next # NoPlain => PastTarget(a, b, next)
    /\ "nanoseconds" \in units => back = a
    /\ \A u \in units : IF PlainLess(a, b) THEN d.value[u] <= 0 ELSE d.value[u] >= 0
SinceLeadsTo(a, b, units, d) ==
    LET last == smallest(DifferenceUnit, units) IN
    d.ok => LeadsTo(a, b, units, d, PlainShiftBy(b, ItemizedToShift(d.value)),
                    PlainShiftBy(b, ItemizedToShift([d.value EXCEPT ![last] = @ + Step(1, PlainLess(a, b))])))

\* A difference of two datetimes never leads past its target, leads exactly there
\* if nanoseconds are among its units, has one sign, and one more of its smallest
\* unit leads past the target, unless that lies in the first second of the range;
\* a total is the same number with a fraction; and with exact units only, offsets
\* make no difference.
DateTimeDifferenceAddsBack ==
    /\ Pair("plain") \/ (Pair("offset") /\ obj.dt.offset = other.dt.offset) =>
        \A cal \in {{}, {"years"}, {"months", "days"}, {"years", "months", "weeks", "days"}, {"weeks"}},
           exact \in {{}, {"hours"}, {"minutes", "seconds", "nanoseconds"}} :
            LET units == cal \cup exact
                b == to_plain(other.dt)
            IN  units # {} /\ ~FirstSecond(plain) =>
                    SinceLeadsTo(plain, b, units, plain_since_in_units(plain, b, units, "trunc", 1))
    /\ Pair("plain") => TotalsAddUp(plain, to_plain(other.dt))
    /\ Pair("offset") /\ NoInstant \notin {to_instant(obj.dt), to_instant(other.dt)}
            /\ secs(to_instant(obj.dt)) > EpochMin =>
        LET d == offset_since(obj.dt, other.dt, {"hours", "seconds", "nanoseconds"}, "trunc", 1)
        IN  d.ok /\ InstantShift(to_instant(other.dt), ExactSum(d.value)) = to_instant(obj.dt)

\* Every datetime lies between the start and the end of its units, the next unit
\* starts a nanosecond after the end, also across midnight and the new year.
DateTimeUnitsTile ==
    Is("plain") => \A unit \in DateTimeBoundaryUnit :
        LET s == start_of_unit(plain, unit) e == end_of_unit(plain, unit) n == next_start_of_unit(plain, unit) IN
        /\ s # NoPlain => ~PlainLess(plain, s)
        /\ e # NoPlain => ~PlainLess(e, plain)
        /\ n # NoPlain => /\ PlainLess(plain, n)
                          /\ start_of_unit(n, unit) = n
                          /\ PlainShift(e, 1) = n
                          /\ s # NoPlain => start_of_unit(e, unit) = s /\ end_of_unit(s, unit) = e

\* Shifting an instant adds exactly, or raises when the result is out of range or
\* in the first second of the range; a timestamp in milliseconds is rounded down,
\* before 1970 too; a datetime and its instant determine each other under the
\* offset.
InstantsAddExactly ==
    /\ Is("instant") => \A d \in DeltaArgs :
        LET n == obj.nanos + d.nanos IN
        InstantShift(obj.nanos, d.nanos) =
            IF n \in Instants /\ (secs(n) > EpochMin \/ secs(obj.nanos) + secs(d.nanos) = EpochMin)
            THEN n ELSE NoInstant
    /\ Is("instant") => from_timestamp_millis(timestamp_millis(obj.nanos)) = obj.nanos - (obj.nanos % NanosPerMilli)
    /\ Is("plain") => to_utc_plain(assume_utc(plain)) = plain
    /\ Is("offset") /\ to_instant(obj.dt) # NoInstant => to_offset(to_instant(obj.dt), obj.dt.offset) = obj.dt
=============================================================================
