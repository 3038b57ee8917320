----------------------------- MODULE DateTimes ------------------------------
(***************************************************************************)
(* Time, PlainDateTime, Instant and OffsetDateTime (src/domain/time.rs,    *)
(* plain_datetime.rs, instant.rs, offset_datetime.rs and their classes) on *)
(* the real calendar and the scaled clock of Deltas.                       *)
(*                                                                         *)
(* A time of day is its number of nanoseconds, an instant the number since *)
(* 1970, a PlainDateTime [date, time] and an OffsetDateTime [date, time,   *)
(* offset] with its offset in seconds.                                     *)
(***************************************************************************)
EXTENDS Deltas

SecondsPerDay == NanosPerDay \div NanosPerSecond
Offsets == 1 - SecondsPerDay .. SecondsPerDay - 1
Times == 0 .. NanosPerDay - 1

EpochMin == UnixDaysMin * SecondsPerDay
EpochMax == (UnixDaysMax + 1) * SecondsPerDay - 1
NoInstant == (EpochMax + 1) * NanosPerSecond
Instants == EpochMin * NanosPerSecond .. NoInstant - 1

Plain(date, time) == [date |-> date, time |-> time]
NoPlain == Plain(NoDate, 0)
Offset(p, offset) == [date |-> p.date, time |-> p.time, offset |-> offset]
NoOffset == Offset(NoPlain, 0)

-----------------------------------------------------------------------------
(***************************************************************************)
(* Times of day.                                                           *)
(***************************************************************************)
hour(t) == t \div NanosPerHour
minute(t) == (t \div NanosPerMinute) % MinutesPerHour
second(t) == (t \div NanosPerSecond) % SecondsPerMinute

\* Time::new and Time::from_i64_components; None is -1
NewTime(h, m, s, n) ==
    IF /\ h \in 0 .. HoursPerDay - 1 /\ m \in 0 .. MinutesPerHour - 1
       /\ s \in 0 .. SecondsPerMinute - 1 /\ n \in 0 .. NanosPerSecond - 1
    THEN h * NanosPerHour + m * NanosPerMinute + s * NanosPerSecond + n ELSE -1

\* Time::round: the mode for a value that is never negative, and whether the day is over
TimeRound(t, inc, mode) ==
    LET n == RoundMultiple(t, inc, to_abs_trunc(mode, FALSE))
    IN  [time |-> n % NanosPerDay, next_day |-> n \div NanosPerDay]

TimeBoundaryUnit == {"hour", "minute", "second"}
TimeStartOf(t, unit) == t - (t % default_increment(unit))
TimeEndOf(t, unit) == TimeStartOf(t, unit) + default_increment(unit) - 1

\* Time::next_start_of, with the fields that wrap around
TimeNextStartOf(t, unit) ==
    LET s == second(t) + 1
        m == minute(t) + Truth(unit = "minute" \/ s = SecondsPerMinute)
        h == hour(t) + Truth(unit = "hour" \/ m = MinutesPerHour)
    IN  [time |-> (h % HoursPerDay) * NanosPerHour
                  + (IF unit = "hour" THEN 0 ELSE (m % MinutesPerHour) * NanosPerMinute)
                  + (IF unit = "second" THEN (s % SecondsPerMinute) * NanosPerSecond ELSE 0),
         next_day |-> h = HoursPerDay]

-----------------------------------------------------------------------------
(***************************************************************************)
(* Instants.                                                               *)
(***************************************************************************)
from_timestamp_nanos(n) == IF secs(n) \in EpochMin .. EpochMax THEN n ELSE NoInstant
from_timestamp_millis(ms) ==
    IF ms \div MillisPerSecond \in EpochMin .. EpochMax THEN ms * NanosPerMilli ELSE NoInstant
from_timestamp(s) == IF s \in EpochMin .. EpochMax THEN s * NanosPerSecond ELSE NoInstant

timestamp_millis(n) == secs(n) * MillisPerSecond + subsec(n) \div NanosPerMilli

InstantShiftNoCarry(n, delta) ==     \* mutant: the sub-seconds carry nothing
    LET epoch == secs(n) + secs(delta)
    IN  IF epoch \in EpochMin .. EpochMax
        THEN epoch * NanosPerSecond + ((subsec(n) + subsec(delta)) % NanosPerSecond) ELSE NoInstant

\* Instant::shift: whole seconds first, then the second that the sub-seconds carry,
\* each under the range check
InstantShift(n, delta) ==
    LET epoch == secs(n) + secs(delta)
        sub == subsec(n) + subsec(delta)
        carried == epoch + sub \div NanosPerSecond
    IN  IF epoch \in EpochMin .. EpochMax /\ carried \in EpochMin .. EpochMax
        THEN carried * NanosPerSecond + (sub % NanosPerSecond) ELSE NoInstant

InstantShiftByOffset(n, offset) ==
    IF secs(n) + offset \in EpochMin .. EpochMax THEN n + offset * NanosPerSecond ELSE NoInstant

\* Instant.round: as a TimeDelta since 1970, and back
InstantOrNone(r) == IF r \notin {NoNanos, Panics} /\ secs(r) \in EpochMin .. EpochMax THEN r ELSE NoInstant
InstantRound(n, inc, mode) == InstantOrNone(TimeDeltaRound(n, inc, mode))

-----------------------------------------------------------------------------
(***************************************************************************)
(* PlainDateTime.                                                          *)
(***************************************************************************)
assume_utc(p) == unix_days(p.date) * NanosPerDay + p.time
to_utc_plain(n) == Plain(UnixDaysDate(n \div NanosPerDay), n % NanosPerDay)
PlainLess(a, b) == DateLess(a.date, b.date) \/ (a.date = b.date /\ a.time < b.time)

PlainOrNone(n) == IF n = NoInstant THEN NoPlain ELSE to_utc_plain(n)
PlainShift(p, delta) == PlainOrNone(InstantShift(assume_utc(p), delta))

OrNoPlain(date, time) == IF date = NoDate THEN NoPlain ELSE Plain(date, time)
PlainShiftOn(p, nanos) == IF p = NoPlain THEN NoPlain ELSE PlainShift(p, nanos)
PlainShiftBy(p, shift) ==
    IF shift = NoDateTimeShift THEN NoPlain
    ELSE PlainShiftOn(OrNoPlain(ShiftDate(p.date, shift.months, shift.days), p.time), shift.nanos)

DateTimeBoundaryUnit == DateBoundaryUnit \cup TimeBoundaryUnit \cup {"day"}

start_of_unit(p, unit) ==
    IF unit \in TimeBoundaryUnit THEN Plain(p.date, TimeStartOf(p.time, unit))
    ELSE OrNoPlain(IF unit = "day" THEN p.date ELSE DateStartOf(p.date, unit), 0)

end_of_unit(p, unit) ==
    IF unit \in TimeBoundaryUnit THEN Plain(p.date, TimeEndOf(p.time, unit))
    ELSE OrNoPlain(IF unit = "day" THEN p.date ELSE DateEndOf(p.date, unit), NanosPerDay - 1)

NextStartSameDay(p, unit) ==     \* mutant: midnight is that of the same day
    IF unit \in TimeBoundaryUnit THEN Plain(p.date, TimeNextStartOf(p.time, unit).time)
    ELSE OrNoPlain(IF unit = "day" THEN tomorrow(p.date) ELSE next_start_of(p.date, unit), 0)

next_start_of_unit(p, unit) ==
    IF unit \in TimeBoundaryUnit
    THEN LET n == TimeNextStartOf(p.time, unit)
         IN  OrNoPlain(IF n.next_day THEN tomorrow(p.date) ELSE p.date, n.time)
    ELSE OrNoPlain(IF unit = "day" THEN tomorrow(p.date) ELSE next_start_of(p.date, unit), 0)

PlainRound(p, inc, mode) ==
    LET r == TimeRound(p.time, inc, mode)
    IN  OrNoPlain(IF r.next_day = 1 THEN tomorrow(p.date) ELSE p.date, r.time)

\* PlainDateTime.replace: the components are replaced one by one and checked at the end
PlainComponents(p) ==
    [year |-> p.date.year, month |-> p.date.month, day |-> p.date.day,
     hour |-> hour(p.time), minute |-> minute(p.time), second |-> second(p.time),
     nanosecond |-> subsec(p.time)]
into_plain(c) ==
    LET date == NewDate(c.year, c.month, c.day)
        time == NewTime(c.hour, c.minute, c.second, c.nanosecond)
    IN  IF date = NoDate \/ time = -1 THEN NoPlain ELSE Plain(date, time)
PlainReplace(p, kwargs) ==
    into_plain(FoldLeft(LAMBDA c, kw : [c EXCEPT ![kw.field] = kw.value], PlainComponents(p), kwargs))

-----------------------------------------------------------------------------
(***************************************************************************)
(* OffsetDateTime.                                                         *)
(***************************************************************************)
\* LocalSecs::to_epoch
LocalSeconds(p) == unix_days(p.date) * SecondsPerDay + secs(p.time)
OffsetInRange(p, offset) == LocalSeconds(p) - offset \in EpochMin .. EpochMax

assume_offset(p, offset) ==
    IF p # NoPlain /\ OffsetInRange(p, offset) THEN Offset(p, offset) ELSE NoOffset

to_plain(o) == Plain(o.date, o.time)

\* OffsetDateTime::to_instant unwraps: NoInstant is a panic here.
to_instant(o) == InstantShiftByOffset(assume_utc(to_plain(o)), -o.offset)

\* Instant::to_offset and OffsetDateTime.to_fixed_offset
to_offset(n, offset) ==
    LET local == InstantShiftByOffset(n, offset) IN
    IF local = NoInstant THEN NoOffset ELSE Offset(to_utc_plain(local), offset)

OffsetShiftBy(o, shift) == assume_offset(PlainShiftBy(to_plain(o), shift), o.offset)
OffsetStartOf(o, unit) == assume_offset(start_of_unit(to_plain(o), unit), o.offset)
OffsetEndOf(o, unit) == assume_offset(end_of_unit(to_plain(o), unit), o.offset)

\* OffsetDateTime.round does not check the range of the instant again.
OffsetRound(o, inc, mode) ==
    LET p == PlainRound(to_plain(o), inc, mode) IN IF p = NoPlain THEN NoOffset ELSE Offset(p, o.offset)

\* OffsetDateTime.replace: the kwargs may hold an offset
OffsetReplace(o, kwargs, offset) == assume_offset(PlainReplace(to_plain(o), kwargs), offset)

-----------------------------------------------------------------------------
(***************************************************************************)
(* since and until.                                                        *)
(***************************************************************************)
\* The date that calendar units may lead to: not past a, with the time of b
TargetAnyTime(a, b, neg) == a.date     \* mutant: the times of day are not compared
target_date(a, b, neg) ==
    CASE ~neg /\ b.time > a.time -> yesterday(a.date)
      [] neg /\ b.time < a.time -> tomorrow(a.date)
      [] OTHER -> a.date

\* The instants that the truncated difference and one step more lead to
InterimInstant(date, time) == assume_utc(Plain(InterimResolve(date), time))

\* plain_since_in_units: calendar units from the dates, exact units from what is left
RoundCalendar(value, a, trunc, expand, last, mode, inc, neg) ==
    [ok |-> TRUE,
     value |-> [value EXCEPT ![last] =
                    round_by_time(@, assume_utc(a), trunc, expand, to_abs_trunc(mode, neg), inc, neg)]]
Joined(value, rest) ==
    [u \in DOMAIN value \cup DOMAIN rest |-> IF u \in DOMAIN value THEN value[u] ELSE rest[u]]
WithExact(value, rest) == IF rest.ok THEN [ok |-> TRUE, value |-> Joined(value, rest.value)] ELSE NoDiff
SinceRest(d, a, b, cal, exact, mode, inc, neg) ==
    IF ~d.ok THEN NoDiff
    ELSE IF exact = {}
    THEN RoundCalendar(d.value, a, InterimInstant(d.trunc, b.time), InterimInstant(d.expand, b.time),
                       smallest(CalendarUnit, cal), mode, inc, neg)
    ELSE WithExact(d.value, in_exact_units(assume_utc(a) - InterimInstant(d.trunc, b.time), exact, inc, mode))
SinceOn(target, a, b, cal, exact, mode, inc, neg) ==
    IF target = NoDate THEN NoDiff
    ELSE SinceRest(IF cal = {} THEN Diff(<<>>, b.date, a.date)
                   ELSE date_diff(target, b.date, IF exact = {} THEN inc ELSE 1, cal, neg),
                   a, b, cal, exact, mode, inc, neg)
plain_since_in_units(a, b, units, mode, inc) ==
    LET neg == PlainLess(a, b)
    IN  SinceOn(target_date(a, b, neg), a, b, calendar_only(units), exact_only(units), mode, inc, neg)

\* total_calendar_plain: the whole part and the fraction of the next step
StepFraction(d, a, b) ==
    LET trunc == InterimInstant(d.trunc, b.time) IN
    IF d.ok THEN [ok |-> TRUE, whole |-> d.value, num |-> assume_utc(a) - trunc,
                  denom |-> InterimInstant(d.expand, b.time) - trunc]
    ELSE NoDiff
TotalOn(target, a, b, unit, neg) ==
    IF target = NoDate THEN NoDiff ELSE StepFraction(UnitDiff(unit, target, b.date, 1, neg), a, b)
total_calendar_plain(a, b, unit) ==
    TotalOn(target_date(a, b, PlainLess(a, b)), a, b, unit, PlainLess(a, b))

\* A total in an exact unit, the days and weeks of a PlainDateTime among them
exact_total(n, unit) == [ok |-> TRUE, whole |-> 0, num |-> n, denom |-> in_nanos(unit)]

plain_since_float(a, b, unit) ==
    IF unit \in Names(ExactUnit) THEN exact_total(assume_utc(a) - assume_utc(b), unit)
    ELSE total_calendar_plain(a, b, unit)

\* TimeDelta.in_units and total: relative_to, if any, is shifted with its local time
\* taken as UTC.  Without one, days have 24 hours, and then only months are missing.
SinceOrNone(a, b, units, mode, inc) ==
    IF a = NoPlain THEN NoDiff ELSE plain_since_in_units(a, b, units, mode, inc)
timedelta_in_units(n, relative, units, mode, inc) ==
    CASE relative = NoPlain /\ units \subseteq Names(ExactUnit) -> in_exact_units(n, units, inc, mode)
      [] relative # NoPlain -> SinceOrNone(PlainShift(relative, n), relative, units, mode, inc)
      [] OTHER -> NoDiff

TotalOrNone(a, b, unit) == IF a = NoPlain THEN NoDiff ELSE total_calendar_plain(a, b, unit)
timedelta_total(n, relative, unit) ==
    LET exact == Names(ExactUnit) \ (IF relative = NoPlain THEN {} ELSE Names(CalendarUnit)) IN
    CASE unit \in exact -> exact_total(n, unit)
      [] unit \notin exact /\ relative # NoPlain -> TotalOrNone(PlainShift(relative, n), relative, unit)
      [] OTHER -> NoDiff

\* offset_since: calendar units need the same offset, exact units take the instants
offset_since(a, b, units, mode, inc) ==
    IF has_calendar(units)
    THEN IF a.offset = b.offset THEN plain_since_in_units(to_plain(a), to_plain(b), units, mode, inc)
         ELSE NoDiff
    ELSE in_exact_units(to_instant(a) - to_instant(b), units, inc, mode)
=============================================================================
