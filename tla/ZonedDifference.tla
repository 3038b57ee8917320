-------------------------- MODULE ZonedDifference --------------------------
(***************************************************************************)
(* ZonedDateTime.since and until (zoned_since of                           *)
(* src/classes/zoned_datetime.rs over src/domain/zoned_datetime.rs): the   *)
(* calendar part is counted in local days from b towards a, and stops      *)
(* where b's time of day on that date, in the zone, lies beyond a; the     *)
(* rest is exact time.                                                     *)
(*                                                                         *)
(* A date is the second its day begins at, a calendar unit the seconds of  *)
(* a day or a week.  Months and years are those of module Difference.      *)
(***************************************************************************)
EXTENDS ZonedDateTime, Rounding

\* OffsetDateTime::with_date_in_tz
with_date(b, day) ==
    IF day \notin Epochs THEN Err("range")
    ELSE resolve_preserving_offset(b.tz, day + (b.secs - Midnight(b.secs)), b.subsec, b.offset)

NoDay == EpochMin - 1

ZonedTargetUnmoved(aDay, aInst, b, neg) == aDay     \* mutant: the time of day is not looked at

\* The loop goes from the date of a back towards b until b's time of day is no
\* longer beyond a; None where a date does not resolve.
zoned_target(aDay, aInst, b, neg) ==
    LET Day(k) == aDay + Step(k, ~neg) * DayLen
        At(k) == with_date(b, Day(k))
        Beyond(k) == At(k).ok /\ IF neg THEN InstantTicks(At(k)) < aInst
                                        ELSE InstantTicks(At(k)) > aInst
        last == CHOOSE k \in 0 .. (EpochMax - EpochMin + 1) \div DayLen :
                    ~Beyond(k) /\ \A j \in 0 .. k - 1 : Beyond(j)
    IN  IF At(last).ok THEN Day(last) ELSE NoDay

\* Towards zero, to a multiple of n
TruncTo(v, n) == IF v >= 0 THEN v - (v % n) ELSE -((-v) - ((-v) % n))

\* date_diff in days, weeks or both: the increment is that of the smaller unit.
\* coarse is what the larger one takes, fine the rest.
date_diff(target, b, inc, units, neg) ==
    LET small == CHOOSE u \in units : \A v \in units : u <= v
        rest == target - Midnight(b.secs)
        coarse == IF units = {small} THEN 0
                  ELSE TruncTo(rest, CHOOSE u \in units : u # small)
        fine == TruncTo(rest - coarse, inc * small)
        trunc == Midnight(b.secs) + coarse + fine
    IN  [coarse |-> coarse, fine |-> fine, small |-> small, trunc |-> trunc,
         expand |-> trunc + Step(inc * small, neg)]

\* The answer: a calendar part in seconds of whole days, and exact nanoseconds.
Since(days, exact) == [ok |-> TRUE, days |-> days, exact |-> exact]

\* zoned_since_in_units: exact is the unit of the exact part in nanoseconds, or
\* 0 when only calendar units were asked for.
zoned_since_in_units(a, b, target, units, exact, mode, inc, neg) ==
    LET aInst == InstantTicks(a)
        d == IF units = {}
             THEN [coarse |-> 0, fine |-> 0, trunc |-> Midnight(b.secs), expand |-> Midnight(a.secs)]
             ELSE date_diff(target, b, IF exact = 0 THEN inc ELSE 1, units, neg)
        trunc == with_date(b, d.trunc)
        expand == with_date(b, d.expand)
    IN  IF ~trunc.ok \/ ~expand.ok THEN Err("range")
        ELSE IF exact # 0
        THEN Since(d.coarse + d.fine,
                   RoundMultiple(aInst - InstantTicks(trunc), exact * inc, to_abs_euclid(mode, neg)))
        ELSE Since(d.coarse + d.small *
                     round_by_time(d.fine \div d.small, aInst, InstantTicks(trunc),
                                   InstantTicks(expand), to_abs_trunc(mode, neg), inc, neg),
                   0)

\* zoned_since_float, for a calendar unit: the whole part and the fraction
\* num / denom that the total consists of
zoned_since_float(a, b, target, unit, neg) ==
    LET d == date_diff(target, b, 1, {unit}, neg)
        trunc == with_date(b, d.trunc)
        expand == with_date(b, d.expand)
    IN  IF ~trunc.ok \/ ~expand.ok THEN Err("range")
        ELSE [ok |-> TRUE, whole |-> Distance(0, d.fine) \div unit,
              num |-> InstantTicks(a) - InstantTicks(trunc),
              denom |-> InstantTicks(expand) - InstantTicks(trunc)]

\* a.since(b), or b.until(a): calendar units need one and the same zone.
zoned_since(a, b, units, exact, mode, inc) ==
    LET neg == InstantTicks(a) < InstantTicks(b)
        target == zoned_target(Midnight(a.secs), InstantTicks(a), b, neg)
    IN  IF units # {} /\ a.tz # b.tz THEN Err("tz")
        ELSE IF target = NoDay THEN Err("range")
        ELSE zoned_since_in_units(a, b, target, units, exact, mode, inc, neg)

zoned_since_total(a, b, unit) ==
    LET neg == InstantTicks(a) < InstantTicks(b)
        target == zoned_target(Midnight(a.secs), InstantTicks(a), b, neg)
    IN  IF a.tz # b.tz THEN Err("tz")
        ELSE IF target = NoDay THEN Err("range")
        ELSE zoned_since_float(a, b, target, unit, neg)

-----------------------------------------------------------------------------
(***************************************************************************)
(* TimeDelta.in_units and TimeDelta.total relative to a ZonedDateTime: n   *)
(* nanoseconds from b on, in units that begin at b.                        *)
(***************************************************************************)
Shifted(n, b) == ShiftInstant(b.tz, to_instant(b), b.subsec, n \div Ticks, n % Ticks)

timedelta_in_units(n, b, units, exact, mode, inc) ==
    LET a == Shifted(n, b)
        target == zoned_target(Midnight(a.secs), InstantTicks(a), b, n < 0)
    IN  IF ~a.ok THEN a
        ELSE IF target = NoDay THEN Err("range")
        ELSE zoned_since_in_units(a, b, target, units, exact, mode, inc, n < 0)

\* The same total as that of zoned_since_float, signs put together another way:
\* a signed whole part, and a remainder without sign over a signed length.
total_calendar(n, a, b, unit) ==
    LET target == zoned_target(Midnight(a.secs), InstantTicks(a), b, n < 0)
        d == date_diff(target, b, 1, {unit}, n < 0)
        trunc == with_date(b, d.trunc)
        expand == with_date(b, d.expand)
    IN  IF target = NoDay \/ ~trunc.ok \/ ~expand.ok THEN Err("range")
        ELSE [ok |-> TRUE, whole |-> d.fine \div unit,
              num |-> Distance(InstantTicks(a), InstantTicks(trunc)),
              denom |-> InstantTicks(expand) - InstantTicks(trunc)]

timedelta_total(n, b, unit) ==
    LET a == Shifted(n, b) IN IF ~a.ok THEN a ELSE total_calendar(n, a, b, unit)
=============================================================================
