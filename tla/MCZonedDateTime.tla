-------------------------- MODULE MCZonedDateTime --------------------------
(***************************************************************************)
(* ZonedDateTime in small zones: days of eight seconds of two nanoseconds, *)
(* and transitions of every kind at the places where they hurt.            *)
(***************************************************************************)
EXTENDS ZonedDifference, FiniteSets, TLC

CONSTANTS k1, k2

\* A zone with the offset o1 that changes to o2 at the instant at.
OneTransition(at, o1, o2) ==
    parse_content([times |-> <<at>>, indices |-> <<2>>, end |-> <<o2>>,
                   types |-> <<[offset |-> o1, isdst |-> FALSE], [offset |-> o2, isdst |-> FALSE]>>])

\* DST from the instant a to the instant b.
Summer(a, b, std, dst) ==
    parse_content([times |-> <<a, b>>, indices |-> <<2, 1>>, end |-> <<>>,
                   types |-> <<[offset |-> std, isdst |-> FALSE], [offset |-> dst, isdst |-> TRUE]>>])

AllZones ==
    {OneTransition(11, 0, 2),     \* a gap within a day
     OneTransition(13, 2, 0),     \* a fold within a day
     OneTransition(15, 0, 2),     \* a gap over midnight
     OneTransition(15, 2, 0),     \* a fold over midnight
     OneTransition(16, 0, 1),     \* a gap at midnight
     OneTransition(12, -4, 4),    \* a whole day skipped
     OneTransition(12, 4, -4),    \* a whole day repeated
     OneTransition(13, 3, 0),     \* a fold longer than an hour
     Summer(10, 16, -1, 0)}       \* a gap, and a fold of the second half of an hour

\* A gap, and a fold that the offset before the gap does not occur in.
FewZones == {OneTransition(11, -1, 0), OneTransition(11, 1, 0)}

MCShiftSecs == {-9, -1, 0, 3}
MCShiftDays == {-1, 0, 1}

\* No guard reads the outcome of the last call, and NothingPanics only whether
\* it was a panic.
StateView == <<zdt, db, pickled, stale, outcome = "panic">>

-----------------------------------------------------------------------------
Units == TimeUnits \cup DateUnits
AsObject(r) == [zdt EXCEPT !.secs = r.secs, !.subsec = r.subsec, !.offset = r.offset]
ThisInstant == InstantTicks(zdt)

\* A boundary of a calendar unit strictly inside a gap or a fold (1919-03-30
\* in Toronto): clocks jump over midnight from the last half hour of a day.
Inside(l) ==
    LET m == mapping_for_local(zdt.tz, l) IN
    m.kind # "unique" /\ l > m.transition - Abs(m.after - m.before)

Regular(u) ==
    u \in TimeUnits \/ (~Inside(UnitStart(zdt, u)) /\ ~Inside(UnitStart(zdt, u) + u))

\* A gap of a day or more skips whole dates, from midnight to midnight, as Samoa
\* did in 2011.
SkipsWholeDates(tz) ==
    \A i \in DOMAIN tz.local :
        LET l == tz.local[i] IN
        l.change >= DayLen => l.at = Midnight(l.at) /\ l.at - l.change = Midnight(l.at - l.change)

\* A unit begins at or before the object and ends at or after it, in gaps and
\* on both sides of folds; and no day is shorter than a second, also where a
\* midnight or the whole next day is skipped (round_day casts the length of the
\* day to an unsigned number).
UnitsContainObject ==
    ~stale =>
        /\ SkipsWholeDates(zdt.tz) =>
            \A i \in DOMAIN day_length(zdt) : day_length(zdt)[i] >= Ticks
        /\ \A u \in Units : Regular(u) =>
            /\ start_of(zdt, u).ok => InstantTicks(start_of(zdt, u)) <= ThisInstant
            /\ end_of(zdt, u).ok => InstantTicks(end_of(zdt, u)) >= ThisInstant

\* The nanosecond after the end of a unit is the start of one: end_of
\* "seamlessly lines up with the next start".  Hours and shorter units do too,
\* unless a fold takes longer than the unit and is no whole number of them.
BoundariesLineUp ==
    ~stale => \A u \in Units :
        LET e == end_of(zdt, u)
            n == ShiftInstant(zdt.tz, e.secs - e.offset, e.subsec, 0, 1)
        IN  /\ e.ok /\ n.ok
            /\ \/ u \in DateUnits /\ SkipsWholeDates(zdt.tz)
               \/ /\ u \in TimeUnits
                  /\ \A i \in DOMAIN zdt.tz.local :
                        LET c == zdt.tz.local[i].change IN c >= -u \/ c % u = 0
            => start_of(AsObject(n), u) = n

\* The objects of a zone at whole seconds.
ObjectsIn(tz) ==
    {[zdt EXCEPT !.secs = r.secs, !.subsec = r.subsec, !.offset = r.offset] :
        r \in {q \in {to_offset_in(tz, epoch, 0) : epoch \in Epochs} : q.ok}}

\* No fold contains a midnight (as those of St. John's did until 2011): the
\* date never steps back.
DatesInOrder(tz) ==
    \A i \in DOMAIN tz.local :
        LET l == tz.local[i] IN
        l.change < 0 => Midnight(l.at - 1) = Midnight(l.at + l.change)

\* A difference in days or weeks and exact time leads back: added to the other
\* object it gives this one, to the nanosecond and on the right side of a fold.
\* Where the date never steps back, both parts point the same way, and unless
\* the next day is skipped, it would lead beyond this object and a total in days
\* has a fraction below one ("num/denom ratio is always positive").  The units and
\* the total of the elapsed TimeDelta relative to the other object are the same.
ZonedDifferenceAddsBack ==
    ~stale => \A b \in ObjectsIn(zdt.tz), units \in {{}, {DayLen}, {DayLen, 2 * DayLen}} :
        LET r == zoned_since(zdt, b, units, 1, "trunc", 1)
            neg == ThisInstant < InstantTicks(b)
            day == Midnight(b.secs) + r.days + Step(DayLen, neg)
            next == with_date(b, day)
            total == zoned_since_total(zdt, b, DayLen)
            n == ThisInstant - InstantTicks(b)
            again == timedelta_in_units(n, b, units, 1, "trunc", 1)
            elapsed == timedelta_total(n, b, DayLen)
            inverted == Step(total.num, neg) < 0 \/ Step(total.num, neg) >= Step(total.denom, neg)
        IN  r.ok =>
                /\ shift(b, r.days \div DayLen, r.exact \div Ticks, r.exact % Ticks, NoDis)
                      = Ok(zdt.secs, zdt.subsec, zdt.offset)
                /\ again.ok => again = r
                /\ DatesInOrder(zdt.tz) =>
                     /\ IF neg THEN r.days <= 0 /\ r.exact <= 0 ELSE r.days >= 0 /\ r.exact >= 0
                     /\ units # {} /\ next.ok /\ Midnight(next.secs) = day =>
                          /\ IF neg THEN InstantTicks(next) < ThisInstant
                                    ELSE InstantTicks(next) > ThisInstant
                          /\ units = {DayLen} => total.ok /\ ~inverted
                     /\ units = {DayLen} /\ elapsed.ok =>
                          /\ elapsed.whole = Step(total.whole, neg) /\ elapsed.num = Step(total.num, neg)
                          /\ elapsed.denom = total.denom
=============================================================================
