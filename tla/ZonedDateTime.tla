--------------------------- MODULE ZonedDateTime ---------------------------
(***************************************************************************)
(* The ZonedDateTime class (src/classes/zoned_datetime.rs over             *)
(* src/domain/zoned_datetime.rs): one object that a program keeps          *)
(* replacing by the result of a method called on it.                       *)
(*                                                                         *)
(* An object holds its local time (whole seconds and a sub-second part),   *)
(* the UTC offset chosen for it, and the zone it was made with.  The zone  *)
(* of a TZ ID can change under the program (new tz data and a cleared      *)
(* cache), and pickles outlive such a change.                              *)
(***************************************************************************)
EXTENDS TimeZone

CONSTANTS
    DayLen,      \* seconds in a day
    Ticks,       \* nanoseconds in a second
    Keys,        \* TZ IDs
    Zones,       \* the definitions that a TZ ID may have
    TimeUnits,   \* seconds in an hour, a minute, a second: divide DayLen
    DateUnits,   \* seconds in a day, a week...: multiples of DayLen
    Increments,  \* rounding increments in nanoseconds: divide a day
    ShiftSecs,   \* the seconds, and
    ShiftDays,   \* the days that add() and subtract() are given
    Pickling     \* whether objects are pickled, and zones change meanwhile

ASSUME ZonesAssumption == \A tz \in Zones : WellFormed(tz)

\* The range of time is made of whole days, and a day of whole hours, minutes...
WholeUnits(u) == \A s \in Epochs : s - ((s - EpochMin) % u) + u - 1 \in Epochs

ASSUME UnitsAssumption ==
    /\ Ticks \in Nat \ {0}
    /\ DayLen \in Nat /\ OffsetMax < DayLen
    /\ \A u \in TimeUnits \cup {DayLen} : u \in Nat \ {0} /\ WholeUnits(u)
    /\ \A u \in DateUnits : u \in Nat /\ u >= DayLen /\ u \notin TimeUnits
    /\ Increments \subseteq Nat \ {0}
    /\ ShiftSecs \subseteq Int /\ ShiftDays \subseteq Int

VARIABLES
    zdt,         \* the object: [secs, subsec, offset, key, tz]
    db,          \* the zone that the store gives for each TZ ID
    pickled,     \* <<>> or <<p>>: what __reduce__ last produced, and its zone
    stale,       \* the object was unpickled into a zone other than its own
    outcome      \* of the last call: "ok", "none" or the error
vars == <<zdt, db, pickled, stale, outcome>>

Subsecs == 0 .. Ticks - 1
Modes == {"floor", "ceil", "trunc", "expand", "half_floor", "half_ceil",
          "half_even", "half_trunc", "half_expand"}
NoDis == "default"

to_instant(z) == z.secs - z.offset
Ticked(secs, subsec) == secs * Ticks + subsec
InstantTicks(r) == Ticked(r.secs - r.offset, r.subsec)
Midnight(secs) == secs - ((secs - EpochMin) % DayLen)

resolve_compatible(tz, secs, subsec) == resolve_in(tz, secs, subsec, Disambiguate("compatible"))
resolve_preserving_offset(tz, secs, subsec, offset) ==
    resolve_in(tz, secs, subsec, PreserveOffset(offset))

\* The policy of a method whose disambiguate argument is optional.
PolicyOr(dis, offset) == IF dis = NoDis THEN PreserveOffset(offset) ELSE Disambiguate(dis)

-----------------------------------------------------------------------------
(***************************************************************************)
(* What the methods compute.                                               *)
(***************************************************************************)

\* Instant::shift, and back into the zone.  The whole seconds must be in range
\* also before the carry of the sub-second parts is added.
ShiftInstant(tz, epoch, subsec, dsecs, dsubsec) ==
    LET carry == (subsec + dsubsec) \div Ticks IN
    IF epoch + dsecs \in Epochs /\ epoch + dsecs + carry \in Epochs
    THEN to_offset_in(tz, epoch + dsecs + carry, (subsec + dsubsec) % Ticks)
    ELSE Err("range")

\* ZonedDateTime::shift: the calendar part first, at the local time, and then
\* the exact part, on the instant.
shift(z, days, secs, subsec, dis) ==
    LET moved == z.secs + days * DayLen
        base == IF days = 0 THEN Ok(z.secs, z.subsec, z.offset)
                ELSE IF moved \notin Epochs THEN Err("range")
                ELSE resolve_in(z.tz, moved, z.subsec, PolicyOr(dis, z.offset))
    IN  IF base.ok THEN ShiftInstant(z.tz, base.secs - base.offset, base.subsec, secs, subsec)
                   ELSE base

UnitStart(z, unit) == z.secs - ((z.secs - EpochMin) % unit)

StartOfTimeLater(z, unit) ==     \* mutant: a fold always takes the later offset
    LET start == UnitStart(z, unit)
        m == mapping_for_local(z.tz, start)
    IN  CASE m.kind = "unique" -> assume_offset(start, 0, m.offset)
          [] m.kind = "fold" -> assume_offset(start, 0, m.after)
          [] m.kind = "gap" -> assume_offset(m.transition, 0, m.after)
          [] m.kind = "panic" -> Err("panic")

StartOfTime(z, unit) ==
    LET start == UnitStart(z, unit)
        m == mapping_for_local(z.tz, start)
    IN  CASE m.kind = "unique" -> assume_offset(start, 0, m.offset)
          [] m.kind = "fold" ->
                assume_offset(start, 0, IF m.after = z.offset THEN m.after ELSE m.before)
          [] m.kind = "gap" -> assume_offset(m.transition, 0, m.after)
          [] m.kind = "panic" -> Err("panic")

start_of(z, unit) ==
    IF unit \in TimeUnits THEN StartOfTime(z, unit)
    ELSE resolve_compatible(z.tz, UnitStart(z, unit), 0)

EndOfTimeNoOverlap(z, unit) ==     \* mutant: a unit that the fold repeats in part ends twice
    LET end == UnitStart(z, unit) + unit - 1
        m == mapping_for_local(z.tz, end)
    IN  CASE m.kind = "unique" -> assume_offset(end, Ticks - 1, m.offset)
          [] m.kind = "fold" ->
                assume_offset(end, Ticks - 1, IF m.after = z.offset THEN m.after ELSE m.before)
          [] m.kind = "gap" ->
                assume_offset(clamp(m.transition - (m.after - m.before) - 1), Ticks - 1, m.before)
          [] m.kind = "panic" -> Err("panic")

EndOfTime(z, unit) ==
    LET end == UnitStart(z, unit) + unit - 1
        m == mapping_for_local(z.tz, end)
        useAfter == \/ m.after = z.offset
                    \/ end + 1 = m.transition /\ m.before - m.after < unit
    IN  CASE m.kind = "unique" -> assume_offset(end, Ticks - 1, m.offset)
          [] m.kind = "fold" ->
                assume_offset(end, Ticks - 1, IF useAfter THEN m.after ELSE m.before)
          [] m.kind = "gap" ->
                assume_offset(clamp(m.transition - (m.after - m.before) - 1), Ticks - 1, m.before)
          [] m.kind = "panic" -> Err("panic")

EndOfDateThisUnit(z, unit) ==     \* mutant: back from the start of this unit
    LET next == UnitStart(z, unit)
        r == resolve_compatible(z.tz, next, 0)
    IN  IF next \notin Epochs THEN Err("range")
        ELSE IF ~r.ok THEN r
        ELSE IF r.secs - r.offset - 1 \notin Epochs THEN Err("panic")
        ELSE to_offset_in(z.tz, r.secs - r.offset - 1, Ticks - 1)

\* The start of the next unit, one nanosecond back; the step back is unwrapped.
EndOfDate(z, unit) ==
    LET next == UnitStart(z, unit) + unit
        r == resolve_compatible(z.tz, next, 0)
    IN  IF next \notin Epochs THEN Err("range")
        ELSE IF ~r.ok THEN r
        ELSE IF r.secs - r.offset - 1 \notin Epochs THEN Err("panic")
        ELSE to_offset_in(z.tz, r.secs - r.offset - 1, Ticks - 1)

end_of(z, unit) == IF unit \in TimeUnits THEN EndOfTime(z, unit) ELSE EndOfDate(z, unit)

\* replace: kwargs is the sequence of the keyword arguments tz and disambiguate
\* in the order of the call.  A tz other than the object's own (another TZ ID,
\* or another definition of it) sets the disambiguation to "compatible" on the
\* spot.
ReplaceDis(z, kwargs, lookup) ==
    LET writes == {i \in DOMAIN kwargs :
                    \/ kwargs[i].arg = "disambiguate"
                    \/ <<kwargs[i].val, lookup[kwargs[i].val]>> # <<z.key, z.tz>>}
        final == CHOOSE i \in writes : \A j \in writes : j <= i
    IN  IF writes = {} THEN NoDis
        ELSE IF kwargs[final].arg = "disambiguate" THEN kwargs[final].val
        ELSE "compatible"

ReplaceKey(z, kwargs) ==
    LET tz == {i \in DOMAIN kwargs : kwargs[i].arg = "tz"} IN
    IF tz = {} THEN z.key ELSE kwargs[CHOOSE i \in tz : TRUE].val

ReplaceTz(z, kwargs, lookup) ==
    IF \E i \in DOMAIN kwargs : kwargs[i].arg = "tz" THEN lookup[ReplaceKey(z, kwargs)] ELSE z.tz

replace(z, secs, subsec, kwargs, lookup) ==
    resolve_in(ReplaceTz(z, kwargs, lookup), secs, subsec,
               PolicyOr(ReplaceDis(z, kwargs, lookup), z.offset))

ParseInGap(tz, secs, subsec, offset) ==     \* mutant: the offsets around a gap pass as well
    LET m == mapping_for_local(tz, secs) IN
    IF \/ m.kind = "unique" /\ m.offset = offset
       \/ m.kind # "unique" /\ offset \in {m.before, m.after}
    THEN assume_offset(secs, subsec, offset)
    ELSE Err("invalid_offset")

\* parse_iso, and parse with a pattern that has an offset field: an offset in
\* the text must be one the zone has at that local time.
ParseWithOffset(tz, secs, subsec, offset) ==
    LET m == mapping_for_local(tz, secs) IN
    IF \/ m.kind = "unique" /\ m.offset = offset
       \/ m.kind = "fold" /\ offset \in {m.before, m.after}
    THEN assume_offset(secs, subsec, offset)
    ELSE Err("invalid_offset")

\* OffsetDateTime.assume_tz: what becomes of an offset that the zone does not
\* have at that instant.
OffsetMismatch == {"raise", "keep_instant", "keep_local"}

assume_tz(tz, secs, subsec, offset, mismatch) ==
    IF mismatch = "keep_instant" \/ offset_for_instant(tz, secs - offset) = offset
    THEN to_offset_in(tz, secs - offset, subsec)
    ELSE IF mismatch = "raise" THEN Err("invalid_offset")
    ELSE resolve_compatible(tz, secs, subsec)

\* Time::round: the nanoseconds of the day rounded, possibly up to a full day.
RoundThreshold(mode, inc, quotient) ==
    CASE mode = "half_even" -> Larger(1, inc \div 2 + (IF quotient % 2 = 0 THEN 1 ELSE 0))
      [] mode \in {"ceil", "expand"} -> 1
      [] mode \in {"floor", "trunc"} -> inc + 1
      [] mode \in {"half_floor", "half_trunc"} -> inc \div 2 + 1
      [] mode \in {"half_ceil", "half_expand"} -> Larger(1, inc \div 2)

RoundTime(total, inc, mode) ==
    LET quotient == total \div inc
        up == total % inc >= RoundThreshold(mode, inc, quotient)
    IN  (IF up THEN quotient + 1 ELSE quotient) * inc

TimeTicks(z) == Ticked(z.secs - Midnight(z.secs), z.subsec)

RoundExact(z, inc, mode) ==
    LET total == RoundTime(TimeTicks(z), inc, mode)
        secs == Midnight(z.secs) + total \div Ticks
    IN  IF secs \notin Epochs THEN Err("range")
        ELSE resolve_preserving_offset(z.tz, secs, total % Ticks, z.offset)

\* round_day: by the length that this day has in this zone.
round_day(z, mode) ==
    LET floor == resolve_compatible(z.tz, Midnight(z.secs), 0)
        next == Midnight(z.secs) + DayLen
        ceil == IF next \in Epochs THEN resolve_compatible(z.tz, next, 0) ELSE Err("range")
        time == TimeTicks(z)
        day == InstantTicks(ceil) - InstantTicks(floor)
        threshold == CASE mode = "half_even" -> day \div 2 + (IF time % 2 = 0 THEN 1 ELSE 0)
                       [] mode \in {"half_floor", "half_trunc"} -> day \div 2 + 1
                       [] mode \in {"half_ceil", "half_expand"} -> day \div 2
    IN  CASE mode \in {"ceil", "expand"} ->
                IF time = 0 THEN Ok(z.secs, z.subsec, z.offset) ELSE ceil
          [] mode \in {"floor", "trunc"} -> floor
          [] OTHER -> IF ~floor.ok THEN floor
                      ELSE IF ~ceil.ok THEN ceil
                      ELSE IF time >= threshold THEN ceil ELSE floor

\* A transition of the zone as an object; the instant is taken in whole seconds.
TransitionObject(tz, i) ==
    IF tz.utc[i].at + tz.utc[i].offset \in Epochs
    THEN Ok(tz.utc[i].at + tz.utc[i].offset, 0, tz.utc[i].offset)
    ELSE Err("range")

day_length(z) ==
    LET next == Midnight(z.secs) + DayLen
        today == resolve_compatible(z.tz, Midnight(z.secs), 0)
        tomorrow == resolve_compatible(z.tz, next, 0)
    IN  IF next \in Epochs /\ today.ok /\ tomorrow.ok
        THEN <<InstantTicks(tomorrow) - InstantTicks(today)>> ELSE <<>>

\* datetime.timestamp() of the standard library: the offset at either side of a
\* transition, also for a time inside a gap.
TimestampIn(tz, secs, fold) ==
    LET m == mapping_for_local(tz, secs) IN
    secs - (IF m.kind = "unique" THEN m.offset
            ELSE IF fold = "earlier" THEN m.before ELSE m.after)

-----------------------------------------------------------------------------
(***************************************************************************)
(* The methods as steps.                                                   *)
(***************************************************************************)
Return(r, key, tz) ==
    /\ zdt' = IF r.ok THEN [secs |-> r.secs, subsec |-> r.subsec, offset |-> r.offset,
                            key |-> key, tz |-> tz]
                      ELSE zdt
    /\ stale' = (stale /\ zdt' = zdt)
    /\ outcome' = IF r.ok THEN "ok" ELSE r.err
    /\ UNCHANGED <<db, pickled>>

ReturnNone ==
    /\ outcome' = "none"
    /\ UNCHANGED <<zdt, db, pickled, stale>>

Init ==
    /\ db \in [Keys -> Zones]
    /\ \E key \in Keys, epoch \in Epochs, subsec \in Subsecs :
        LET r == to_offset_in(db[key], epoch, subsec) IN
        /\ r.ok
        /\ zdt = [secs |-> r.secs, subsec |-> r.subsec, offset |-> r.offset,
                  key |-> key, tz |-> db[key]]
    /\ pickled = <<>>
    /\ stale = FALSE
    /\ outcome = "ok"

\* __new__; its default disambiguation is "compatible".
New ==
    \E key \in Keys, secs \in Epochs, subsec \in Subsecs, dis \in Disambiguation :
        Return(resolve_in(db[key], secs, subsec, Disambiguate(dis)), key, db[key])

\* The same in the system timezone, which may be any zone.
FromSystemTz ==
    \E key \in Keys, secs \in Epochs, subsec \in Subsecs, dis \in Disambiguation :
        Return(resolve_in(db[key], secs, subsec, Disambiguate(dis)), key, db[key])

\* from_timestamp, from_timestamp_millis and from_timestamp_nanos
FromTimestamp ==
    \E key \in Keys, epoch \in Epochs, subsec \in Subsecs :
        Return(to_offset_in(db[key], epoch, subsec), key, db[key])

\* now and now_in_system_tz: any instant that the clock or its patch may show
Now ==
    \E key \in Keys, epoch \in Epochs, subsec \in Subsecs :
        Return(to_offset_in(db[key], epoch, subsec), key, db[key])

\* The whole seconds of datetime.timestamp(): far from 1970 the float has no digit
\* left for the last microseconds of a second, and rounds up to the next one.
FloatSeconds(epoch, subsec) ==
    IF subsec > 0 /\ subsec = Ticks - 1 THEN {epoch, epoch + 1} ELSE {epoch}

\* A datetime with a ZoneInfo goes by its timestamp, not by its local time or
\* fold: the definition that zoneinfo has of the zone may be another one.
FromPyDatetime ==
    \E key \in Keys, theirs \in Zones, secs \in Epochs, subsec \in Subsecs,
       fold \in {"earlier", "later"} :
       \E epoch \in FloatSeconds(TimestampIn(theirs, secs, fold), subsec) :
        Return(IF epoch \in Epochs THEN to_offset_in(db[key], epoch, subsec) ELSE Err("range"),
               key, db[key])

ParseIsoOffset ==
    \E key \in Keys, secs \in Epochs, subsec \in Subsecs, offset \in Offsets :
        Return(ParseWithOffset(db[key], secs, subsec, offset), key, db[key])

\* A trailing Z: the local time is that of UTC.
ParseIsoZ ==
    \E key \in Keys, secs \in Epochs, subsec \in Subsecs :
        Return(to_offset_in(db[key], secs, subsec), key, db[key])

ParseIsoMissing ==
    \E key \in Keys, secs \in Epochs, subsec \in Subsecs :
        Return(resolve_compatible(db[key], secs, subsec), key, db[key])

\* parse with a pattern: an offset field must fit, or else disambiguate decides.
Parse ==
    \E key \in Keys, secs \in Epochs, subsec \in Subsecs :
        \/ \E offset \in Offsets :
            Return(ParseWithOffset(db[key], secs, subsec, offset), key, db[key])
        \/ \E dis \in Disambiguation :
            Return(resolve_in(db[key], secs, subsec, Disambiguate(dis)), key, db[key])

\* From an OffsetDateTime, whose instant is in range.
AssumeTz ==
    \E key \in Keys, secs \in Epochs, subsec \in Subsecs, offset \in Offsets,
       mismatch \in OffsetMismatch :
        /\ secs - offset \in Epochs
        /\ Return(assume_tz(db[key], secs, subsec, offset, mismatch), key, db[key])

\* to_tz and to_system_tz
ToTz ==
    \E key \in Keys :
        Return(to_offset_in(db[key], to_instant(zdt), zdt.subsec), key, db[key])

\* add, subtract and the operators + and -
Shift ==
    \E days \in ShiftDays, secs \in ShiftSecs, subsec \in Subsecs,
       dis \in Disambiguation \cup {NoDis} :
        Return(shift(zdt, days, secs, subsec, dis), zdt.key, zdt.tz)

StartOf ==
    \E unit \in TimeUnits \cup DateUnits : Return(start_of(zdt, unit), zdt.key, zdt.tz)

\* The deprecated start_of_day
StartOfDay == Return(resolve_compatible(zdt.tz, UnitStart(zdt, DayLen), 0), zdt.key, zdt.tz)

EndOf ==
    \E unit \in TimeUnits \cup DateUnits : Return(end_of(zdt, unit), zdt.key, zdt.tz)

ReplaceDate ==
    \E day \in Epochs, dis \in Disambiguation \cup {NoDis} :
        /\ day = Midnight(day)
        /\ Return(resolve_in(zdt.tz, day + (zdt.secs - Midnight(zdt.secs)), zdt.subsec,
                             PolicyOr(dis, zdt.offset)), zdt.key, zdt.tz)

ReplaceTime ==
    \E secs \in Epochs, subsec \in Subsecs, dis \in Disambiguation \cup {NoDis} :
        /\ Midnight(secs) = Midnight(zdt.secs)
        /\ Return(resolve_in(zdt.tz, secs, subsec, PolicyOr(dis, zdt.offset)), zdt.key, zdt.tz)

Kwargs ==
    LET tz == [arg : {"tz"}, val : Keys]
        dis == [arg : {"disambiguate"}, val : Disambiguation]
    IN  {<<>>} \cup {<<a>> : a \in tz \cup dis}
        \cup {<<a, b>> : a \in tz, b \in dis} \cup {<<a, b>> : a \in dis, b \in tz}

Replace ==
    \E secs \in Epochs, subsec \in Subsecs, kwargs \in Kwargs :
        Return(replace(zdt, secs, subsec, kwargs, db),
               ReplaceKey(zdt, kwargs), ReplaceTz(zdt, kwargs, db))

Round ==
    \/ \E mode \in Modes : Return(round_day(zdt, mode), zdt.key, zdt.tz)
    \/ \E mode \in Modes, inc \in Increments :
            Return(RoundExact(zdt, inc, mode), zdt.key, zdt.tz)

NextTransition ==
    LET i == next_transition(zdt.tz, to_instant(zdt)) IN
    IF i = Past(zdt.tz.utc) THEN ReturnNone
    ELSE Return(TransitionObject(zdt.tz, i), zdt.key, zdt.tz)

PrevTransition ==
    LET i == prev_transition(zdt.tz, to_instant(zdt)) IN
    IF i = 1 THEN ReturnNone
    ELSE Return(TransitionObject(zdt.tz, i), zdt.key, zdt.tz)

\* __reduce__; the zone and staleness are remembered for the properties only.
Reduce ==
    /\ Pickling
    /\ pickled' = <<[z |-> zdt, stale |-> stale]>>
    /\ UNCHANGED <<zdt, db, stale, outcome>>

\* unpickle puts the offset of the pickle into the zone of today, unchecked.
Unpickle ==
    /\ pickled # <<>>
    /\ LET p == pickled[1].z IN
        /\ zdt' = [p EXCEPT !.tz = db[p.key]]
        /\ stale' = (pickled[1].stale \/ db[p.key] # p.tz)
    /\ outcome' = "ok"
    /\ UNCHANGED <<db, pickled>>

\* The environment: new tz data and clear_tzcache().
UpdateTzdata ==
    /\ Pickling
    /\ \E key \in Keys, tz \in Zones : db' = [db EXCEPT ![key] = tz]
    /\ UNCHANGED <<zdt, pickled, stale, outcome>>

Next ==
    \/ New \/ FromSystemTz \/ FromTimestamp \/ Now \/ FromPyDatetime
    \/ ParseIsoOffset \/ ParseIsoZ \/ ParseIsoMissing \/ Parse
    \/ AssumeTz \/ ToTz \/ Shift \/ StartOf \/ StartOfDay \/ EndOf \/ ReplaceDate \/ ReplaceTime \/ Replace
    \/ Round \/ NextTransition \/ PrevTransition
    \/ Reduce \/ Unpickle \/ UpdateTzdata

Spec == Init /\ [][Next]_vars

-----------------------------------------------------------------------------
Objects == [secs : Epochs, subsec : Subsecs, offset : Offsets, key : Keys, tz : Zones]

\* The object is in range, its instant as well (to_instant unwraps that), and
\* so is a pickled one.
TypeOK ==
    /\ zdt \in Objects /\ to_instant(zdt) \in Epochs
    /\ db \in [Keys -> Zones]
    /\ \/ pickled = <<>>
       \/ \E z \in Objects, old \in BOOLEAN :
            pickled = <<[z |-> z, stale |-> old]>> /\ to_instant(z) \in Epochs
    /\ stale \in BOOLEAN

\* The offset of an object is the one its zone has at its instant, however the
\* object was computed; only a pickle that outlived a change of its zone can
\* bring in another one, and the first method that resolves anew repairs it.
OffsetIsValid == ~stale => ValidIn(zdt.tz, zdt.secs, zdt.offset)

\* No step back of one nanosecond and no lookup is unwrapped in vain.
NothingPanics == outcome # "panic"
=============================================================================
