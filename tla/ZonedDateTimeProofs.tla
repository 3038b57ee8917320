------------------------ MODULE ZonedDateTimeProofs ------------------------
(***************************************************************************)
(* In any set of well-formed zones, with any TZ IDs and any range of time: *)
(* every object a program can compute has the offset that its zone has at  *)
(* its instant, and no method panics.  A unit (hour, day, week) contains   *)
(* the object it is the unit of (UnitsAlwaysContainObject), and the next   *)
(* one begins where it ends (BoundariesAlwaysLineUp).                      *)
(*                                                                         *)
(* At the end, the loop of bisect on any sorted table, and what a zone     *)
(* loaded from a sane TZif file answers.                                   *)
(***************************************************************************)
EXTENDS MCZonedDateTime, MCTimeZone, TimeZoneProofs

\* What a method may return in zone tz.
Fine(tz, r) == Sound(tz, r) /\ (r.ok => r.subsec \in Subsecs)

\* The result is the object itself.
IsSelf(r) == r = Ok(zdt.secs, zdt.subsec, zdt.offset)

\* A pickle made from an object that was not stale is valid in the zone it was
\* made in: what Unpickle needs to know when that zone is still the current one.
PickleIsValid ==
    pickled # <<>> => LET p == pickled[1] IN
                      ~p.stale => ValidIn(p.z.tz, p.z.secs, p.z.offset)

IndInv == TypeOK /\ OffsetIsValid /\ PickleIsValid /\ NothingPanics

-----------------------------------------------------------------------------
LEMMA Arithmetic ==
    /\ Epochs \subseteq Int /\ Offsets \subseteq Int
    /\ Ticks \in Nat \ {0} /\ DayLen \in Nat \ {0} /\ 0 \in Subsecs /\ Ticks - 1 \in Subsecs
    /\ \A x1 \in Int : x1 % Ticks \in Subsecs
BY RangeAssumption, UnitsAssumption DEF Epochs, Offsets, Subsecs

\* The start of a unit is not after s, and in range.
LEMMA UnitBounds ==
    ASSUME NEW s \in Epochs, NEW u \in Nat \ {0}
    PROVE  LET b == s - ((s - EpochMin) % u) IN b \in Epochs /\ b <= s /\ s < b + u
<1>1. s \in Int /\ s - EpochMin \in Nat
  BY RangeAssumption DEF Epochs
<1> DEFINE k == s - EpochMin
           d == k % u
<1>2. d \in 0 .. u - 1 /\ d <= k
  <2> HIDE DEF k
  <2>1. k % u \in 0 .. u - 1 /\ k % u <= k
    BY <1>1 DEF k
  <2> QED
    BY <2>1
<1> HIDE DEF d
<1> QED
  BY <1>1, <1>2, RangeAssumption DEF Epochs, d

\* resolve_in with a sub-second part in range.
LEMMA ResolveFine ==
    ASSUME NEW tz \in Zones, NEW l \in Epochs, NEW subsec \in Subsecs,
           NEW policy, policy.kind \in PolicyKinds
    PROVE  Fine(tz, resolve_in(tz, l, subsec, policy))
BY ZonesAssumption, ResolveSound DEF Fine

LEMMA PolicyOrKind ==
    ASSUME NEW dis \in Disambiguation \cup {NoDis}, NEW o
    PROVE  PolicyOr(dis, o).kind \in PolicyKinds
BY DEF PolicyOr, PreserveOffset, Disambiguate, PolicyKinds, Disambiguation, NoDis

LEMMA DisambiguateKind ==
    ASSUME NEW dis \in Disambiguation
    PROVE  Disambiguate(dis).kind \in PolicyKinds
BY DEF Disambiguate, PolicyKinds

LEMMA ToOffsetFine ==
    ASSUME NEW tz \in Zones, NEW t \in Epochs, NEW subsec \in Subsecs
    PROVE  Fine(tz, to_offset_in(tz, t, subsec))
BY ZonesAssumption, ToOffsetSound DEF Fine

LEMMA ErrFine ==
    ASSUME NEW tz, NEW e, e # "panic"
    PROVE  Fine(tz, Err(e))
BY DEF Fine, Sound, Err

LEMMA AssumeFine ==
    ASSUME NEW tz, NEW l \in Epochs, NEW subsec \in Subsecs, NEW o, ValidAt(tz, l, o)
    PROVE  Fine(tz, assume_offset(l, subsec, o))
BY AssumeOffsetSound DEF Fine, assume_offset, Ok, Err

\* A step that returns r keeps the invariant.
LEMMA ReturnKeepsInv ==
    ASSUME IndInv, NEW r, NEW key \in Keys, NEW tz \in Zones,
           Return(r, key, tz),
           \/ Fine(tz, r)
           \/ IsSelf(r) /\ key = zdt.key /\ tz = zdt.tz
    PROVE  IndInv'
<1>1. db \in [Keys -> Zones] /\ db' = db /\ pickled' = pickled /\ stale \in BOOLEAN
  BY DEF IndInv, TypeOK, Return
<1>2. PickleIsValid'
  BY <1>1 DEF IndInv, PickleIsValid
<1>3. zdt \in Objects /\ to_instant(zdt) \in Epochs
  BY DEF IndInv, TypeOK
<1>4. ASSUME zdt' \in Objects, to_instant(zdt') \in Epochs PROVE TypeOK'
  <2>1. stale' \in BOOLEAN
    BY DEF Return
  <2> QED
    BY <1>1, <1>4, <2>1 DEF IndInv, TypeOK, to_instant
\* An error leaves the object as it is, and so does a result that is equal to it.
<1>5. ASSUME zdt' = zdt, outcome' # "panic" PROVE IndInv'
  <2>1. stale' = stale
    BY <1>1, <1>5 DEF Return
  <2>2. TypeOK'
    BY <1>3, <1>4, <1>5
  <2> QED
    BY <1>2, <1>5, <2>1, <2>2 DEF IndInv, OffsetIsValid, NothingPanics
<1>6. CASE Fine(tz, r) /\ ~r.ok
  BY <1>5, <1>6 DEF Return, Fine, Sound
<1>7. CASE Fine(tz, r) /\ r.ok
  <2>1. zdt' = [secs |-> r.secs, subsec |-> r.subsec, offset |-> r.offset, key |-> key, tz |-> tz]
        /\ outcome' = "ok"
    BY <1>7 DEF Return
  <2>2. /\ r.secs \in Epochs /\ r.subsec \in Subsecs /\ r.offset \in Offsets
        /\ r.secs - r.offset \in Epochs /\ ValidIn(tz, r.secs, r.offset)
    BY <1>7 DEF Fine, Sound, ValidIn
  <2>3. TypeOK'
    BY <1>4, <2>1, <2>2 DEF Objects, to_instant
  <2>4. OffsetIsValid'
    BY <2>1, <2>2 DEF OffsetIsValid
  <2> QED
    BY <1>2, <2>1, <2>3, <2>4 DEF IndInv, NothingPanics
<1>8. CASE IsSelf(r) /\ key = zdt.key /\ tz = zdt.tz
  <2>1. r.ok /\ r.secs = zdt.secs /\ r.subsec = zdt.subsec /\ r.offset = zdt.offset
    BY <1>8 DEF IsSelf, Ok
  <2>2. zdt' = zdt
    BY <1>3, <1>8, <2>1 DEF Return, Objects
  <2> QED
    BY <1>5, <2>1, <2>2 DEF Return
<1> QED
  BY <1>6, <1>7, <1>8 DEF Fine, Sound

-----------------------------------------------------------------------------
(***************************************************************************)
(* Each method, for an object z that satisfies the type invariant.         *)
(***************************************************************************)
LEMMA ObjectFacts ==
    ASSUME NEW z \in Objects
    PROVE  z.secs \in Epochs /\ z.subsec \in Subsecs /\ z.offset \in Offsets
           /\ z.key \in Keys /\ z.tz \in Zones
BY DEF Objects

LEMMA ShiftInstantFine ==
    ASSUME NEW tz \in Zones, NEW t, NEW subsec \in Subsecs, NEW dsecs, NEW dsubsec \in Subsecs
    PROVE  Fine(tz, ShiftInstant(tz, t, subsec, dsecs, dsubsec))
<1>1. (subsec + dsubsec) % Ticks \in Subsecs
  BY Arithmetic DEF Subsecs
<1> QED
  BY <1>1, ToOffsetFine, ErrFine DEF ShiftInstant

LEMMA ShiftFine ==
    ASSUME NEW z \in Objects, NEW days, NEW secs, NEW subsec \in Subsecs,
           NEW dis \in Disambiguation \cup {NoDis}
    PROVE  Fine(z.tz, shift(z, days, secs, subsec, dis))
<1> DEFINE moved == z.secs + days * DayLen
           base == IF days = 0 THEN Ok(z.secs, z.subsec, z.offset)
                   ELSE IF moved \notin Epochs THEN Err("range")
                   ELSE resolve_in(z.tz, moved, z.subsec, PolicyOr(dis, z.offset))
<1>1. z.tz \in Zones /\ z.subsec \in Subsecs
  BY ObjectFacts
<1>2. base.ok => base.subsec \in Subsecs
  <2>1. CASE days = 0
    BY <1>1, <2>1 DEF Ok
  <2>2. CASE days # 0 /\ moved \notin Epochs
    BY <2>2 DEF Err
  <2>3. CASE days # 0 /\ moved \in Epochs
    BY <1>1, <2>3, ResolveFine, PolicyOrKind DEF Fine
  <2> QED
    BY <2>1, <2>2, <2>3
<1>3. base.ok \/ Fine(z.tz, base)
  <2>1. CASE days = 0
    BY <2>1 DEF Ok
  <2>2. CASE days # 0 /\ moved \notin Epochs
    BY <2>2, ErrFine
  <2>3. CASE days # 0 /\ moved \in Epochs
    BY <1>1, <2>3, ResolveFine, PolicyOrKind
  <2> QED
    BY <2>1, <2>2, <2>3
<1>4. shift(z, days, secs, subsec, dis) =
        IF base.ok THEN ShiftInstant(z.tz, base.secs - base.offset, base.subsec, secs, subsec)
        ELSE base
  BY DEF shift
<1> HIDE DEF base
<1> QED
  BY <1>1, <1>2, <1>3, <1>4, ShiftInstantFine

\* The start and the end of an hour, minute or second.
LEMMA TimeUnitBounds ==
    ASSUME NEW z \in Objects, NEW u \in TimeUnits
    PROVE  UnitStart(z, u) \in Epochs /\ UnitStart(z, u) + u - 1 \in Epochs
<1>1. z.secs \in Epochs /\ u \in Nat \ {0} /\ WholeUnits(u)
  BY ObjectFacts, UnitsAssumption
<1> QED
  BY <1>1, UnitBounds DEF UnitStart, WholeUnits

LEMMA StartOfFine ==
    ASSUME NEW z \in Objects, NEW u \in TimeUnits \cup DateUnits
    PROVE  Fine(z.tz, start_of(z, u))
<1> DEFINE start == UnitStart(z, u)
           m == mapping_for_local(z.tz, start)
<1>1. z.tz \in Zones /\ 0 \in Subsecs
  BY ObjectFacts, Arithmetic
<1>2. CASE u \in TimeUnits
  <2>1. start \in Epochs /\ start \in Int
    BY <1>2, TimeUnitBounds, Arithmetic
  <2>2. MappingPromise(z.tz, m, start)
    BY <1>1, <2>1, ZonesAssumption, MappingKeepsPromise
  <2>3. start_of(z, u) =
            CASE m.kind = "unique" -> assume_offset(start, 0, m.offset)
              [] m.kind = "fold" ->
                    assume_offset(start, 0, IF m.after = z.offset THEN m.after ELSE m.before)
              [] m.kind = "gap" -> assume_offset(m.transition, 0, m.after)
              [] m.kind = "panic" -> Err("panic")
    BY <1>2 DEF start_of, StartOfTime
  <2> HIDE DEF m, start
  <2>4. CASE m.kind = "unique"
    BY <1>1, <2>1, <2>2, <2>3, <2>4, AssumeFine DEF MappingPromise
  <2>5. CASE m.kind = "fold"
    <3>1. \E o \in {m.before, m.after} : start_of(z, u) = assume_offset(start, 0, o)
      BY <2>3, <2>5
    <3>2. ValidAt(z.tz, start, m.before) /\ ValidAt(z.tz, start, m.after)
      BY <2>2, <2>5 DEF MappingPromise
    <3> QED
      BY <1>1, <2>1, <3>1, <3>2, AssumeFine
  <2>6. CASE m.kind = "gap"
    <3>1. m.transition \in Epochs /\ ValidAt(z.tz, m.transition, m.after)
      BY <2>2, <2>6 DEF MappingPromise
    <3> QED
      BY <1>1, <2>3, <2>6, <3>1, AssumeFine
  <2> QED
    BY <2>2, <2>4, <2>5, <2>6 DEF MappingPromise
<1>3. CASE u \notin TimeUnits
  <2>1. start \in Epochs
    <3>1. z.secs \in Epochs /\ u \in Nat \ {0}
      BY <1>3, ObjectFacts, UnitsAssumption, Arithmetic
    <3> QED
      BY <3>1, UnitBounds DEF UnitStart
  <2>2. "compatible" \in Disambiguation
    BY DEF Disambiguation
  <2>3. start_of(z, u) = resolve_in(z.tz, start, 0, Disambiguate("compatible"))
    BY <1>3 DEF start_of, resolve_compatible
  <2> HIDE DEF start
  <2> QED
    BY <1>1, <2>1, <2>2, <2>3, ResolveFine, DisambiguateKind
<1> QED
  BY <1>2, <1>3

LEMMA CompatibleFine ==
    ASSUME NEW tz \in Zones, NEW l \in Epochs
    PROVE  LET r == resolve_compatible(tz, l, 0) IN Fine(tz, r) /\ (r.ok => l <= r.secs)
<1>1. Disambiguate("compatible").kind = "compatible" /\ "compatible" \in PolicyKinds
  BY DEF Disambiguate, PolicyKinds, Disambiguation
<1> QED
  BY <1>1, ZonesAssumption, ResolveSound, Arithmetic DEF Fine, resolve_compatible

LEMMA EndOfTimeFine ==
    ASSUME NEW z \in Objects, NEW u \in TimeUnits
    PROVE  Fine(z.tz, EndOfTime(z, u))
<1> DEFINE end == UnitStart(z, u) + u - 1
           m == mapping_for_local(z.tz, end)
           useAfter == \/ m.after = z.offset
                       \/ end + 1 = m.transition /\ m.before - m.after < u
           last == m.transition - (m.after - m.before) - 1
<1>1. z.tz \in Zones /\ Ticks - 1 \in Subsecs
  BY ObjectFacts, Arithmetic
<1>2. end \in Epochs /\ end \in Int
  BY TimeUnitBounds, Arithmetic
<1>3. MappingPromise(z.tz, m, end)
  BY <1>1, <1>2, ZonesAssumption, MappingKeepsPromise
<1>4. EndOfTime(z, u) =
        CASE m.kind = "unique" -> assume_offset(end, Ticks - 1, m.offset)
          [] m.kind = "fold" ->
                assume_offset(end, Ticks - 1, IF useAfter THEN m.after ELSE m.before)
          [] m.kind = "gap" -> assume_offset(clamp(last), Ticks - 1, m.before)
          [] m.kind = "panic" -> Err("panic")
  BY DEF EndOfTime
<1> HIDE DEF m, end, useAfter
<1>5. CASE m.kind = "unique"
  BY <1>1, <1>2, <1>3, <1>4, <1>5, AssumeFine DEF MappingPromise
<1>6. CASE m.kind = "fold"
  <2>1. \E o \in {m.before, m.after} : EndOfTime(z, u) = assume_offset(end, Ticks - 1, o)
    BY <1>4, <1>6
  <2>2. ValidAt(z.tz, end, m.before) /\ ValidAt(z.tz, end, m.after)
    BY <1>3, <1>6 DEF MappingPromise
  <2> QED
    BY <1>1, <1>2, <2>1, <2>2, AssumeFine
<1>7. CASE m.kind = "gap"
  <2>1. clamp(last) = last /\ last \in Epochs /\ ValidAt(z.tz, last, m.before)
    BY <1>3, <1>7 DEF MappingPromise
  <2>2. EndOfTime(z, u) = assume_offset(clamp(last), Ticks - 1, m.before)
    BY <1>4, <1>7
  <2> HIDE DEF last
  <2> QED
    BY <1>1, <2>1, <2>2, AssumeFine
<1> QED
  BY <1>3, <1>5, <1>6, <1>7 DEF MappingPromise

\* The step back of one nanosecond stays in range: the start of the next unit
\* is at least a day after the start of time, and no offset is that large.
LEMMA EndOfDateFine ==
    ASSUME NEW z \in Objects, NEW u \in DateUnits
    PROVE  Fine(z.tz, EndOfDate(z, u))
<1> DEFINE next == UnitStart(z, u) + u
           r == resolve_compatible(z.tz, next, 0)
<1>1. z.tz \in Zones /\ Ticks - 1 \in Subsecs
  BY ObjectFacts, Arithmetic
<1>2. next \in Int /\ next >= EpochMin + DayLen
  <2>1. z.secs \in Epochs /\ u \in Nat \ {0} /\ u >= DayLen
    BY ObjectFacts, UnitsAssumption, Arithmetic
  <2>2. UnitStart(z, u) \in Epochs
    BY <2>1, UnitBounds DEF UnitStart
  <2>3. UnitStart(z, u) \in Int /\ EpochMin <= UnitStart(z, u) /\ DayLen \in Int /\ EpochMin \in Int
    BY <2>2, RangeAssumption, UnitsAssumption DEF Epochs
  <2> QED
    BY <2>1, <2>3
<1>3. EndOfDate(z, u) =
        IF next \notin Epochs THEN Err("range")
        ELSE IF ~r.ok THEN r
        ELSE IF r.secs - r.offset - 1 \notin Epochs THEN Err("panic")
        ELSE to_offset_in(z.tz, r.secs - r.offset - 1, Ticks - 1)
  BY DEF EndOfDate
<1>4. CASE next \notin Epochs
  BY <1>3, <1>4, ErrFine
<1>5. CASE next \in Epochs
  <2>1. Fine(z.tz, r) /\ (r.ok => next <= r.secs)
    BY <1>1, <1>5, CompatibleFine
  <2> HIDE DEF r, next
  <2>2. CASE ~r.ok
    BY <1>3, <1>5, <2>1, <2>2
  <2>3. CASE r.ok
    <3>1. /\ r.secs \in Int /\ r.offset \in Int /\ r.offset <= OffsetMax
          /\ r.secs - r.offset \in Epochs /\ next <= r.secs
      <4>1. r.offset \in Offsets /\ r.secs \in Epochs /\ r.secs - r.offset \in Epochs
        BY <2>1, <2>3 DEF Fine, Sound, ValidIn
      <4>2. r.offset \in Int /\ r.offset <= OffsetMax
        BY <4>1, RangeAssumption DEF Offsets
      <4>3. r.secs \in Int
        BY <4>1, Arithmetic
      <4> QED
        BY <2>1, <2>3, <4>1, <4>2, <4>3
    <3>2. r.secs - r.offset - 1 \in Epochs
      <4>1. OffsetMax < DayLen /\ OffsetMax \in Int /\ DayLen \in Int
            /\ EpochMin \in Int /\ EpochMax \in Int
        BY RangeAssumption, UnitsAssumption
      <4>2. r.secs - r.offset > EpochMin
        BY <1>2, <3>1, <4>1
      <4> QED
        BY <3>1, <4>1, <4>2 DEF Epochs
    <3> QED
      BY <1>1, <1>3, <1>5, <2>3, <3>2, ToOffsetFine
  <2> QED
    BY <2>2, <2>3
<1> QED
  BY <1>4, <1>5

LEMMA EndOfFine ==
    ASSUME NEW z \in Objects, NEW u \in TimeUnits \cup DateUnits
    PROVE  Fine(z.tz, end_of(z, u))
BY EndOfTimeFine, EndOfDateFine DEF end_of

LEMMA ParseFine ==
    ASSUME NEW tz \in Zones, NEW l \in Epochs, NEW subsec \in Subsecs, NEW o
    PROVE  Fine(tz, ParseWithOffset(tz, l, subsec, o))
<1> DEFINE m == mapping_for_local(tz, l)
<1>1. MappingPromise(tz, m, l)
  BY ZonesAssumption, MappingKeepsPromise, Arithmetic
<1>2. \/ /\ ParseWithOffset(tz, l, subsec, o) = assume_offset(l, subsec, o)
         /\ \/ m.kind = "unique" /\ m.offset = o
            \/ m.kind = "fold" /\ o \in {m.before, m.after}
      \/ ParseWithOffset(tz, l, subsec, o) = Err("invalid_offset")
  BY DEF ParseWithOffset
<1> HIDE DEF m
<1>3. ParseWithOffset(tz, l, subsec, o) = Err("invalid_offset") \/ ValidAt(tz, l, o)
  BY <1>1, <1>2 DEF MappingPromise
<1> QED
  BY <1>2, <1>3, AssumeFine, ErrFine

LEMMA RoundExactFine ==
    ASSUME NEW z \in Objects, NEW inc \in Increments, NEW mode \in Modes
    PROVE  Fine(z.tz, RoundExact(z, inc, mode))
<1> DEFINE total == RoundTime(TimeTicks(z), inc, mode)
           secs == Midnight(z.secs) + total \div Ticks
<1>1. z.tz \in Zones /\ z.secs \in Epochs /\ z.subsec \in Subsecs
  BY ObjectFacts
<1>2. total \in Int
  <2>1. Midnight(z.secs) \in Int /\ inc \in Nat \ {0}
    BY <1>1, UnitBounds, UnitsAssumption, Arithmetic DEF Midnight
  <2>2. TimeTicks(z) \in Int
    <3> DEFINE s == z.secs - Midnight(z.secs)
    <3>1. s \in Int /\ z.subsec \in Int /\ Ticks \in Int
      <4>1. z.secs \in Int /\ Ticks \in Int
        BY <1>1, RangeAssumption, UnitsAssumption DEF Epochs
      <4>2. z.subsec \in Int
        BY <1>1, <4>1 DEF Subsecs
      <4> QED
        BY <2>1, <4>1, <4>2
    <3> HIDE DEF s
    <3>2. s * Ticks \in Int
      BY <3>1
    <3> QED
      BY <3>1, <3>2 DEF TimeTicks, Ticked, s
  <2> DEFINE q == TimeTicks(z) \div inc
  <2>3. q \in Int /\ q + 1 \in Int
    BY <2>1, <2>2
  <2>4. total = q * inc \/ total = (q + 1) * inc
    BY DEF RoundTime
  <2> HIDE DEF q, total
  <2>5. q * inc \in Int /\ (q + 1) * inc \in Int
    BY <2>1, <2>3
  <2> QED
    BY <2>4, <2>5
<1>3. total % Ticks \in Subsecs
  BY <1>2, Arithmetic
<1>4. RoundExact(z, inc, mode) =
        IF secs \notin Epochs THEN Err("range")
        ELSE resolve_in(z.tz, secs, total % Ticks, PreserveOffset(z.offset))
  BY DEF RoundExact, resolve_preserving_offset
<1>5. PreserveOffset(z.offset).kind \in PolicyKinds
  BY DEF PreserveOffset, PolicyKinds
<1> HIDE DEF total, secs
<1> QED
  BY <1>1, <1>3, <1>4, <1>5, ResolveFine, ErrFine

\* A full day, if it was rounded up; the object itself, if it is at midnight.
LEMMA RoundDayFine ==
    ASSUME NEW z \in Objects, NEW mode \in Modes
    PROVE  \/ Fine(z.tz, round_day(z, mode))
           \/ round_day(z, mode) = Ok(z.secs, z.subsec, z.offset)
<1> DEFINE floor == resolve_compatible(z.tz, Midnight(z.secs), 0)
           next == Midnight(z.secs) + DayLen
           ceil == IF next \in Epochs THEN resolve_compatible(z.tz, next, 0) ELSE Err("range")
<1>1. z.tz \in Zones /\ Midnight(z.secs) \in Epochs
  BY ObjectFacts, UnitBounds, Arithmetic DEF Midnight
<1>2. Fine(z.tz, floor)
  BY <1>1, CompatibleFine
<1>3. Fine(z.tz, ceil)
  BY <1>1, CompatibleFine, ErrFine
<1>4. round_day(z, mode) \in {floor, ceil, Ok(z.secs, z.subsec, z.offset)}
  <2> HIDE DEF floor, ceil
  <2>1. CASE mode \in {"ceil", "expand"}
    BY <2>1 DEF round_day, floor, ceil
  <2>2. CASE mode \in {"floor", "trunc"}
    BY <2>2 DEF round_day, floor, ceil
  <2>3. CASE mode \notin {"ceil", "expand", "floor", "trunc"}
    BY <2>3 DEF round_day, floor, ceil
  <2> QED
    BY <2>1, <2>2, <2>3
<1> HIDE DEF floor, ceil
<1> QED
  BY <1>2, <1>3, <1>4

\* The i-th transition of a zone is an instant of its i-th span.
LEMMA TransitionFine ==
    ASSUME NEW tz \in Zones, NEW i \in 1 .. Len(tz.utc)
    PROVE  Fine(tz, TransitionObject(tz, i))
<1> DEFINE t == tz.utc[i].at
           o == tz.utc[i].offset
<1>1. WellFormed(tz) /\ Len(tz.utc) \in Nat
  BY ZonesAssumption, ZoneFacts
<1>2. t \in Epochs /\ t \in Int /\ o \in Offsets /\ o \in Int
  BY <1>1, ZoneFacts
<1>3. i = Len(tz.utc) \/ t < tz.utc[i + 1].at
  <2>1. CASE i # Len(tz.utc)
    <3>1. i + 1 \in 1 .. Len(tz.utc) /\ i < i + 1
      BY <1>1, <2>1
    <3> QED
      BY <1>1, <3>1 DEF WellFormed, WellFormedUtc
  <2> QED
    BY <2>1
<1>4. t <= t
  BY <1>2
<1>5. offset_for_instant(tz, t) = o
  BY <1>1, <1>2, <1>3, <1>4, OffsetInSpan
<1>6. TransitionObject(tz, i) = IF t + o \in Epochs THEN Ok(t + o, 0, o) ELSE Err("range")
  BY DEF TransitionObject
<1> HIDE DEF t, o
<1>7. (t + o) - o = t
  BY <1>2
<1>8. t + o \in Epochs => Fine(tz, Ok(t + o, 0, o))
  BY <1>2, <1>5, <1>7, Arithmetic DEF Fine, Sound, ValidIn, Ok
<1> QED
  BY <1>6, <1>8, ErrFine

LEMMA NextTransitionIndex ==
    ASSUME NEW tz \in Zones, NEW t \in Int, next_transition(tz, t) # Past(tz.utc)
    PROVE  next_transition(tz, t) \in 1 .. Len(tz.utc)
<1>1. Len(tz.utc) \in Nat /\ \A k \in 1 .. Len(tz.utc) : tz.utc[k].at \in Int
  BY ZonesAssumption, ZoneFacts
<1>2. IsFirstAfter(tz.utc, t, bisect(tz.utc, t))
  BY <1>1, BisectFinds
<1> QED
  BY <1>1, <1>2 DEF IsFirstAfter, Past, next_transition

LEMMA PrevTransitionIndex ==
    ASSUME NEW tz \in Zones, NEW t \in Int
    PROVE  prev_transition(tz, t) \in 1 .. Len(tz.utc)
<1>1. Len(tz.utc) \in Nat /\ Len(tz.utc) >= 1 /\ \A k \in 1 .. Len(tz.utc) : tz.utc[k].at \in Int
  BY ZonesAssumption, ZoneFacts
<1>2. IsFirstAfter(tz.utc, t - 1, bisect(tz.utc, t - 1))
  BY <1>1, BisectFinds
<1>3. partition_point(tz.utc, t) \in 0 .. Len(tz.utc)
  BY <1>1, <1>2 DEF IsFirstAfter, Past, partition_point
<1> QED
  BY <1>1, <1>3 DEF prev_transition

LEMMA ReplaceFine ==
    ASSUME NEW z \in Objects, NEW secs \in Epochs, NEW subsec \in Subsecs,
           NEW kwargs \in Kwargs, NEW lookup \in [Keys -> Zones]
    PROVE  /\ ReplaceKey(z, kwargs) \in Keys
           /\ ReplaceTz(z, kwargs, lookup) \in Zones
           /\ Fine(ReplaceTz(z, kwargs, lookup), replace(z, secs, subsec, kwargs, lookup))
<1>1. z.key \in Keys /\ z.tz \in Zones
  BY ObjectFacts
<1> DEFINE Arg == [arg : {"tz"}, val : Keys] \cup [arg : {"disambiguate"}, val : Disambiguation]
<1>2. \A i \in DOMAIN kwargs : kwargs[i] \in Arg
  BY DEF Kwargs
<1>3. ReplaceKey(z, kwargs) \in Keys
  <2> DEFINE T == {i \in DOMAIN kwargs : kwargs[i].arg = "tz"}
  <2>1. CASE T = {}
    BY <1>1, <2>1 DEF ReplaceKey
  <2>2. CASE T # {}
    <3>1. (CHOOSE i \in T : TRUE) \in T
      BY <2>2
    <3>2. ReplaceKey(z, kwargs) = kwargs[CHOOSE i \in T : TRUE].val
      BY <2>2 DEF ReplaceKey
    <3> QED
      BY <1>2, <3>1, <3>2
  <2> QED
    BY <2>1, <2>2
<1>4. ReplaceTz(z, kwargs, lookup) \in Zones
  BY <1>1, <1>3 DEF ReplaceTz
<1>5. ReplaceDis(z, kwargs, lookup) \in Disambiguation \cup {NoDis}
  <2> DEFINE writes == {i \in DOMAIN kwargs :
                            \/ kwargs[i].arg = "disambiguate"
                            \/ <<kwargs[i].val, lookup[kwargs[i].val]>> # <<z.key, z.tz>>}
             final == CHOOSE i \in writes : \A j \in writes : j <= i
  <2>1. CASE writes = {}
    BY <2>1, SMTT(40) DEF ReplaceDis
  <2>2. CASE writes # {}
    <3>1. final \in writes
      <4>1. writes \subseteq {1, 2}
        BY DEF Kwargs
      <4> HIDE DEF writes
      <4>2. \E i \in writes : \A j \in writes : j <= i
        <5>1. CASE 2 \in writes
          <6>1. \A j \in writes : j <= 2
            BY <4>1
          <6> QED
            BY <5>1, <6>1
        <5>2. CASE 2 \notin writes
          <6>1. writes = {1}
            BY <2>2, <4>1, <5>2
          <6> QED
            BY <6>1
        <5> QED
          BY <5>1, <5>2
      <4> QED
        BY <4>2
    <3> QED
      BY <1>2, <2>2, <3>1 DEF ReplaceDis, Disambiguation
  <2> QED
    BY <2>1, <2>2
<1> QED
  BY <1>3, <1>4, <1>5, PolicyOrKind, ResolveFine DEF replace

-----------------------------------------------------------------------------
\* Each step keeps the invariant.
LEMMA StepKeepsInv ==
    ASSUME IndInv, Next
    PROVE  IndInv'
<1>1. /\ zdt \in Objects /\ to_instant(zdt) \in Epochs
      /\ db \in [Keys -> Zones]
      /\ stale \in BOOLEAN
  BY DEF IndInv, TypeOK
<1>2. zdt.secs \in Epochs /\ zdt.subsec \in Subsecs /\ zdt.key \in Keys /\ zdt.tz \in Zones
  BY <1>1, ObjectFacts
<1>3. \A key \in Keys : db[key] \in Zones
  BY <1>1
<1>4. ASSUME NEW r, Return(r, zdt.key, zdt.tz), Fine(zdt.tz, r) PROVE IndInv'
  BY <1>2, <1>4, ReturnKeepsInv
<1>5. ASSUME NEW key \in Keys, NEW r, Return(r, key, db[key]), Fine(db[key], r) PROVE IndInv'
  BY <1>3, <1>5, ReturnKeepsInv
<1>6. ASSUME NEW l \in Epochs, NEW subsec \in Subsecs, NEW dis \in Disambiguation \cup {NoDis},
             Return(resolve_in(zdt.tz, l, subsec, PolicyOr(dis, zdt.offset)), zdt.key, zdt.tz)
      PROVE  IndInv'
  BY <1>2, <1>4, <1>6, ResolveFine, PolicyOrKind
<1>7. ASSUME ReturnNone PROVE IndInv'
  BY <1>7 DEF ReturnNone, IndInv, TypeOK, OffsetIsValid, PickleIsValid, NothingPanics, to_instant
<1>8. CASE New
  BY <1>3, <1>5, <1>8, ResolveFine, DisambiguateKind DEF New
<1>9. CASE FromTimestamp
  BY <1>3, <1>5, <1>9, ToOffsetFine DEF FromTimestamp
<1>10. CASE ParseIsoOffset
  BY <1>3, <1>5, <1>10, ParseFine DEF ParseIsoOffset
<1>11. CASE ParseIsoZ
  BY <1>3, <1>5, <1>11, ToOffsetFine DEF ParseIsoZ
<1>12. CASE ParseIsoMissing
  <2>1. "compatible" \in Disambiguation
    BY DEF Disambiguation
  <2> QED
    BY <1>3, <1>5, <1>12, <2>1, ResolveFine, DisambiguateKind DEF ParseIsoMissing, resolve_compatible
<1>13. CASE ToTz
  BY <1>1, <1>2, <1>3, <1>5, <1>13, ToOffsetFine DEF ToTz
<1>14. CASE Shift
  BY <1>1, <1>4, <1>14, ShiftFine DEF Shift
<1>15. CASE StartOf
  BY <1>1, <1>4, <1>15, StartOfFine DEF StartOf
<1>16. CASE EndOf
  BY <1>1, <1>4, <1>16, EndOfFine DEF EndOf
<1>17. CASE ReplaceDate
  <2>1. PICK day \in Epochs, dis \in Disambiguation \cup {NoDis} :
            /\ day = Midnight(day)
            /\ Return(resolve_in(zdt.tz, day + (zdt.secs - Midnight(zdt.secs)), zdt.subsec,
                                 PolicyOr(dis, zdt.offset)), zdt.key, zdt.tz)
    BY <1>17 DEF ReplaceDate
  <2>2. day + (zdt.secs - Midnight(zdt.secs)) \in Epochs
    <3> DEFINE b == Midnight(zdt.secs)
               d == zdt.secs - b
    <3>1. /\ b \in Int /\ zdt.secs \in Int /\ day \in Int
          /\ b <= zdt.secs /\ zdt.secs < b + DayLen
      BY <1>2, UnitBounds, Arithmetic DEF Midnight
    <3>2. d \in 0 .. DayLen - 1
      BY <3>1, Arithmetic
    <3>3. day + DayLen - 1 \in Epochs
      BY <2>1, UnitsAssumption DEF WholeUnits, Midnight
    <3> HIDE DEF d
    <3> QED
      BY <3>1, <3>2, <3>3, RangeAssumption, UnitsAssumption DEF Epochs
  <2> QED
    BY <1>2, <1>6, <2>1, <2>2
<1>18. CASE ReplaceTime
  BY <1>6, <1>18 DEF ReplaceTime
<1>19. CASE Replace
  BY <1>1, <1>19, ReplaceFine, ReturnKeepsInv DEF Replace
<1>20. CASE Round
  <2>1. CASE \E mode \in Modes : Return(round_day(zdt, mode), zdt.key, zdt.tz)
    BY <1>1, <1>2, <2>1, RoundDayFine, ReturnKeepsInv DEF IsSelf
  <2>2. CASE \E mode \in Modes, inc \in Increments :
                Return(RoundExact(zdt, inc, mode), zdt.key, zdt.tz)
    BY <1>1, <1>4, <2>2, RoundExactFine
  <2> QED
    BY <1>20, <2>1, <2>2 DEF Round
<1>21. CASE NextTransition
  <2> DEFINE i == next_transition(zdt.tz, to_instant(zdt))
  <2>1. CASE i = Past(zdt.tz.utc)
    BY <1>7, <1>21, <2>1 DEF NextTransition
  <2>2. CASE i # Past(zdt.tz.utc)
    <3>1. i \in 1 .. Len(zdt.tz.utc)
      BY <1>1, <1>2, <2>2, NextTransitionIndex, Arithmetic
    <3> QED
      BY <1>2, <1>4, <1>21, <2>2, <3>1, TransitionFine DEF NextTransition
  <2> QED
    BY <2>1, <2>2
<1>22. CASE PrevTransition
  <2> DEFINE i == prev_transition(zdt.tz, to_instant(zdt))
  <2>1. CASE i = 1
    BY <1>7, <1>22, <2>1 DEF PrevTransition
  <2>2. CASE i # 1
    <3>1. i \in 1 .. Len(zdt.tz.utc)
      BY <1>1, <1>2, PrevTransitionIndex, Arithmetic
    <3> QED
      BY <1>2, <1>4, <1>22, <2>2, <3>1, TransitionFine DEF PrevTransition
  <2> QED
    BY <2>1, <2>2
<1>23. CASE Reduce
  <2>1. pickled' = <<[z |-> zdt, stale |-> stale]>> /\ UNCHANGED <<zdt, db, stale, outcome>>
    BY <1>23 DEF Reduce
  <2>2. TypeOK'
    BY <1>1, <2>1 DEF TypeOK, to_instant
  <2>3. PickleIsValid'
    BY <2>1 DEF PickleIsValid, IndInv, OffsetIsValid
  <2> QED
    BY <2>1, <2>2, <2>3 DEF IndInv, OffsetIsValid, NothingPanics
<1>24. CASE Unpickle
  <2>1. PICK z \in Objects, old \in BOOLEAN :
            pickled = <<[z |-> z, stale |-> old]>> /\ to_instant(z) \in Epochs
    BY <1>24 DEF Unpickle, IndInv, TypeOK
  <2>2. /\ zdt' = [z EXCEPT !.tz = db[z.key]]
        /\ stale' = (old \/ db[z.key] # z.tz)
        /\ outcome' = "ok" /\ UNCHANGED <<db, pickled>>
    BY <1>24, <2>1 DEF Unpickle
  <2>3. z.key \in Keys /\ db[z.key] \in Zones
    BY <1>1, <2>1, ObjectFacts
  <2>4. /\ zdt' \in Objects
        /\ zdt'.secs = z.secs /\ zdt'.offset = z.offset /\ zdt'.tz = db[z.key]
    BY <2>1, <2>2, <2>3 DEF Objects
  <2>5. TypeOK'
    BY <1>1, <2>1, <2>2, <2>4 DEF IndInv, TypeOK, to_instant
  <2>6. ~old => ValidIn(z.tz, z.secs, z.offset)
    BY <2>1 DEF IndInv, PickleIsValid
  <2>7. OffsetIsValid'
    BY <2>2, <2>4, <2>6 DEF OffsetIsValid
  <2> QED
    BY <2>2, <2>5, <2>7 DEF IndInv, PickleIsValid, NothingPanics
<1>25. CASE UpdateTzdata
  <2>1. db' \in [Keys -> Zones] /\ UNCHANGED <<zdt, pickled, stale, outcome>>
    BY <1>1, <1>25 DEF UpdateTzdata
  <2> QED
    BY <2>1 DEF IndInv, TypeOK, OffsetIsValid, PickleIsValid, NothingPanics, to_instant
<1>26. CASE FromSystemTz
  BY <1>3, <1>5, <1>26, ResolveFine, DisambiguateKind DEF FromSystemTz
<1>27. CASE Now
  BY <1>3, <1>5, <1>27, ToOffsetFine DEF Now
<1>28. CASE FromPyDatetime
  <2>1. PICK key \in Keys, theirs \in Zones, secs \in Epochs, subsec \in Subsecs,
             fold \in {"earlier", "later"} :
       \E epoch \in FloatSeconds(TimestampIn(theirs, secs, fold), subsec) :
        Return(IF epoch \in Epochs THEN to_offset_in(db[key], epoch, subsec) ELSE Err("range"),
               key, db[key])
    BY <1>28 DEF FromPyDatetime
  <2>2. PICK epoch :
        Return(IF epoch \in Epochs THEN to_offset_in(db[key], epoch, subsec) ELSE Err("range"),
               key, db[key])
    BY <2>1
  <2>3. CASE epoch \in Epochs
    BY <1>3, <1>5, <2>2, <2>3, ToOffsetFine
  <2>4. CASE epoch \notin Epochs
    <3>1. Return(Err("range"), key, db[key])
      BY <2>2, <2>4
    <3>2. Fine(db[key], Err("range"))
      BY ErrFine
    <3> QED
      BY <1>5, <3>1, <3>2
  <2> QED
    BY <2>3, <2>4
<1>29. CASE Parse
  <2>1. PICK key \in Keys, secs \in Epochs, subsec \in Subsecs :
        \/ \E offset \in Offsets :
            Return(ParseWithOffset(db[key], secs, subsec, offset), key, db[key])
        \/ \E dis \in Disambiguation :
            Return(resolve_in(db[key], secs, subsec, Disambiguate(dis)), key, db[key])
    BY <1>29 DEF Parse
  <2>2. CASE \E offset \in Offsets :
            Return(ParseWithOffset(db[key], secs, subsec, offset), key, db[key])
    BY <1>3, <1>5, <2>2, ParseFine
  <2>3. CASE \E dis \in Disambiguation :
            Return(resolve_in(db[key], secs, subsec, Disambiguate(dis)), key, db[key])
    BY <1>3, <1>5, <2>3, ResolveFine, DisambiguateKind
  <2> QED
    BY <2>1, <2>2, <2>3
<1>30. CASE AssumeTz
  <2>1. PICK key \in Keys, secs \in Epochs, subsec \in Subsecs, offset \in Offsets,
             mismatch \in OffsetMismatch :
        /\ secs - offset \in Epochs
        /\ Return(assume_tz(db[key], secs, subsec, offset, mismatch), key, db[key])
    BY <1>30 DEF AssumeTz
  <2>2. "compatible" \in Disambiguation
    BY DEF Disambiguation
  <2>3. Fine(db[key], to_offset_in(db[key], secs - offset, subsec))
    BY <1>3, <2>1, ToOffsetFine
  <2>4. Fine(db[key], resolve_compatible(db[key], secs, subsec))
    BY <1>3, <2>1, <2>2, ResolveFine, DisambiguateKind DEF resolve_compatible
  <2>5. Fine(db[key], Err("invalid_offset"))
    BY ErrFine
  <2>6. Fine(db[key], assume_tz(db[key], secs, subsec, offset, mismatch))
    BY <2>3, <2>4, <2>5 DEF assume_tz
  <2> QED
    BY <1>5, <2>1, <2>6
<1>31. CASE StartOfDay
  <2>1. UnitStart(zdt, DayLen) \in Epochs
    BY <1>2, UnitBounds, UnitsAssumption DEF UnitStart
  <2> QED
    BY <1>2, <1>4, <1>31, <2>1, CompatibleFine DEF StartOfDay
<1> QED
  BY <1>8, <1>9, <1>10, <1>11, <1>12, <1>13, <1>14, <1>15, <1>16, <1>17, <1>18, <1>19, <1>20,
     <1>21, <1>22, <1>23, <1>24, <1>25, <1>26, <1>27, <1>28, <1>29, <1>30, <1>31 DEF Next

LEMMA InitInv == Init => IndInv
<1> SUFFICES ASSUME Init PROVE IndInv
  OBVIOUS
<1>1. PICK key \in Keys, epoch \in Epochs, subsec \in Subsecs :
        LET r == to_offset_in(db[key], epoch, subsec) IN
        /\ r.ok
        /\ zdt = [secs |-> r.secs, subsec |-> r.subsec, offset |-> r.offset,
                  key |-> key, tz |-> db[key]]
  BY DEF Init
<1> DEFINE r == to_offset_in(db[key], epoch, subsec)
<1>2. db \in [Keys -> Zones] /\ db[key] \in Zones
  BY DEF Init
<1>3. Fine(db[key], r)
  BY <1>2, ToOffsetFine
<1> HIDE DEF r
<1>4. /\ r.secs \in Epochs /\ r.subsec \in Subsecs /\ r.offset \in Offsets
      /\ r.secs - r.offset \in Epochs /\ ValidIn(db[key], r.secs, r.offset)
      /\ zdt = [secs |-> r.secs, subsec |-> r.subsec, offset |-> r.offset,
                key |-> key, tz |-> db[key]]
  BY <1>1, <1>3 DEF Fine, Sound, ValidIn, r
<1>5. zdt \in Objects /\ to_instant(zdt) \in Epochs /\ ValidIn(zdt.tz, zdt.secs, zdt.offset)
  BY <1>2, <1>4 DEF Objects, to_instant
<1> QED
  BY <1>2, <1>5 DEF Init, IndInv, TypeOK, OffsetIsValid, PickleIsValid, NothingPanics

LEMMA InvAlways == Spec => []IndInv
<1>1. IndInv /\ UNCHANGED vars => IndInv'
  BY DEF IndInv, TypeOK, OffsetIsValid, PickleIsValid, NothingPanics, to_instant, vars
<1>2. IndInv /\ [Next]_vars => IndInv'
  BY <1>1, StepKeepsInv
<1> QED
  BY InitInv, <1>2, PTL DEF Spec

\* Every object that a program can compute, by any sequence of calls in any
\* well-formed zones, has an offset that its zone has at its instant, unless a
\* pickle outlived a change of the zone.
THEOREM OffsetAlwaysValid == Spec => []OffsetIsValid
<1>1. IndInv => OffsetIsValid
  BY DEF IndInv
<1> QED
  BY InvAlways, <1>1, PTL

\* Objects stay in range, their instants too: the unwrap in to_instant is safe.
THEOREM TypeCorrect == Spec => []TypeOK
<1>1. IndInv => TypeOK
  BY DEF IndInv
<1> QED
  BY InvAlways, <1>1, PTL

\* No method panics: every lookup finds an entry, and end_of can always step
\* back from the start of the next unit.
THEOREM NeverPanics == Spec => []NothingPanics
<1>1. IndInv => NothingPanics
  BY DEF IndInv
<1> QED
  BY InvAlways, <1>1, PTL

-----------------------------------------------------------------------------
(***************************************************************************)
(* Units.  The k-th entry of the local table decides what a local time     *)
(* means; an object lies in the j-th span of the instants.  How the two    *)
(* compare tells where the object is relative to a boundary of a unit.     *)
(***************************************************************************)
Decides(zn, k, l) ==
    /\ k = 1 \/ Upper(zn.utc, k) <= l
    /\ k = Len(zn.utc) \/ l < Upper(zn.utc, k + 1)

\* What mapping_for_local answers, in terms of the transition that k leads to.
Means(zn, k, m, l) ==
    \/ /\ m.kind = "unique" /\ m.offset = zn.utc[k].offset
       /\ k = Len(zn.utc) \/ l < Lower(zn.utc, k + 1)
    \/ /\ k # Len(zn.utc) /\ Lower(zn.utc, k + 1) <= l
       /\ m.transition = Upper(zn.utc, k + 1)
       /\ m.before = zn.utc[k].offset /\ m.after = zn.utc[k + 1].offset
       /\ \/ m.kind = "fold" /\ m.after < m.before
          \/ m.kind = "gap" /\ m.before < m.after

\* The mapping of every local time is that of one entry.
LEMMA MappingMeans ==
    ASSUME NEW zn, WellFormed(zn), NEW l \in Int
    PROVE  \E k \in 1 .. Len(zn.utc) :
                Decides(zn, k, l) /\ Means(zn, k, mapping_for_local(zn, l), l)
<1> DEFINE utc == zn.utc
           n == Len(utc)
           m == mapping_for_local(zn, l)
<1>1. n \in Nat /\ n >= 1
  BY ZoneFacts
<1>2. PICK k \in 1 .. n :
        /\ k = 1 \/ Upper(utc, k) <= l
        /\ k = n \/ l < Upper(utc, k + 1)
        /\ k = n => m = Unique(utc[k].offset)
        /\ k # n => m = MappingAt(zn.local[k], l)
  BY MappingEntry
<1>3. CASE k = n
  BY <1>2, <1>3 DEF Decides, Means, Unique
<1>4. CASE k # n
  <2> DEFINE e == zn.local[k]
             b == utc[k].offset
             a == utc[k + 1].offset
             up == Upper(utc, k + 1)
             lo == Lower(utc, k + 1)
  <2>1. k \in 1 .. n - 1 /\ k + 1 \in 2 .. n /\ (k + 1) - 1 = k /\ k + 1 \in 1 .. n
    BY <1>1, <1>4
  <2>2. e.at = up /\ e.offset = b /\ e.change = a - b
    BY <2>1, ZoneFacts
  <2>3. a \in Int /\ b \in Int /\ utc[k + 1].at \in Int
    BY <1>1, <2>1, ZoneFacts
  <2>4. up - Abs(a - b) = lo /\ up \in Int /\ lo \in Int
    <3>1. up = utc[k + 1].at + Larger(b, a) /\ lo = utc[k + 1].at + Smaller(b, a)
      BY <2>1 DEF Upper, Lower
    <3> HIDE DEF up, lo, a, b
    <3> QED BY <2>3, <3>1, RegionBounds
  <2>5. clamp(lo) = lo
    <3>1. EpochMin < lo /\ up <= EpochMax
      BY <2>1 DEF WellFormed, WellFormedUtc
    <3>2. lo <= up
      BY <2>3, <2>4, SMTT(40) DEF Abs
    <3> QED BY <2>4, <3>1, <3>2, RangeAssumption, ClampInRange
  <2>6. m = IF l < lo \/ a - b = 0 THEN Unique(b)
            ELSE IF a - b < 0 THEN Fold(up, b, b + (a - b)) ELSE Gap(up, b, b + (a - b))
    BY <1>2, <1>4, <2>2, <2>4, <2>5 DEF MappingAt
  <2>7. b + (a - b) = a /\ (a - b = 0 => lo = up)
    BY <2>3, <2>4 DEF Abs
  <2> HIDE DEF m, e, up, lo, a, b
  <2>8. Decides(zn, k, l) /\ l < up
    BY <1>2, <1>4 DEF Decides, up
  <2>9. CASE l < lo \/ a - b = 0
    <3>1. m = Unique(b) /\ l < lo
      BY <2>4, <2>6, <2>7, <2>8, <2>9
    <3>2. m.kind = "unique" /\ m.offset = b
      BY <3>1 DEF Unique
    <3>3. Means(zn, k, m, l)
      BY <3>1, <3>2 DEF Means, b, lo
    <3> QED BY <2>8, <3>3 DEF m
  <2>10. CASE ~(l < lo) /\ a - b < 0
    <3>1. m = Fold(up, b, a) /\ lo <= l /\ a < b
      BY <2>3, <2>4, <2>6, <2>7, <2>10
    <3>2. m.kind = "fold" /\ m.transition = up /\ m.before = b /\ m.after = a
      BY <3>1 DEF Fold
    <3>3. Means(zn, k, m, l)
      BY <1>4, <3>1, <3>2 DEF Means, a, b, lo, up
    <3> QED BY <2>8, <3>3 DEF m
  <2>11. CASE ~(l < lo) /\ ~(a - b = 0) /\ ~(a - b < 0)
    <3>1. m = Gap(up, b, a) /\ lo <= l /\ b < a
      BY <2>3, <2>4, <2>6, <2>7, <2>11
    <3>2. m.kind = "gap" /\ m.transition = up /\ m.before = b /\ m.after = a
      BY <3>1 DEF Gap
    <3>3. Means(zn, k, m, l)
      BY <1>4, <3>1, <3>2 DEF Means, a, b, lo, up
    <3> QED BY <2>8, <3>3 DEF m
  <2> QED BY <2>9, <2>10, <2>11
<1> QED BY <1>3, <1>4

\* The local time s has the offset of the j-th span and lies in it.
LiesIn(zn, j, s, o) == zn.utc[j].offset = o /\ InSpan(zn, j, s - o)

\* A valid offset is that of a span the instant lies in.
LEMMA ValidLiesIn ==
    ASSUME NEW zn, WellFormed(zn), NEW s \in Int, NEW o \in Int, ValidIn(zn, s, o)
    PROVE  \E j \in 1 .. Len(zn.utc) : LiesIn(zn, j, s, o) /\ zn.utc[j].at <= s - o
<1>1. s - o \in Epochs /\ offset_for_instant(zn, s - o) = o
  BY DEF ValidIn
<1>2. PICK j \in 1 .. Len(zn.utc) :
        zn.utc[j].at <= s - o /\ (j = Len(zn.utc) \/ s - o < zn.utc[j + 1].at)
  BY <1>1, SpanOf
<1>3. offset_for_instant(zn, s - o) = zn.utc[j].offset
  BY <1>1, <1>2, OffsetInSpan
<1> QED BY <1>1, <1>2, <1>3 DEF LiesIn, InSpan

\* Where an object in the j-th span is relative to a local time l that the k-th
\* entry decides: earlier spans end before l in both times, later ones begin at
\* the transition, and beyond the next one they are past l.
Compares(zn, k, l, j, s, o) ==
    /\ j < k => s - o < zn.utc[k].at /\ s < l
    /\ k # 1 => zn.utc[k].at <= l - zn.utc[k].offset
    /\ j = k => o = zn.utc[k].offset
    /\ j = k /\ k # Len(zn.utc) => s - o < zn.utc[k + 1].at
    /\ j > k => zn.utc[k + 1].at <= s - o /\ Lower(zn.utc, k + 1) <= s
    /\ j = k + 1 => o = zn.utc[k + 1].offset
    /\ j > k + 1 => l < s

\* Every object in a span compares so.
LEMMA SpanCompares ==
    ASSUME NEW zn, WellFormed(zn), NEW l \in Int,
           NEW k \in 1 .. Len(zn.utc), Decides(zn, k, l),
           NEW s \in Int, NEW o \in Int,
           NEW j \in 1 .. Len(zn.utc), LiesIn(zn, j, s, o)
    PROVE  Compares(zn, k, l, j, s, o)
<1> DEFINE utc == zn.utc
           n == Len(utc)
<1>1. n \in Nat /\ n >= 1 /\ \A i \in 1 .. n : utc[i].at \in Int /\ utc[i].offset \in Int
  BY ZoneFacts
<1>2. /\ \A i \in 2 .. n :
            /\ Upper(utc, i) \in Int /\ Lower(utc, i) \in Int
            /\ Lower(utc, i) <= utc[i].at + utc[i].offset
            /\ utc[i].at + utc[i].offset <= Upper(utc, i)
            /\ utc[i].at + utc[i - 1].offset <= Upper(utc, i)
      /\ \A i, h \in 2 .. n : i < h => Upper(utc, i) <= Lower(utc, h)
      /\ \A i, h \in 2 .. n : i < h => Upper(utc, i) <= Upper(utc, h)
  BY LocalOrder
<1>3. \A i, h \in 1 .. n : i < h => utc[i].at < utc[h].at
  BY UtcOrder
<1>4. o = utc[j].offset /\ (j = 1 \/ utc[j].at <= s - o) /\ (j = n \/ s - o < utc[j + 1].at)
  BY DEF LiesIn, InSpan
<1>5. (k = 1 \/ Upper(utc, k) <= l) /\ (k = n \/ l < Upper(utc, k + 1))
  BY DEF Decides
<1> HIDE DEF utc, n
<1>6. ASSUME j < k PROVE s - o < utc[k].at /\ s < l
  <2>1. j + 1 \in 2 .. n /\ j # n /\ (j + 1) - 1 = j /\ j + 1 \in 1 .. n /\ k \in 2 .. n
    BY <1>6, <1>1 DEF n, utc
  <2> DEFINE i == j + 1
  <2>0. i \in 1 .. n /\ i \in 2 .. n /\ k \in 1 .. n /\ k \in 2 .. n /\ (i = k \/ i < k)
    BY <1>1, <1>6, <2>1
  <2> HIDE DEF i
  <2>2. utc[j + 1].at <= utc[k].at
    <3>1. utc[i].at \in Int /\ utc[k].at \in Int
      BY <1>1, <2>0, ZoneFacts DEF utc, n
    <3>2. i < k => utc[i].at < utc[k].at
      BY <1>3, <2>0
    <3>3. utc[i].at <= utc[k].at
      BY <2>0, <3>1, <3>2
    <3> QED BY <3>3 DEF i
  <2>3. Upper(utc, j + 1) <= Upper(utc, k)
    <3>1. Upper(utc, i) \in Int /\ Upper(utc, k) \in Int
      BY <1>2, <2>0
    <3>2. i < k => Upper(utc, i) <= Upper(utc, k)
      BY <1>2, <2>0
    <3>3. Upper(utc, i) <= Upper(utc, k)
      BY <2>0, <3>1, <3>2
    <3> QED BY <3>3 DEF i
  <2>4. utc[j + 1].at + utc[j].offset <= Upper(utc, j + 1)
    BY <1>2, <2>1
  <2>5. s - o < utc[j + 1].at /\ Upper(utc, k) <= l
    BY <1>4, <1>5, <1>6, <2>1
  <2>6. utc[j + 1].at \in Int /\ utc[k].at \in Int /\ Upper(utc, k) \in Int /\ Upper(utc, j + 1) \in Int
    <3>1. utc[k].at \in Int /\ Upper(utc, k) \in Int
      BY <1>1, <1>2, <2>0
    <3>2. utc[i].at \in Int /\ Upper(utc, i) \in Int
      BY <1>1, <1>2, <2>0
    <3> QED BY <3>1, <3>2 DEF i
  <2>7. utc[j].offset \in Int /\ o = utc[j].offset
    BY <1>1, <1>4 DEF n, utc
  <2>8. s - o < utc[k].at
    BY <2>2, <2>5, <2>6
  <2>9. s < utc[j + 1].at + o
    BY <2>5, <2>6, <2>7, SMTT(40)
  <2>10. utc[j + 1].at + o <= l
    BY <2>3, <2>4, <2>5, <2>6, <2>7, SMTT(40)
  <2> QED BY <2>6, <2>7, <2>8, <2>9, <2>10, SMTT(40)
<1>7. ASSUME k # 1 PROVE utc[k].at <= l - utc[k].offset
  <2>1. k \in 2 .. n /\ k \in 1 .. n
    BY <1>7 DEF n, utc
  <2>2. utc[k].at + utc[k].offset <= Upper(utc, k) /\ Upper(utc, k) <= l
    BY <1>2, <1>5, <1>7, <2>1
  <2>3. utc[k].at \in Int /\ utc[k].offset \in Int
    BY <1>1, <2>1
  <2>4. Upper(utc, k) \in Int
    BY <1>2, <2>1
  <2> QED BY <2>2, <2>3, <2>4
<1>8. ASSUME j > k
      PROVE  utc[k + 1].at <= s - o /\ Lower(utc, k + 1) <= s /\ (j > k + 1 => l < s)
  <2>1. k + 1 \in 2 .. n /\ k # n /\ j \in 2 .. n /\ j # 1 /\ k + 1 \in 1 .. n /\ j \in 1 .. n
    BY <1>8, <1>1 DEF n, utc
  <2>2. utc[k + 1].at <= utc[j].at /\ utc[j].at <= s - o
    BY <1>1, <1>3, <1>4, <1>8, <2>1
  <2>3. Lower(utc, j) <= utc[j].at + utc[j].offset /\ Lower(utc, k + 1) <= Upper(utc, k + 1)
    <3>1. Lower(utc, j) <= utc[j].at + utc[j].offset
      BY <1>2, <2>1
    <3> DEFINE x1 == utc[k + 1].at + utc[k + 1].offset
    <3>2. x1 \in Int /\ Lower(utc, k + 1) <= x1 /\ x1 <= Upper(utc, k + 1)
      BY <1>1, <1>2, <2>1, SMTT(40)
    <3>3. Lower(utc, k + 1) \in Int /\ Upper(utc, k + 1) \in Int
      BY <1>2, <2>1
    <3> HIDE DEF x1
    <3> QED BY <3>1, <3>2, <3>3
  <2>4. j > k + 1 => Upper(utc, k + 1) <= Lower(utc, j)
    BY <1>2, <2>1
  <2>5. l < Upper(utc, k + 1)
    BY <1>5, <2>1
  <2>6. /\ utc[k + 1].at \in Int /\ utc[j].at \in Int /\ Upper(utc, k + 1) \in Int
        /\ Lower(utc, k + 1) \in Int /\ Lower(utc, j) \in Int
    BY <1>1, <1>2, <2>1
  <2>7. j = k + 1 \/ j > k + 1
    BY <1>8
  <2>8. utc[j].offset \in Int /\ Lower(utc, j) <= s
    <3>1. utc[j].offset \in Int /\ o = utc[j].offset
      BY <1>1, <1>4, <2>1
    <3>2. Lower(utc, j) <= utc[j].at + o /\ utc[j].at <= s - o
      BY <2>2, <2>3, <3>1
    <3>3. utc[j].at \in Int /\ Lower(utc, j) \in Int
      BY <2>6
    <3> QED BY <3>1, <3>2, <3>3
  <2>9. CASE j = k + 1
    BY <2>2, <2>6, <2>8, <2>9
  <2>10. CASE j > k + 1
    BY <2>2, <2>3, <2>4, <2>5, <2>6, <2>8, <2>10, SMTT(40)
  <2> QED BY <2>7, <2>9, <2>10
<1> QED
  BY <1>4, <1>6, <1>7, <1>8 DEF Compares, utc, n

\* The result of resolve_compatible is the local time read with the offset of
\* the entry that decides it, also in a gap, where it has moved on.
LEMMA CompatibleInstant ==
    ASSUME NEW zn, WellFormed(zn), NEW l \in Epochs, NEW k \in 1 .. Len(zn.utc),
           Means(zn, k, mapping_for_local(zn, l), l), resolve_compatible(zn, l, 0).ok
    PROVE  LET r == resolve_compatible(zn, l, 0)
               m == mapping_for_local(zn, l)
           IN  /\ r.secs - r.offset = l - zn.utc[k].offset
               /\ r.subsec = 0
               /\ m.kind # "gap" => r = Ok(l, 0, zn.utc[k].offset)
               /\ m.kind = "gap" => r = Ok(l + (m.after - m.before), 0, m.after)
<1> DEFINE r == resolve_compatible(zn, l, 0)
           m == mapping_for_local(zn, l)
           b == zn.utc[k].offset
<1>1. l \in Int /\ b \in Int /\ (k # Len(zn.utc) => zn.utc[k + 1].offset \in Int)
  <2>1. l \in Int
    BY Arithmetic
  <2>2. Len(zn.utc) \in Nat /\ \A i \in 1 .. Len(zn.utc) : zn.utc[i].offset \in Int
    BY ZoneFacts
  <2>3. k # Len(zn.utc) => k + 1 \in 1 .. Len(zn.utc)
    BY <2>2
  <2> QED BY <2>1, <2>2, <2>3
<1>2. r = resolve(m, l, 0, [kind |-> "compatible"])
  BY DEF resolve_compatible, resolve_in, Disambiguate
<1>3. r.ok /\ Means(zn, k, m, l)
  OBVIOUS
<1> HIDE DEF r, m, b
<1>4. CASE m.kind = "unique"
  <2>1. r = assume_offset(l, 0, b)
    BY <1>2, <1>3, <1>4 DEF resolve, Means, b
  <2>2. r = Ok(l, 0, b)
    BY <1>3, <2>1 DEF assume_offset, Err
  <2> QED BY <1>4, <2>2 DEF Ok, r, m, b
<1>5. CASE m.kind = "fold"
  <2>1. r = assume_offset(l, 0, b)
    BY <1>2, <1>3, <1>5 DEF resolve, ResolveFold, Means, b
  <2>2. r = Ok(l, 0, b)
    BY <1>3, <2>1 DEF assume_offset, Err
  <2> QED BY <1>5, <2>2 DEF Ok, r, m, b
<1>6. CASE m.kind = "gap"
  <2>1. m.before = b /\ m.after \in Int
    BY <1>1, <1>3, <1>6 DEF Means, b
  <2>2. r = ShiftThenAssume(l, 0, m.after - m.before, m.after)
    BY <1>2, <1>6 DEF resolve, ResolveGap
  <2>3. r = Ok(l + (m.after - m.before), 0, m.after)
    BY <1>3, <2>2 DEF ShiftThenAssume, assume_offset, Err
  <2>4. r.secs = l + (m.after - m.before) /\ r.offset = m.after /\ r.subsec = 0
    BY <2>3 DEF Ok
  <2>5. r.secs - r.offset = l - b
    BY <1>1, <2>1, <2>4
  <2> QED BY <1>6, <2>3, <2>4, <2>5 DEF r, m, b
<1> QED BY <1>3, <1>4, <1>5, <1>6 DEF Means

\* Instants in nanoseconds compare as their seconds do.
LEMMA TickedOrder ==
    ASSUME NEW a \in Int, NEW b \in Int, NEW x1 \in Subsecs, NEW y \in Subsecs
    PROVE  /\ Ticked(a, x1) \in Int
           /\ a < b => Ticked(a, x1) < Ticked(b, y)
           /\ a <= b /\ x1 = 0 => Ticked(a, x1) <= Ticked(b, y)
           /\ a <= b /\ y = Ticks - 1 => Ticked(a, x1) <= Ticked(b, y)
           /\ a < b => Ticked(b, 0) - Ticked(a, 0) >= Ticks
<1>1. Ticks \in Nat \ {0} /\ x1 \in 0 .. Ticks - 1 /\ y \in 0 .. Ticks - 1
  BY Arithmetic DEF Subsecs
<1> DEFINE d == b - a
           p == a * Ticks
           e == d * Ticks
<1>2. d \in Int /\ p \in Int /\ e \in Int /\ b * Ticks = p + e
  <2>1. b = a + d
    OBVIOUS
  <2> QED BY <1>1, <2>1
<1>3. d > 0 => e >= Ticks
  BY <1>1, <1>2
<1>4. Ticked(a, x1) = p + x1 /\ Ticked(b, y) = (p + e) + y /\ Ticked(b, 0) = (p + e) /\ Ticked(a, 0) = p
  BY <1>1, <1>2 DEF Ticked
<1>5. (a < b => d > 0) /\ (a <= b => d > 0 \/ e = 0)
  BY <1>1
<1> HIDE DEF d, p, e
<1> QED BY <1>1, <1>2, <1>3, <1>4, <1>5

\* A boundary l of a calendar unit that is not strictly inside a gap or a fold.
Outside(m, l) == m.kind = "unique" \/ ~(l > m.transition - Abs(m.after - m.before))

\* Then it is at or before the start of the gap or fold.
LEMMA OutsideMeans ==
    ASSUME NEW zn, WellFormed(zn), NEW l \in Int, NEW k \in 1 .. Len(zn.utc),
           NEW m, Means(zn, k, m, l), Outside(m, l)
    PROVE  /\ k = Len(zn.utc) \/ l <= Lower(zn.utc, k + 1)
           /\ m.kind = "gap" => l = zn.utc[k + 1].at + zn.utc[k].offset
<1>1. CASE m.kind = "unique"
  <2>1. CASE k = Len(zn.utc)
    BY <1>1, <2>1
  <2>2. CASE k # Len(zn.utc)
    <3>1. l < Lower(zn.utc, k + 1)
      BY <1>1, <2>2 DEF Means
    <3>2. Lower(zn.utc, k + 1) \in Int
      BY <2>2, LocalOrder, ZoneFacts
    <3> QED BY <1>1, <3>1, <3>2
  <2> QED BY <2>1, <2>2
<1>2. CASE m.kind # "unique"
  <2> DEFINE b == zn.utc[k].offset
             a == zn.utc[k + 1].offset
             t == zn.utc[k + 1].at
  <2>1. /\ k # Len(zn.utc) /\ Lower(zn.utc, k + 1) <= l
        /\ m.transition = Upper(zn.utc, k + 1) /\ m.before = b /\ m.after = a
        /\ m.kind = "gap" => b < a
    BY <1>2 DEF Means
  <2>2. k \in 1 .. Len(zn.utc) - 1 /\ k + 1 \in 1 .. Len(zn.utc) /\ (k + 1) - 1 = k
    BY <2>1, ZoneFacts
  <2>3. a \in Int /\ b \in Int /\ t \in Int
    BY <2>2, ZoneFacts
  <2>4. Upper(zn.utc, k + 1) = t + Larger(b, a) /\ Lower(zn.utc, k + 1) = t + Smaller(b, a)
    BY <2>2 DEF Upper, Lower
  <2> HIDE DEF a, b, t
  <2>5. (t + Larger(b, a)) - Abs(a - b) = t + Smaller(b, a) /\ t + Smaller(b, a) \in Int
    BY <2>3, RegionBounds
  <2>6. l = t + Smaller(b, a)
    BY <1>2, <2>1, <2>4, <2>5 DEF Outside
  <2>7. b < a => Smaller(b, a) = b
    BY <2>3 DEF Smaller
  <2> QED BY <2>1, <2>4, <2>5, <2>6, <2>7 DEF a, b, t
<1> QED BY <1>1, <1>2

\* The start of a calendar unit is at or before every object in the unit.
LEMMA CompatibleBefore ==
    ASSUME NEW zn, WellFormed(zn), NEW l \in Epochs, NEW s \in Int, NEW o \in Int,
           ValidIn(zn, s, o), l <= s,
           Outside(mapping_for_local(zn, l), l), resolve_compatible(zn, l, 0).ok
    PROVE  LET r == resolve_compatible(zn, l, 0) IN
           r.secs - r.offset <= s - o
<1> DEFINE utc == zn.utc
           n == Len(utc)
           m == mapping_for_local(zn, l)
<1>1. l \in Int /\ n \in Nat
  BY Arithmetic, ZoneFacts
<1>2. PICK k \in 1 .. n : Decides(zn, k, l) /\ Means(zn, k, m, l)
  BY <1>1, MappingMeans
<1>3. PICK j \in 1 .. n : LiesIn(zn, j, s, o)
  BY ValidLiesIn
<1>4. Compares(zn, k, l, j, s, o)
  BY <1>1, <1>2, <1>3, SpanCompares
<1>5. (k = n \/ l <= Lower(utc, k + 1)) /\ (m.kind = "gap" => l = utc[k + 1].at + utc[k].offset)
  BY <1>1, <1>2, OutsideMeans
<1> SUFFICES l - utc[k].offset <= s - o
  BY <1>2, CompatibleInstant
<1>6. utc[k].offset \in Int /\ (k # n => utc[k + 1].at \in Int)
  <2>1. k # n => k + 1 \in 1 .. n
    BY <1>1
  <2>2. \A i \in 1 .. n : utc[i].at \in Int /\ utc[i].offset \in Int
    BY ZoneFacts
  <2> HIDE DEF utc, n
  <2> QED BY <2>1, <2>2
<1>7. CASE j < k
  BY <1>1, <1>4, <1>7 DEF Compares
<1>8. CASE j = k
  BY <1>1, <1>4, <1>6, <1>8 DEF Compares
<1>9. CASE j > k
  <2>1. k # n /\ utc[k + 1].at <= s - o
    BY <1>1, <1>4, <1>9 DEF Compares
  <2>2. l <= utc[k + 1].at + utc[k].offset
    <3>1. Lower(utc, k + 1) <= utc[k + 1].at + utc[(k + 1) - 1].offset /\ (k + 1) - 1 = k
          /\ Lower(utc, k + 1) \in Int
      BY <1>1, <2>1, LocalOrder
    <3> QED BY <1>1, <1>5, <1>6, <2>1, <3>1, SMTT(40)
  <2> QED BY <1>1, <1>6, <2>1, <2>2, SMTT(40)
<1> QED BY <1>1, <1>7, <1>8, <1>9

\* The start of the next calendar unit is after every object in the unit.
LEMMA CompatibleAfter ==
    ASSUME NEW zn, WellFormed(zn), NEW l \in Epochs, NEW s \in Int, NEW o \in Int,
           ValidIn(zn, s, o), s < l,
           Outside(mapping_for_local(zn, l), l), resolve_compatible(zn, l, 0).ok
    PROVE  LET r == resolve_compatible(zn, l, 0) IN
           s - o < r.secs - r.offset
<1> DEFINE utc == zn.utc
           n == Len(utc)
           m == mapping_for_local(zn, l)
<1>1. l \in Int /\ n \in Nat
  BY Arithmetic, ZoneFacts
<1>2. PICK k \in 1 .. n : Decides(zn, k, l) /\ Means(zn, k, m, l)
  BY <1>1, MappingMeans
<1>3. PICK j \in 1 .. n : LiesIn(zn, j, s, o)
  BY ValidLiesIn
<1>4. Compares(zn, k, l, j, s, o)
  BY <1>1, <1>2, <1>3, SpanCompares
<1>5. k = n \/ l <= Lower(utc, k + 1)
  BY <1>1, <1>2, OutsideMeans
<1> SUFFICES s - o < l - utc[k].offset
  BY <1>2, CompatibleInstant
<1>6. utc[k].offset \in Int /\ utc[k].at \in Int
  BY <1>1, ZoneFacts
<1>7. CASE j < k
  BY <1>1, <1>4, <1>6, <1>7, SMTT(40) DEF Compares
<1>8. CASE j = k
  BY <1>1, <1>4, <1>6, <1>8 DEF Compares
<1>9. CASE j > k
  <2>1. k # n /\ Lower(utc, k + 1) <= s
    BY <1>1, <1>4, <1>9 DEF Compares
  <2>2. Lower(utc, k + 1) \in Int
    BY <1>1, <2>1, LocalOrder
  <2> QED BY <1>1, <1>5, <2>1, <2>2
<1> QED BY <1>1, <1>7, <1>8, <1>9

\* The start of an hour, minute or second is at or before the object.
LEMMA StartOfTimeBefore ==
    ASSUME NEW z \in Objects, ValidIn(z.tz, z.secs, z.offset), NEW u \in TimeUnits,
           StartOfTime(z, u).ok
    PROVE  LET r == StartOfTime(z, u) IN
           r.subsec = 0 /\ r.secs - r.offset \in Int /\ r.secs - r.offset <= z.secs - z.offset
<1> DEFINE zn == z.tz
           utc == zn.utc
           n == Len(utc)
           l == UnitStart(z, u)
           s == z.secs
           o == z.offset
           m == mapping_for_local(zn, l)
           r == StartOfTime(z, u)
<1>1. zn \in Zones /\ s \in Int /\ o \in Int /\ s \in Epochs
  BY ObjectFacts, Arithmetic
<1>2. WellFormed(zn)
  BY <1>1, ZonesAssumption
<1>3. l \in Epochs /\ l \in Int /\ l <= s
  <2>1. u \in Nat \ {0}
    BY UnitsAssumption
  <2>2. l \in Epochs /\ l <= s
    BY <1>1, <2>1, UnitBounds DEF UnitStart
  <2> QED BY <2>2, Arithmetic
<1>4. r.ok /\ ValidIn(zn, s, o) /\
      r = CASE m.kind = "unique" -> assume_offset(l, 0, m.offset)
            [] m.kind = "fold" ->
                  assume_offset(l, 0, IF m.after = o THEN m.after ELSE m.before)
            [] m.kind = "gap" -> assume_offset(m.transition, 0, m.after)
            [] m.kind = "panic" -> Err("panic")
  BY DEF StartOfTime
<1>5. n \in Nat /\ \A i \in 1 .. n : utc[i].at \in Int /\ utc[i].offset \in Int
  BY <1>2, ZoneFacts
<1> HIDE DEF r, m, l, n, utc, zn, s, o
<1>6. PICK k \in 1 .. n : Decides(zn, k, l) /\ Means(zn, k, m, l)
  BY <1>2, <1>3, MappingMeans DEF m, n, utc
<1>7. PICK j \in 1 .. n : LiesIn(zn, j, s, o)
  BY <1>1, <1>2, <1>4, ValidLiesIn DEF n, utc
<1>8. Compares(zn, k, l, j, s, o)
  BY <1>1, <1>2, <1>3, <1>6, <1>7, SpanCompares DEF n, utc
<1>9. ASSUME NEW a, NEW b, r = assume_offset(a, 0, b)
      PROVE  r.secs = a /\ r.offset = b /\ r.subsec = 0
  <2>1. r.ok
    BY <1>4
  <2> QED BY <1>9, <2>1 DEF assume_offset, Ok, Err
<1>10. ~(j < k) /\ k \in Nat /\ j \in Nat
  BY <1>1, <1>3, <1>5, <1>8 DEF Compares
<1>11. j > k => k # n /\ utc[k + 1].at <= s - o /\ Lower(utc, k + 1) <= s
  BY <1>5, <1>8 DEF Compares, utc
<1>12. j = k => o = utc[k].offset /\ (k # n => s - o < utc[k + 1].at)
  BY <1>8 DEF Compares, utc, n
<1>13. k # n => /\ k + 1 \in 1 .. n
                /\ Lower(utc, k + 1) \in Int
                /\ Lower(utc, k + 1) <= utc[k + 1].at + utc[k].offset
                /\ Upper(utc, k + 1) = utc[k + 1].at + Larger(utc[k].offset, utc[k + 1].offset)
                /\ Lower(utc, k + 1) = utc[k + 1].at + Smaller(utc[k].offset, utc[k + 1].offset)
  <2> HAVE k # n
  <2>1. k + 1 \in 1 .. n /\ k + 1 \in 2 .. n /\ (k + 1) - 1 = k
    BY <1>5
  <2> QED BY <1>2, <2>1, LocalOrder DEF utc, n, Upper, Lower
\* An answer with the offset before, where l is still in span k.
<1>14. ASSUME l - utc[k].offset < utc[k + 1].at \/ k = n
       PROVE  l - utc[k].offset <= s - o
  <2>1. CASE j = k
    BY <1>1, <1>3, <1>5, <1>12, <2>1
  <2>2. CASE j > k
    BY <1>1, <1>3, <1>5, <1>11, <1>13, <1>14, <2>2
  <2> QED BY <1>10, <2>1, <2>2
<1>15. CASE m.kind = "unique"
  <2>1. r.secs = l /\ r.offset = utc[k].offset /\ r.subsec = 0
    BY <1>4, <1>6, <1>9, <1>15 DEF Means, utc
  <2>2. l - utc[k].offset < utc[k + 1].at \/ k = n
    <3>1. k = n \/ l < Lower(utc, k + 1)
      BY <1>6, <1>15 DEF Means, utc, n
    <3> QED BY <1>3, <1>5, <1>13, <3>1
  <2> QED BY <1>3, <1>5, <1>14, <2>1, <2>2 DEF r, s, o
<1>16. CASE m.kind = "fold"
  <2>1. /\ k # n /\ m.before = utc[k].offset /\ m.after = utc[k + 1].offset
        /\ m.after < m.before
    BY <1>6, <1>16 DEF Means, utc, n
  <2>2. l < Upper(utc, k + 1)
    BY <1>6, <2>1 DEF Decides, utc, n
  <2>3. CASE m.after = o
    <3>1. r.secs = l /\ r.offset = o /\ r.subsec = 0
      BY <1>4, <1>9, <1>16, <2>3
    <3> QED BY <1>1, <1>3, <3>1 DEF r, s, o
  <2>4. CASE m.after # o
    <3>1. r.secs = l /\ r.offset = utc[k].offset /\ r.subsec = 0
      BY <1>4, <1>9, <1>16, <2>1, <2>4
    <3>2. l - utc[k].offset < utc[k + 1].at
      BY <1>3, <1>5, <1>13, <2>1, <2>2 DEF Larger
    <3> QED BY <1>3, <1>5, <1>14, <3>1, <3>2 DEF r, s, o
  <2> QED BY <2>3, <2>4
<1>17. CASE m.kind = "gap"
  <2>1. /\ k # n /\ m.before = utc[k].offset /\ m.after = utc[k + 1].offset
        /\ m.before < m.after /\ m.transition = Upper(utc, k + 1) /\ Lower(utc, k + 1) <= l
    BY <1>6, <1>17 DEF Means, utc, n
  <2>2. r.secs = Upper(utc, k + 1) /\ r.offset = utc[k + 1].offset /\ r.subsec = 0
    BY <1>4, <1>9, <1>17, <2>1
  <2>3. r.secs - r.offset = utc[k + 1].at
    BY <1>5, <1>13, <2>1, <2>2 DEF Larger
  <2>4. j # k
    BY <1>1, <1>3, <1>5, <1>12, <1>13, <2>1 DEF Smaller
  <2> QED BY <1>5, <1>10, <1>11, <1>13, <2>1, <2>2, <2>3, <2>4 DEF r, s, o
<1> QED BY <1>6, <1>15, <1>16, <1>17 DEF Means

\* The end of an hour, minute or second is in the same second as the object or
\* later, on the side of a fold that the object is on.
LEMMA EndOfTimeAfter ==
    ASSUME NEW z \in Objects, ValidIn(z.tz, z.secs, z.offset), NEW u \in TimeUnits,
           EndOfTime(z, u).ok
    PROVE  LET r == EndOfTime(z, u) IN
           /\ r.subsec = Ticks - 1 /\ r.secs - r.offset \in Int
           /\ z.secs - z.offset <= r.secs - r.offset
<1> DEFINE zn == z.tz
           utc == zn.utc
           n == Len(utc)
           l == UnitStart(z, u) + u - 1
           s == z.secs
           o == z.offset
           m == mapping_for_local(zn, l)
           r == EndOfTime(z, u)
           useAfter == \/ m.after = o
                       \/ l + 1 = m.transition /\ m.before - m.after < u
           last == m.transition - (m.after - m.before) - 1
<1>1. zn \in Zones /\ s \in Int /\ o \in Int /\ s \in Epochs
  BY ObjectFacts, Arithmetic
<1>2. WellFormed(zn)
  BY <1>1, ZonesAssumption
<1>3. l \in Epochs /\ l \in Int /\ s <= l
  <2>1. u \in Nat \ {0}
    BY UnitsAssumption
  <2>2. UnitStart(z, u) \in Epochs /\ s < UnitStart(z, u) + u
    BY <1>1, <2>1, UnitBounds DEF UnitStart
  <2>3. l \in Epochs
    BY TimeUnitBounds
  <2>4. UnitStart(z, u) \in Int
    BY <2>2, Arithmetic
  <2>5. l \in Int /\ s <= l
    BY <1>1, <2>1, <2>2, <2>4
  <2> QED BY <2>3, <2>5
<1>4. r.ok /\ ValidIn(zn, s, o)
  OBVIOUS
<1>5. r = CASE m.kind = "unique" -> assume_offset(l, Ticks - 1, m.offset)
            [] m.kind = "fold" ->
                  assume_offset(l, Ticks - 1, IF useAfter THEN m.after ELSE m.before)
            [] m.kind = "gap" -> assume_offset(clamp(last), Ticks - 1, m.before)
            [] m.kind = "panic" -> Err("panic")
  BY DEF EndOfTime
<1>6. n \in Nat /\ \A i \in 1 .. n : utc[i].at \in Int /\ utc[i].offset \in Int
  BY <1>2, ZoneFacts
<1>7. MappingPromise(zn, m, l)
  BY <1>2, <1>3, MappingKeepsPromise
<1> HIDE DEF r, m, l, n, utc, zn, s, o, useAfter
<1>8. PICK k \in 1 .. n : Decides(zn, k, l) /\ Means(zn, k, m, l)
  BY <1>2, <1>3, MappingMeans DEF m, n, utc
<1>9. PICK j \in 1 .. n : LiesIn(zn, j, s, o)
  BY <1>1, <1>2, <1>4, ValidLiesIn DEF n, utc
<1>10. Compares(zn, k, l, j, s, o)
  BY <1>1, <1>2, <1>3, <1>8, <1>9, SpanCompares DEF n, utc
<1>11. ASSUME NEW a, NEW b, r = assume_offset(a, Ticks - 1, b)
       PROVE  r.secs = a /\ r.offset = b /\ r.subsec = Ticks - 1
  BY <1>4, <1>11 DEF assume_offset, Ok, Err
<1>12. /\ j < k => s - o < utc[k].at /\ k # 1 /\ utc[k].at <= l - utc[k].offset
       /\ j = k => o = utc[k].offset
       /\ j > k => k # n /\ Lower(utc, k + 1) <= s
       /\ j = k + 1 => o = utc[k + 1].offset /\ utc[k + 1].at <= s - o
       /\ ~(j > k + 1) /\ k \in Nat /\ j \in Nat
  BY <1>1, <1>3, <1>6, <1>10 DEF Compares, utc
<1>13. k # n => /\ k + 1 \in 1 .. n
                /\ l < Upper(utc, k + 1)
                /\ utc[k].at < utc[k + 1].at
                /\ Upper(utc, k + 1) = utc[k + 1].at + Larger(utc[k].offset, utc[k + 1].offset)
                /\ Lower(utc, k + 1) = utc[k + 1].at + Smaller(utc[k].offset, utc[k + 1].offset)
  <2> HAVE k # n
  <2>1. k + 1 \in 1 .. n /\ (k + 1) - 1 = k /\ k < k + 1
    BY <1>6
  <2>2. utc[k].at < utc[k + 1].at
    BY <1>2, <2>1, UtcOrder DEF utc, n
  <2>3. l < Upper(utc, k + 1)
    BY <1>8 DEF Decides, utc, n
  <2> QED BY <2>1, <2>2, <2>3 DEF Upper, Lower
\* An answer with the offset of span k, if the object is not after that span.
<1>14. ASSUME ~(j > k)
       PROVE  s - o <= l - utc[k].offset
  <2>1. CASE j = k
    BY <1>1, <1>3, <1>6, <1>12, <2>1
  <2>2. CASE j < k
    BY <1>1, <1>3, <1>6, <1>12, <2>2
  <2> QED BY <1>12, <1>14, <2>1, <2>2
<1>15. CASE m.kind = "unique"
  <2>1. r.secs = l /\ r.offset = utc[k].offset /\ r.subsec = Ticks - 1
    BY <1>5, <1>8, <1>11, <1>15 DEF Means, utc
  <2>2. ~(j > k)
    <3>1. k = n \/ l < Lower(utc, k + 1)
      BY <1>8, <1>15 DEF Means, utc, n
    <3>2. k # n => Lower(utc, k + 1) \in Int
      BY <1>6, <1>13 DEF Smaller
    <3> QED BY <1>1, <1>3, <1>12, <3>1, <3>2
  <2> QED BY <1>3, <1>6, <1>14, <2>1, <2>2 DEF r, s, o
<1>16. CASE m.kind = "fold"
  <2>1. /\ k # n /\ m.before = utc[k].offset /\ m.after = utc[k + 1].offset
        /\ m.after < m.before /\ Lower(utc, k + 1) <= l
    BY <1>8, <1>16 DEF Means, utc, n
  <2>2. Lower(utc, k + 1) = utc[k + 1].at + utc[k + 1].offset
    BY <1>6, <1>13, <2>1 DEF Smaller
  <2>3. CASE useAfter
    <3>1. r.secs = l /\ r.offset = utc[k + 1].offset /\ r.subsec = Ticks - 1
      BY <1>5, <1>11, <1>16, <2>1, <2>3
    <3>2. utc[k + 1].at <= l - utc[k + 1].offset
      BY <1>3, <1>6, <1>13, <2>1, <2>2
    <3>3. s - o <= l - utc[k + 1].offset
      <4>1. CASE j = k + 1
        BY <1>1, <1>3, <1>6, <1>12, <1>13, <2>1, <4>1
      <4>2. CASE j = k
        <5>1. s - o < utc[k + 1].at
          BY <1>10, <2>1, <4>2 DEF Compares, utc, n
        <5> QED BY <1>1, <1>3, <1>6, <1>13, <2>1, <3>2, <5>1
      <4>3. CASE j < k
        BY <1>1, <1>3, <1>6, <1>12, <1>13, <2>1, <3>2, <4>3
      <4> QED BY <1>12, <4>1, <4>2, <4>3
    <3> QED BY <1>3, <1>6, <1>13, <2>1, <3>1, <3>3 DEF r, s, o
  <2>4. CASE ~useAfter
    <3>1. r.secs = l /\ r.offset = utc[k].offset /\ r.subsec = Ticks - 1
      BY <1>5, <1>11, <1>16, <2>1, <2>4
    <3>2. ~(j > k)
      BY <1>12, <2>1, <2>4 DEF useAfter
    <3> QED BY <1>3, <1>6, <1>14, <3>1, <3>2 DEF r, s, o
  <2> QED BY <2>3, <2>4
<1>17. CASE m.kind = "gap"
  <2>1. /\ k # n /\ m.before = utc[k].offset /\ m.after = utc[k + 1].offset
        /\ m.before < m.after /\ m.transition = Upper(utc, k + 1)
    BY <1>8, <1>17 DEF Means, utc, n
  <2>2. clamp(last) = last
    BY <1>7, <1>17 DEF MappingPromise
  <2>3. r.secs = last /\ r.offset = utc[k].offset /\ r.subsec = Ticks - 1
    BY <1>5, <1>11, <1>17, <2>1, <2>2
  <2>4. r.secs - r.offset = utc[k + 1].at - 1
    BY <1>6, <1>13, <2>1, <2>3 DEF Larger
  <2>5. j # k + 1
    BY <1>1, <1>3, <1>6, <1>12, <1>13, <2>1 DEF Larger
  <2>6. s - o < utc[k + 1].at
    <3>1. CASE j = k
      BY <1>10, <2>1, <3>1 DEF Compares, utc, n
    <3>2. CASE j < k
      BY <1>1, <1>6, <1>12, <1>13, <2>1, <3>2
    <3> QED BY <1>12, <2>5, <3>1, <3>2
  <2> QED BY <1>1, <1>6, <1>13, <2>1, <2>3, <2>4, <2>6 DEF r, s, o
<1> QED BY <1>8, <1>15, <1>16, <1>17 DEF Means

\* A number less its remainder is a multiple, and so is a multiple more.
LEMMA BoundaryMod ==
    ASSUME NEW d \in Nat \ {0}, NEW q \in Int
    PROVE  /\ (q - (q % d)) % d = 0
           /\ \A x1 \in Int : (d * x1) % d = 0
<1>1. ASSUME NEW x1 \in Int PROVE (d * x1) % d = 0
  <2> DEFINE y == d * x1
             e == y \div d
             r == y % d
  <2>1. y \in Int /\ e \in Int /\ r \in Int /\ 0 <= r /\ r < d /\ y = d * e + r
    BY SMT
  <2> HIDE DEF e, r
  <2> DEFINE w == x1 - e
  <2>2. w \in Int /\ d * w = r
    BY <2>1, SMT
  <2> HIDE DEF w
  <2>3. w >= 1 => d * w >= d
    BY <2>2, SMT
  <2>4. w <= -1 => d * w <= -d
    BY <2>2, SMT
  <2>5. w = 0
    BY <2>1, <2>2, <2>3, <2>4, SMT
  <2>6. r = 0
    BY <2>2, <2>5, SMT
  <2> QED BY <2>6 DEF r
<1>2. q - (q % d) = d * (q \div d) /\ (q \div d) \in Int
  BY SMT
<1> QED BY <1>1, <1>2

\* In a zone whose gaps are shorter than a day or skip whole dates, the day of an
\* object is at least a second long.
LEMMA DayLengthPositive ==
    ASSUME NEW z \in Objects, ValidIn(z.tz, z.secs, z.offset), SkipsWholeDates(z.tz),
           Midnight(z.secs) + DayLen \in Epochs,
           resolve_compatible(z.tz, Midnight(z.secs), 0).ok,
           resolve_compatible(z.tz, Midnight(z.secs) + DayLen, 0).ok
    PROVE  LET a == resolve_compatible(z.tz, Midnight(z.secs), 0)
               b == resolve_compatible(z.tz, Midnight(z.secs) + DayLen, 0)
           IN  /\ a.subsec = 0 /\ b.subsec = 0
               /\ a.secs - a.offset \in Int /\ b.secs - b.offset \in Int
               /\ a.secs - a.offset < b.secs - b.offset
<1> DEFINE zn == z.tz
           utc == zn.utc
           n == Len(utc)
           l == Midnight(z.secs)
           h == l + DayLen
           s == z.secs
           o == z.offset
           m == mapping_for_local(zn, l)
<1>1. zn \in Zones /\ s \in Int /\ o \in Int /\ s \in Epochs /\ ValidIn(zn, s, o)
  BY ObjectFacts, Arithmetic
<1>2. WellFormed(zn)
  BY <1>1, ZonesAssumption
<1>3. DayLen \in Nat \ {0}
  BY Arithmetic
<1>4. l \in Epochs /\ l <= s /\ s < h /\ h \in Epochs
  BY <1>1, <1>3, UnitBounds DEF Midnight
<1>5. l \in Int /\ h \in Int /\ h = l + DayLen
  BY <1>4, Arithmetic
<1>6. n \in Nat /\ \A i \in 1 .. n : utc[i].at \in Int /\ utc[i].offset \in Int
  BY <1>2, ZoneFacts
<1>7. l = Midnight(l) /\ l - EpochMin \in Int /\ (l - EpochMin) % DayLen = 0
  <2>1. s - EpochMin \in Nat /\ EpochMin \in Int /\ l = s - ((s - EpochMin) % DayLen)
    BY <1>1, RangeAssumption DEF Epochs, Midnight
  <2> DEFINE q == s - EpochMin
  <2>2. l - EpochMin = q - (q % DayLen)
    BY <1>1, <1>3, <2>1
  <2>3. (q - (q % DayLen)) % DayLen = 0
    <3> HIDE DEF q
    <3>1. q \in Int
      BY <2>1 DEF q
    <3> QED BY <3>1, <1>3, BoundaryMod
  <2>4. (l - EpochMin) % DayLen = 0
    BY <2>2, <2>3
  <2> QED BY <1>5, <2>1, <2>4 DEF Midnight
<1>8. resolve_compatible(zn, l, 0).ok /\ resolve_compatible(zn, h, 0).ok /\ SkipsWholeDates(zn)
  OBVIOUS
<1> HIDE DEF zn, utc, n, l, h, s, o, m
<1>9. PICK k \in 1 .. n : Decides(zn, k, l) /\ Means(zn, k, m, l)
  BY <1>2, <1>5, MappingMeans DEF m, n, utc
<1>10. PICK i \in 1 .. n : Decides(zn, i, h) /\ Means(zn, i, mapping_for_local(zn, h), h)
  BY <1>2, <1>5, MappingMeans DEF n, utc
<1> SUFFICES l - utc[k].offset < h - utc[i].offset
  <2> DEFINE a == resolve_compatible(zn, l, 0)
             b == resolve_compatible(zn, h, 0)
  <2>1. a.secs - a.offset = l - utc[k].offset /\ a.subsec = 0
    BY <1>2, <1>4, <1>8, <1>9, CompatibleInstant DEF m, n, utc
  <2>2. b.secs - b.offset = h - utc[i].offset /\ b.subsec = 0
    BY <1>2, <1>4, <1>8, <1>10, CompatibleInstant DEF n, utc
  <2>3. l - utc[k].offset \in Int /\ h - utc[i].offset \in Int
    BY <1>5, <1>6
  <2> HIDE DEF a, b
  <2>4. /\ a.subsec = 0 /\ b.subsec = 0
        /\ a.secs - a.offset \in Int /\ b.secs - b.offset \in Int
        /\ a.secs - a.offset < b.secs - b.offset
    BY <2>1, <2>2, <2>3
  <2> QED BY <2>4 DEF a, b, zn, h, l
<1>11. (i # 1 => Upper(utc, i) <= h) /\ (i # n => h < Upper(utc, i + 1))
  BY <1>10 DEF Decides, utc, n
<1>12. (k # 1 => Upper(utc, k) <= l) /\ (k # n => l < Upper(utc, k + 1))
  BY <1>9 DEF Decides, utc, n
<1>13. ~(i < k)
  <2> SUFFICES ASSUME i < k PROVE FALSE
    OBVIOUS
  <2>1. i + 1 \in 2 .. n /\ k \in 2 .. n /\ i # n /\ k # 1
    BY <1>6
  <2>2. Upper(utc, i + 1) <= Upper(utc, k) /\ Upper(utc, i + 1) \in Int /\ Upper(utc, k) \in Int
    BY <1>2, <1>6, <2>1, LocalOrder DEF utc, n
  <2> QED BY <1>3, <1>5, <1>11, <1>12, <2>1, <2>2
<1>14. CASE i = k
  BY <1>3, <1>5, <1>6, <1>14
<1>15. CASE i > k
  <2> DEFINE c == utc[k + 1].at
             b == utc[k].offset
             a == utc[k + 1].offset
  <2>1. k + 1 \in 1 .. n /\ k + 1 \in 2 .. n /\ (k + 1) - 1 = k /\ i \in 2 .. n /\ k # n /\ i # 1
        /\ k \in 1 .. n - 1
    BY <1>6, <1>15
  <2>2. a \in Int /\ b \in Int /\ c \in Int /\ utc[i].at \in Int /\ utc[i].offset \in Int
    BY <1>6, <2>1
  <2>3. utc[i].at <= h - utc[i].offset
    <3>1. utc[i].at + utc[i].offset <= Upper(utc, i) /\ Upper(utc, i) <= h /\ Upper(utc, i) \in Int
      BY <1>2, <1>11, <2>1, LocalOrder DEF utc, n
    <3> QED BY <1>5, <2>2, <3>1
  <2>4. c <= utc[i].at
    <3>1. k + 1 = i \/ k + 1 < i
      BY <1>15, <2>1
    <3>2. k + 1 < i => c < utc[i].at
      BY <1>2, <2>1, UtcOrder DEF utc, n
    <3> QED BY <2>2, <3>1, <3>2
  <2>5. Upper(utc, k + 1) = c + Larger(b, a) /\ Lower(utc, k + 1) = c + Smaller(b, a)
    BY <2>1 DEF Upper, Lower
  <2>6. l < c + Larger(b, a)
    BY <1>12, <2>1, <2>5
  <2>7. zn.local[k].at = c + Larger(b, a) /\ zn.local[k].change = a - b /\ k \in DOMAIN zn.local
    <3>1. zn.local[k].at = Upper(utc, k + 1) /\ zn.local[k].change = a - b
      BY <1>2, <2>1, ZoneFacts DEF utc, n
    <3>2. DOMAIN zn.local = 1 .. n - 1
      BY <1>2 DEF WellFormed, local_transitions, utc, n
    <3> QED BY <2>1, <2>5, <3>1, <3>2
  <2>8. k + 1 < i => c + Abs(a - b) <= utc[i].at
    <3> HAVE k + 1 < i
    <3>1. k + 2 \in 2 .. n /\ k + 2 = (k + 1) + 1 /\ k + 2 \in 1 .. n
      BY <1>6, <2>1
    <3>2. utc[k + 2].at - c >= Abs(a - b)
      <4>1. utc[k + 2].at - utc[k + 1].at >= Change(utc, k + 1)
        BY <1>2, <2>1, <3>1 DEF WellFormed, WellFormedUtc, utc, n
      <4> QED BY <2>1, <4>1 DEF Change
    <3>3. utc[k + 2].at <= utc[i].at
      <4>1. k + 2 = i \/ k + 2 < i
        BY <1>6, <2>1
      <4>2. k + 2 < i => utc[k + 2].at < utc[i].at
        BY <1>2, <3>1, UtcOrder DEF utc, n
      <4>3. utc[k + 2].at \in Int
        BY <1>6, <3>1
      <4> QED BY <2>2, <4>1, <4>2, <4>3
    <3>4. utc[k + 2].at \in Int /\ Abs(a - b) \in Int
      BY <1>6, <2>2, <3>1 DEF Abs
    <3> QED BY <2>2, <3>2, <3>3, <3>4
  <2> HIDE DEF a, b, c
  \* Midnight exists, or clocks go back over it: it is before the transition.
  <2>9. CASE l < c + b
    <3>1. l - b < c
      BY <1>5, <2>2, <2>9
    <3>2. l - utc[k].offset < c
      BY <3>1 DEF b
    <3> QED BY <1>5, <1>6, <2>2, <2>3, <2>4, <3>2
  \* Midnight is in the gap.
  <2>10. CASE c + b <= l
    <3>1. b < a /\ l < c + a
      BY <1>5, <2>2, <2>6, <2>10 DEF Larger
    <3>2. CASE i = k + 1
      <4>1. CASE a - b < DayLen
        <5>1. l - b < h - a
          BY <1>3, <1>5, <2>2, <4>1
        <5> QED BY <3>2, <5>1 DEF a, b
      <4>2. CASE a - b >= DayLen
        <5>1. Larger(b, a) = a
          BY <2>2, <3>1 DEF Larger
        <5>2. c + a = Midnight(c + a) /\ (c + a) - (a - b) = Midnight((c + a) - (a - b))
          BY <1>8, <2>7, <4>2, <5>1 DEF SkipsWholeDates
        <5>3. s >= c + a
          <6>1. PICK j \in 1 .. n : LiesIn(zn, j, s, o)
            BY <1>1, <1>2, ValidLiesIn DEF n, utc
          <6>2. Compares(zn, k, l, j, s, o)
            BY <1>1, <1>2, <1>5, <1>9, <6>1, SpanCompares DEF n, utc
          <6>3. /\ ~(j < k) /\ j \in Nat /\ k \in Nat
            BY <1>1, <1>4, <1>5, <6>2 DEF Compares
          <6>4. j # k
            BY <1>1, <1>4, <1>5, <2>1, <2>2, <2>10, <6>2, SMTT(40) DEF Compares, b, c, utc, n
          <6>5. c <= s - o /\ (j = k + 1 => o = a)
            BY <6>2, <6>3, <6>4 DEF Compares, c, a, utc
          <6>6. CASE j = k + 1
            BY <1>1, <2>2, <6>5, <6>6
          <6>7. CASE j > k + 1
            <7>1. k + 1 < j /\ j \in 2 .. n
              BY <6>7, <2>1
            <7>2. Upper(utc, k + 1) <= Lower(utc, j) /\ Lower(utc, j) <= utc[j].at + utc[j].offset
                  /\ Lower(utc, j) \in Int
              BY <1>2, <2>1, <7>1, LocalOrder DEF utc, n
            <7>3. utc[j].at <= s - o /\ o = utc[j].offset /\ utc[j].at \in Int
              BY <1>6, <6>1, <7>1 DEF LiesIn, InSpan, utc
            <7> QED BY <1>1, <2>2, <2>5, <5>1, <7>2, <7>3
          <6> QED BY <6>3, <6>4, <6>6, <6>7
        <5>4. (c + a) - (a - b) = c + b
          BY <2>2
        \* Both ends of the gap are midnights, l is one as well, and the object
        \* is after the gap and less than a day after l: l is not in the gap.
        <5>5. ((c + a) - EpochMin) % DayLen = 0
          <6> DEFINE x1 == c + a
                     y == (x1 - EpochMin) % DayLen
          <6>1. x1 \in Int /\ x1 - EpochMin \in Int /\ y \in Int /\ x1 = x1 - y
            BY <1>3, <2>2, <5>2, RangeAssumption DEF Midnight
          <6>2. y = 0
            <7> HIDE DEF x1, y
            <7> QED BY <6>1
          <6> QED BY <6>2
        <5>6. c + a <= l
          <6> DEFINE p == l - EpochMin
                     q == (c + a) - EpochMin
          <6>1. p \in Int /\ q \in Int /\ (p % DayLen) = 0 /\ (q % DayLen) = 0 /\ q < p + DayLen
            BY <1>1, <1>3, <1>4, <1>5, <1>7, <2>2, <5>3, <5>5, RangeAssumption
          <6> HIDE DEF p, q
          <6>2. q <= p
            <7>1. p = DayLen * (p \div DayLen) /\ q = DayLen * (q \div DayLen)
                  /\ (p \div DayLen) \in Int /\ (q \div DayLen) \in Int
              BY <1>3, <6>1
            <7> DEFINE x1 == p \div DayLen
                       y == q \div DayLen
            <7>2. DayLen * y < DayLen * (x1 + 1)
              BY <1>3, <6>1, <7>1
            <7>3. y < x1 + 1
              <8> HIDE DEF x1, y
              <8> QED BY <1>3, <7>1, <7>2 DEF x1, y
            <7> QED BY <1>3, <7>1, <7>3
          <6> QED BY <1>5, <2>2, <6>2, RangeAssumption DEF p, q
        <5> QED BY <1>5, <2>2, <3>1, <5>6
      <4> QED BY <2>2, <1>3, <4>1, <4>2
    <3>3. CASE k + 1 < i
      <4>1. Abs(a - b) = a - b
        BY <2>2, <3>1 DEF Abs
      <4>2. l - b < c + (a - b)
        BY <1>5, <2>2, <3>1
      <4>3. l - utc[k].offset < c + (a - b)
        BY <4>2 DEF b
      <4> QED BY <1>5, <1>6, <2>2, <2>3, <2>8, <3>3, <4>1, <4>3
    <3> QED BY <1>15, <2>1, <3>2, <3>3
  <2> QED BY <1>5, <2>2, <2>9, <2>10
<1> QED BY <1>6, <1>13, <1>14, <1>15

\* The instant of the step back of one nanosecond from the start of the next unit.
LEMMA EndOfDateInstant ==
    ASSUME NEW z \in Objects, NEW u \in DateUnits, EndOfDate(z, u).ok
    PROVE  LET next == UnitStart(z, u) + u
               r == resolve_compatible(z.tz, next, 0)
               e == EndOfDate(z, u)
           IN  /\ next \in Epochs /\ r.ok
               /\ r.secs - r.offset - 1 \in Epochs
               /\ e = to_offset_in(z.tz, r.secs - r.offset - 1, Ticks - 1)
               /\ e.secs - e.offset = r.secs - r.offset - 1 /\ e.subsec = Ticks - 1
<1> DEFINE next == UnitStart(z, u) + u
           r == resolve_compatible(z.tz, next, 0)
           e == EndOfDate(z, u)
           t == r.secs - r.offset - 1
           o == offset_for_instant(z.tz, t)
<1>1. e.ok /\ e = IF next \notin Epochs THEN Err("range")
                  ELSE IF ~r.ok THEN r
                  ELSE IF t \notin Epochs THEN Err("panic")
                  ELSE to_offset_in(z.tz, t, Ticks - 1)
  BY DEF EndOfDate
<1> HIDE DEF next, r, e, t, o
<1>2. next \in Epochs /\ r.ok /\ t \in Epochs /\ e = to_offset_in(z.tz, t, Ticks - 1)
  BY <1>1 DEF Err
<1>3. o \in Int /\ t \in Int
  <2>1. z.tz \in Zones
    BY ObjectFacts
  <2>2. o \in Offsets
    BY <1>2, <2>1, ZonesAssumption, OffsetForInstantType DEF o
  <2> QED BY <1>2, <2>2, Arithmetic
<1>4. e = Ok(t + o, Ticks - 1, o)
  BY <1>1, <1>2 DEF to_offset_in, o, Err
<1>5. e.secs = t + o /\ e.offset = o /\ e.subsec = Ticks - 1
  BY <1>4 DEF Ok
<1>6. e.secs - e.offset = t
  BY <1>3, <1>5
<1> QED BY <1>2, <1>5, <1>6 DEF next, r, e, t

\* A unit of any object contains it, in gaps and on both sides of folds.
LEMMA UnitsContain ==
    ASSUME IndInv, ~stale
    PROVE  UnitsContainObject
<1>1. zdt \in Objects /\ ValidIn(zdt.tz, zdt.secs, zdt.offset)
  BY DEF IndInv, TypeOK, OffsetIsValid
<1>2. /\ zdt.secs \in Epochs /\ zdt.secs \in Int /\ zdt.offset \in Int /\ zdt.subsec \in Subsecs
      /\ zdt.tz \in Zones /\ WellFormed(zdt.tz) /\ zdt.secs - zdt.offset \in Int
  <2>1. /\ zdt.secs \in Epochs /\ zdt.offset \in Offsets /\ zdt.subsec \in Subsecs
        /\ zdt.tz \in Zones
    BY <1>1, ObjectFacts
  <2>2. zdt.secs \in Int /\ zdt.offset \in Int
    BY <2>1, Arithmetic
  <2>3. WellFormed(zdt.tz)
    BY <2>1, ZonesAssumption
  <2> QED BY <2>1, <2>2, <2>3
<1>3. 0 \in Subsecs /\ Ticks - 1 \in Subsecs /\ Ticks \in Nat \ {0}
  BY Arithmetic
<1>4. ThisInstant = Ticked(zdt.secs - zdt.offset, zdt.subsec)
  BY DEF ThisInstant, InstantTicks
<1>5. ASSUME SkipsWholeDates(zdt.tz), NEW i \in DOMAIN day_length(zdt)
      PROVE  day_length(zdt)[i] >= Ticks
  <2> DEFINE h == Midnight(zdt.secs) + DayLen
             a == resolve_compatible(zdt.tz, Midnight(zdt.secs), 0)
             b == resolve_compatible(zdt.tz, h, 0)
             d == InstantTicks(b) - InstantTicks(a)
  <2>1. day_length(zdt) = IF h \in Epochs /\ a.ok /\ b.ok THEN <<d>> ELSE <<>>
    BY DEF day_length
  <2> HIDE DEF h, a, b, d
  <2>2. h \in Epochs /\ a.ok /\ b.ok /\ day_length(zdt) = <<d>> /\ i = 1
    BY <1>5, <2>1
  <2>3. /\ a.subsec = 0 /\ b.subsec = 0
        /\ a.secs - a.offset \in Int /\ b.secs - b.offset \in Int
        /\ a.secs - a.offset < b.secs - b.offset
    BY <1>1, <1>5, <2>2, DayLengthPositive DEF a, b, h
  <2>4. d >= Ticks
    BY <1>3, <2>3, TickedOrder DEF d, InstantTicks
  <2> QED BY <2>2, <2>4
<1>6. ASSUME NEW u \in Units, Regular(u), start_of(zdt, u).ok
      PROVE  InstantTicks(start_of(zdt, u)) <= ThisInstant
  <2> DEFINE r == start_of(zdt, u)
             t == r.secs - r.offset
  <2>1. t \in Int /\ r.subsec = 0 /\ t <= zdt.secs - zdt.offset
    <3>1. CASE u \in TimeUnits
      BY <1>1, <1>6, <3>1, StartOfTimeBefore DEF start_of
    <3>2. CASE u \notin TimeUnits
      <4> DEFINE l == UnitStart(zdt, u)
      <4>1. u \in Nat \ {0} /\ u \in DateUnits
        BY <1>6, <3>2, UnitsAssumption, Arithmetic DEF Units
      <4>2. l \in Epochs /\ l <= zdt.secs
        BY <1>2, <4>1, UnitBounds DEF UnitStart
      <4>3. Outside(mapping_for_local(zdt.tz, l), l)
        BY <1>6, <3>2 DEF Regular, Inside, Outside
      <4>4. r = resolve_compatible(zdt.tz, l, 0) /\ r.ok
        BY <1>6, <3>2 DEF start_of
      <4> HIDE DEF l, r
      <4>5. r.secs - r.offset <= zdt.secs - zdt.offset
        BY <1>1, <1>2, <4>2, <4>3, <4>4, CompatibleBefore
      <4>6. Fine(zdt.tz, r) /\ r.subsec = 0
        <5>1. Disambiguate("compatible").kind = "compatible" /\ "compatible" \in PolicyKinds
          BY DEF Disambiguate, PolicyKinds, Disambiguation
        <5> QED BY <1>2, <4>2, <4>4, <5>1, CompatibleFine, ResolveSound DEF resolve_compatible
      <4>7. r.secs - r.offset \in Int
        BY <4>4, <4>6, Arithmetic DEF Fine, Sound, ValidIn
      <4> QED BY <4>5, <4>6, <4>7
    <3> QED BY <3>1, <3>2
  <2>2. InstantTicks(r) = Ticked(t, 0)
    BY <2>1 DEF InstantTicks
  <2> HIDE DEF t, r
  <2>3. Ticked(t, 0) <= ThisInstant
    BY <1>2, <1>3, <1>4, <2>1, TickedOrder
  <2> QED BY <2>2, <2>3 DEF r
<1>7. ASSUME NEW u \in Units, Regular(u), end_of(zdt, u).ok
      PROVE  InstantTicks(end_of(zdt, u)) >= ThisInstant
  <2> DEFINE r == end_of(zdt, u)
             t == r.secs - r.offset
  <2>1. t \in Int /\ r.subsec = Ticks - 1 /\ zdt.secs - zdt.offset <= t
    <3>1. CASE u \in TimeUnits
      BY <1>1, <1>7, <3>1, EndOfTimeAfter DEF end_of
    <3>2. CASE u \notin TimeUnits
      <4> DEFINE l == UnitStart(zdt, u) + u
                 q == resolve_compatible(zdt.tz, l, 0)
      <4>1. u \in Nat \ {0} /\ u \in DateUnits
        BY <1>7, <3>2, UnitsAssumption, Arithmetic DEF Units
      <4>2. zdt.secs < l
        BY <1>2, <4>1, UnitBounds DEF UnitStart
      <4>3. Outside(mapping_for_local(zdt.tz, l), l)
        BY <1>7, <3>2 DEF Regular, Inside, Outside
      <4>4. r = EndOfDate(zdt, u) /\ r.ok
        BY <1>7, <3>2 DEF end_of
      <4>5. /\ l \in Epochs /\ q.ok
            /\ t = q.secs - q.offset - 1 /\ t \in Epochs /\ r.subsec = Ticks - 1
        BY <1>1, <4>1, <4>4, EndOfDateInstant
      <4> HIDE DEF l, r, t
      <4>6. zdt.secs - zdt.offset < q.secs - q.offset
        BY <1>1, <1>2, <4>2, <4>3, <4>5, CompatibleAfter
      <4>7. Fine(zdt.tz, q)
        BY <1>2, <4>5, CompatibleFine
      <4>8. q.secs - q.offset \in Int /\ t \in Int
        BY <4>5, <4>7, Arithmetic DEF Fine, Sound, ValidIn
      <4> HIDE DEF q
      <4> QED BY <1>2, <4>5, <4>6, <4>8 DEF t
    <3> QED BY <3>1, <3>2
  <2>2. InstantTicks(r) = Ticked(t, Ticks - 1)
    BY <2>1 DEF InstantTicks
  <2> HIDE DEF t, r
  <2>3. ThisInstant <= Ticked(t, Ticks - 1) /\ Ticked(t, Ticks - 1) \in Int /\ ThisInstant \in Int
    BY <1>2, <1>3, <1>4, <2>1, TickedOrder
  <2>4. InstantTicks(r) >= ThisInstant
    BY <2>2, <2>3
  <2> QED BY <2>4 DEF r
<1> QED BY <1>5, <1>6, <1>7 DEF UnitsContainObject

\* In every well-formed zone, start_of is at or before the object and end_of at or
\* after it, for all units, and the length of a day is positive (round_day casts
\* it to an unsigned number).
THEOREM UnitsAlwaysContainObject == Spec => []UnitsContainObject
<1>1. IndInv => UnitsContainObject
  BY UnitsContain DEF UnitsContainObject
<1> QED BY <1>1, InvAlways, PTL

-----------------------------------------------------------------------------
(***************************************************************************)
(* Boundaries.  A unit begins at every multiple of its length from the     *)
(* start of time.                                                          *)
(***************************************************************************)
IsBoundary(x1, u) == (x1 - EpochMin) % u = 0

\* Multiples add up, and the unit of a time at or after a boundary begins at or
\* after it.
LEMMA Multiples ==
    ASSUME NEW d \in Nat \ {0}, NEW x1 \in Int, x1 % d = 0, NEW y \in Int
    PROVE  /\ y % d = 0 => (x1 + y) % d = 0 /\ (y - x1) % d = 0
           /\ x1 <= y => x1 <= y - (y % d)
           /\ x1 <= y /\ y < x1 + d => y % d = y - x1
<1> DEFINE a == x1 \div d
           b == y \div d
           r == y % d
<1>1. a \in Int /\ x1 = d * a /\ b \in Int /\ r \in Int /\ y = d * b + r /\ 0 <= r /\ r < d
  BY SMT
<1>2. ASSUME r = 0 PROVE (x1 + y) % d = 0 /\ (y - x1) % d = 0
  <2>1. x1 + y = d * (a + b) /\ y - x1 = d * (b - a)
    BY <1>1, <1>2, SMT
  <2>2. a + b \in Int /\ b - a \in Int
    BY <1>1
  <2> HIDE DEF a, b, r
  <2> QED BY <2>1, <2>2, BoundaryMod
<1> HIDE DEF a, b, r
<1> DEFINE w == b - a
<1>3. w \in Int /\ y - r = x1 + d * w /\ y = x1 + d * w + r
  BY <1>1, SMT
<1> HIDE DEF w
<1>4. w <= -1 => d * w <= -d
  BY <1>3, SMT
<1>5. w >= 0 => d * w >= 0
  BY <1>3, SMT
<1>6. w >= 1 => d * w >= d
  BY <1>3, SMT
<1>7. d * w \in Int
  BY <1>3, SMT
<1>8. x1 <= y => x1 <= y - r
  BY <1>1, <1>3, <1>4, <1>5, <1>7, SMT
<1>9. x1 <= y /\ y < x1 + d => r = y - x1
  <2> HAVE x1 <= y /\ y < x1 + d
  <2>1. w = 0
    BY <1>1, <1>3, <1>4, <1>6, <1>7, SMT
  <2> QED BY <1>1, <1>3, <2>1, SMT
<1> QED BY <1>2, <1>8, <1>9 DEF r

\* The start of a unit, and the start of the next one, are boundaries.
LEMMA UnitBoundaries ==
    ASSUME NEW z, z.secs \in Epochs, NEW u \in Nat \ {0}
    PROVE  /\ UnitStart(z, u) \in Int
           /\ IsBoundary(UnitStart(z, u), u)
           /\ IsBoundary(UnitStart(z, u) + u, u)
           /\ \A x1 \in Int : IsBoundary(x1, u) /\ x1 <= z.secs => x1 <= UnitStart(z, u)
           /\ UnitStart(z, u) <= z.secs
           /\ IsBoundary(z.secs, u) => UnitStart(z, u) = z.secs
           /\ \A x1 \in Int : IsBoundary(x1, u) /\ x1 <= z.secs /\ z.secs < x1 + u => UnitStart(z, u) = x1
<1> DEFINE s == z.secs
           q == s - EpochMin
           r == q % u
           l == UnitStart(z, u)
<1>1. s \in Int /\ EpochMin \in Int /\ q \in Int
  <2>1. s \in Int
    BY Arithmetic
  <2> QED BY <2>1, RangeAssumption
<1>2. l = s - r
  BY DEF UnitStart
<1> HIDE DEF l, s
<1>3. r \in Int /\ 0 <= r /\ r < u /\ (q - r) % u = 0
  <2> HIDE DEF q
  <2> QED BY <1>1, BoundaryMod, SMT
<1> HIDE DEF r, q
<1>4. l \in Int /\ l <= s /\ l - EpochMin = q - r /\ (l + u) - EpochMin = (q - r) + u
  BY <1>1, <1>2, <1>3 DEF q
<1>5. u % u = 0
  <2>1. u * 1 = u
    OBVIOUS
  <2>2. (u * 1) % u = 0
    BY BoundaryMod
  <2> QED BY <2>1, <2>2
<1>6. ((q - r) + u) % u = 0
  <2> DEFINE x1 == q - r
  <2>1. x1 \in Int /\ x1 % u = 0
    BY <1>1, <1>3
  <2> HIDE DEF x1
  <2>2. (x1 + u) % u = 0
    <3>1. u \in Int
      OBVIOUS
    <3> QED BY <1>5, <2>1, <3>1, Multiples
  <2> QED BY <2>2 DEF x1
<1>7. ASSUME NEW x1 \in Int, IsBoundary(x1, u), x1 <= s
      PROVE  x1 <= l /\ (s < x1 + u => l = x1)
  <2> DEFINE y == x1 - EpochMin
  <2>1. y \in Int /\ y % u = 0 /\ y <= q
    BY <1>1, <1>7 DEF IsBoundary, q
  <2>2. s < x1 + u => q < y + u
    BY <1>1, <1>7 DEF q
  <2> HIDE DEF y
  <2>3. y <= q - r /\ (q < y + u => r = q - y)
    BY <1>1, <2>1, Multiples DEF r
  <2> QED BY <1>1, <1>2, <1>3, <2>2, <2>3 DEF y, q
<1>8. IsBoundary(s, u) => l = s
  BY <1>1, <1>4, <1>7
<1> QED BY <1>3, <1>4, <1>6, <1>7, <1>8 DEF IsBoundary, l, s

\* An object's own local time reads back as one of the answers of the mapping.
LEMMA ReadsBack ==
    ASSUME NEW zn, WellFormed(zn), NEW s \in Int, NEW o \in Int,
           NEW j \in 1 .. Len(zn.utc), LiesIn(zn, j, s, o),
           NEW k \in 1 .. Len(zn.utc), NEW m, Decides(zn, k, s), Means(zn, k, m, s)
    PROVE  \/ m.kind = "unique" /\ m.offset = o /\ j = k
           \/ m.kind = "fold" /\ m.before = o /\ m.after # o /\ j = k
           \/ m.kind = "fold" /\ m.after = o
<1> DEFINE utc == zn.utc
           n == Len(utc)
<1>1. n \in Nat /\ \A i \in 1 .. n : utc[i].at \in Int /\ utc[i].offset \in Int
  BY ZoneFacts
<1>2. Compares(zn, k, s, j, s, o)
  BY SpanCompares
<1>3. j = k \/ j = k + 1
  BY <1>1, <1>2 DEF Compares
<1>4. k # n => /\ k + 1 \in 1 .. n /\ s < Upper(utc, k + 1)
               /\ Upper(utc, k + 1) = utc[k + 1].at + Larger(utc[k].offset, utc[k + 1].offset)
               /\ Lower(utc, k + 1) = utc[k + 1].at + Smaller(utc[k].offset, utc[k + 1].offset)
  <2> HAVE k # n
  <2>1. k + 1 \in 1 .. n /\ (k + 1) - 1 = k
    BY <1>1
  <2> QED BY <2>1 DEF Upper, Lower, Decides
<1>5. CASE j = k
  <2>1. o = utc[k].offset /\ (k # n => s - o < utc[k + 1].at)
    BY <1>2, <1>5 DEF Compares
  <2>2. m.kind # "gap"
    <3> SUFFICES ASSUME m.kind = "gap" PROVE FALSE
      OBVIOUS
    <3>1. k # n /\ Lower(utc, k + 1) <= s /\ utc[k].offset < utc[k + 1].offset
      BY DEF Means
    <3>2. Smaller(utc[k].offset, utc[k + 1].offset) = utc[k].offset
      BY <1>1, <1>4, <3>1 DEF Smaller
    <3> QED BY <1>1, <1>4, <2>1, <3>1, <3>2, SMTT(40)
  <2>3. m.kind = "fold" => m.before = o /\ m.after # o
    <3> HAVE m.kind = "fold"
    <3>1. m.before = utc[k].offset /\ m.after < m.before /\ m.after = utc[k + 1].offset /\ k # n
      BY DEF Means
    <3> QED BY <1>1, <1>4, <2>1, <3>1
  <2> QED BY <1>5, <2>1, <2>2, <2>3 DEF Means
<1>6. CASE j = k + 1
  <2>1. k # n /\ o = utc[k + 1].offset /\ utc[k + 1].at <= s - o /\ Lower(utc, k + 1) <= s
    BY <1>1, <1>2, <1>6 DEF Compares
  <2>2. utc[k + 1].offset < utc[k].offset
    BY <1>1, <1>4, <2>1, SMTT(40) DEF Larger
  <2>3. m.kind # "unique"
    <3>1. Lower(utc, k + 1) \in Int
      BY <1>1, <1>4, <2>1, SMTT(40) DEF Smaller
    <3> QED BY <2>1, <3>1 DEF Means
  <2>4. m.kind # "gap"
    BY <1>1, <1>4, <2>1, <2>2, SMTT(40) DEF Means
  <2> QED BY <2>1, <2>3, <2>4 DEF Means
<1> QED BY <1>3, <1>5, <1>6

\* The start of an hour, minute or second at which one begins is that time.
LEMMA StartAtStart ==
    ASSUME NEW z, z.secs \in Epochs, z.offset \in Int, WellFormed(z.tz),
           ValidIn(z.tz, z.secs, z.offset), NEW u \in Nat \ {0}, IsBoundary(z.secs, u)
    PROVE  StartOfTime(z, u) = Ok(z.secs, 0, z.offset)
<1> DEFINE zn == z.tz
           s == z.secs
           o == z.offset
           m == mapping_for_local(zn, s)
<1>1. UnitStart(z, u) = s /\ s \in Int
  BY UnitBoundaries, Arithmetic
<1>2. PICK k \in 1 .. Len(zn.utc) : Decides(zn, k, s) /\ Means(zn, k, m, s)
  BY <1>1, MappingMeans
<1>3. PICK j \in 1 .. Len(zn.utc) : LiesIn(zn, j, s, o)
  BY <1>1, ValidLiesIn
<1>4. \/ m.kind = "unique" /\ m.offset = o
      \/ m.kind = "fold" /\ m.before = o /\ m.after # o
      \/ m.kind = "fold" /\ m.after = o
  BY <1>1, <1>2, <1>3, ReadsBack
<1>5. StartOfTime(z, u) =
        CASE m.kind = "unique" -> assume_offset(s, 0, m.offset)
          [] m.kind = "fold" -> assume_offset(s, 0, IF m.after = o THEN m.after ELSE m.before)
          [] m.kind = "gap" -> assume_offset(m.transition, 0, m.after)
          [] m.kind = "panic" -> Err("panic")
  BY <1>1 DEF StartOfTime
<1>6. s - o \in Epochs
  BY DEF ValidIn
<1> HIDE DEF m, s, o
<1>7. StartOfTime(z, u) = assume_offset(s, 0, o)
  BY <1>4, <1>5
<1> QED BY <1>6, <1>7 DEF assume_offset, s, o

\* The end of a gap is the start of every hour, minute or second that begins in
\* the gap, or at its end.
LEMMA StartAfterGap ==
    ASSUME NEW z, z.secs \in Epochs, z.offset \in Int, WellFormed(z.tz),
           ValidIn(z.tz, z.secs, z.offset), NEW u \in Nat \ {0},
           NEW k \in 1 .. Len(z.tz.utc) - 1,
           z.tz.utc[k].offset <= z.tz.utc[k + 1].offset,
           z.offset = z.tz.utc[k + 1].offset, z.secs = Upper(z.tz.utc, k + 1),
           NEW b \in Int, IsBoundary(b, u), Lower(z.tz.utc, k + 1) <= b, b <= z.secs
    PROVE  StartOfTime(z, u) = Ok(z.secs, 0, z.offset)
<1> DEFINE zn == z.tz
           utc == zn.utc
           n == Len(utc)
           s == z.secs
           o == z.offset
           l == UnitStart(z, u)
           m == mapping_for_local(zn, l)
<1>0. n \in Nat /\ \A i \in 1 .. n : utc[i].at \in Int /\ utc[i].offset \in Int
  BY ZoneFacts
<1>1. l \in Int /\ IsBoundary(l, u) /\ b <= l /\ l <= s /\ s \in Int
  BY UnitBoundaries, Arithmetic
<1>2. CASE l = s
  BY <1>1, <1>2, StartAtStart
<1>3. CASE l # s
  <2>1. k + 1 \in 1 .. n /\ k + 1 \in 2 .. n /\ (k + 1) - 1 = k /\ k # n /\ k \in 1 .. n
    BY <1>0
  <2>2. PICK i \in 1 .. n : Decides(zn, i, l) /\ Means(zn, i, m, l)
    BY <1>1, MappingMeans
  <2>3. l < Upper(utc, k + 1) /\ Lower(utc, k + 1) <= l /\ Upper(utc, k + 1) \in Int
    <3>1. Lower(utc, k + 1) \in Int
      BY <2>1, LocalOrder
    <3> QED BY <1>1, <1>3, <3>1
  <2>4. i = k
    <3>1. (i = 1 \/ Upper(utc, i) <= l) /\ (i = n \/ l < Upper(utc, i + 1))
      BY <2>2 DEF Decides
    <3>2. ~(i > k)
      <4> SUFFICES ASSUME i > k PROVE FALSE
        OBVIOUS
      <4>1. i \in 2 .. n /\ i # 1 /\ (i = k + 1 \/ k + 1 < i)
        BY <1>0, <2>1
      <4>2. Upper(utc, k + 1) <= Upper(utc, i) /\ Upper(utc, i) \in Int
        BY <2>1, <2>3, <4>1, LocalOrder
      <4> QED BY <1>1, <2>3, <3>1, <4>1, <4>2
    <3>3. ~(i < k)
      <4> SUFFICES ASSUME i < k PROVE FALSE
        OBVIOUS
      <4>1. i + 1 \in 2 .. n /\ i # n /\ i + 1 < k + 1
        BY <1>0, <2>1
      <4>2. Upper(utc, i + 1) <= Lower(utc, k + 1) /\ Upper(utc, i + 1) \in Int /\ Lower(utc, k + 1) \in Int
        BY <2>1, <4>1, LocalOrder
      <4> QED BY <1>1, <2>3, <3>1, <4>1, <4>2
    <3> QED BY <1>0, <3>2, <3>3
  <2>5. Lower(utc, k + 1) \in Int
    BY <2>1, LocalOrder
  <2>6. m.kind # "unique"
    BY <1>1, <2>1, <2>2, <2>3, <2>4, <2>5 DEF Means
  <2>7. m.kind = "gap" /\ m.transition = s /\ m.after = o
    <3>1. /\ m.transition = Upper(utc, k + 1) /\ m.after = utc[k + 1].offset
          /\ m.before = utc[k].offset
          /\ m.kind = "gap" \/ (m.kind = "fold" /\ m.after < m.before)
      <4> HIDE DEF m, l
      <4> QED BY <2>2, <2>4, <2>6 DEF Means
    <3>2. utc[k].offset \in Int /\ utc[k + 1].offset \in Int
      BY <1>0, <2>1
    <3>3. ~(m.after < m.before)
      BY <3>1, <3>2
    <3> QED BY <3>1, <3>3
  <2>8. StartOfTime(z, u) =
          CASE m.kind = "unique" -> assume_offset(l, 0, m.offset)
            [] m.kind = "fold" -> assume_offset(l, 0, IF m.after = o THEN m.after ELSE m.before)
            [] m.kind = "gap" -> assume_offset(m.transition, 0, m.after)
            [] m.kind = "panic" -> Err("panic")
    BY DEF StartOfTime
  <2>9. s - o \in Epochs
    BY DEF ValidIn
  <2> HIDE DEF m, s, o
  <2>10. StartOfTime(z, u) = assume_offset(s, 0, o)
    BY <2>7, <2>8
  <2> QED BY <2>9, <2>10 DEF assume_offset, s, o
<1> QED BY <1>2, <1>3

\* When the instant t, seen in the zone, is the start of the unit it lies in: its
\* local time is a boundary, or a gap that ends there has swallowed one.
LEMMA StartSeen ==
    ASSUME NEW zn, WellFormed(zn), NEW t \in Epochs, NEW i \in 1 .. Len(zn.utc),
           InSpan(zn, i, t), to_offset_in(zn, t, 0).ok, NEW u \in Nat \ {0},
           NEW x1, x1.tz = zn, x1.secs = to_offset_in(zn, t, 0).secs,
           x1.offset = to_offset_in(zn, t, 0).offset, NEW b \in Int, IsBoundary(b, u),
           \/ b = t + zn.utc[i].offset
           \/ /\ i # 1 /\ t = zn.utc[i].at
              /\ zn.utc[i - 1].offset <= zn.utc[i].offset
              /\ Lower(zn.utc, i) <= b /\ b <= Upper(zn.utc, i)
    PROVE  StartOfTime(x1, u) = to_offset_in(zn, t, 0)
<1> DEFINE utc == zn.utc
           r == to_offset_in(zn, t, 0)
           o == utc[i].offset
<1>1. /\ Len(utc) \in Nat /\ o \in Int /\ t \in Int /\ utc[i].at \in Int
      /\ i # 1 => i - 1 \in 1 .. Len(utc) - 1 /\ utc[i - 1].offset \in Int /\ (i - 1) + 1 = i
  <2>1. Len(utc) \in Nat /\ \A h \in 1 .. Len(utc) : utc[h].offset \in Int /\ utc[h].at \in Int
    BY ZoneFacts
  <2>2. t \in Int
    BY Arithmetic
  <2>3. i # 1 => i - 1 \in 1 .. Len(utc) - 1 /\ (i - 1) + 1 = i /\ i - 1 \in 1 .. Len(utc)
    BY <2>1
  <2> QED BY <2>1, <2>2, <2>3
<1>2. offset_for_instant(zn, t) = o
  BY <1>1, OffsetInAnySpan
<1>3. r.ok /\ r = IF t + o \in Epochs THEN Ok(t + o, 0, o) ELSE Err("range")
  BY <1>2 DEF to_offset_in
<1>4. r = Ok(t + o, 0, o)
  BY <1>3 DEF Err
<1>5. x1.secs = t + o /\ x1.offset = o /\ x1.secs \in Epochs
  <2>1. t + o \in Epochs
    BY <1>3 DEF Err
  <2> QED BY <1>4, <2>1 DEF Ok
<1>6. ValidIn(x1.tz, x1.secs, x1.offset)
  <2>1. (t + o) - o = t
    BY <1>1
  <2> QED BY <1>2, <1>5, <2>1 DEF ValidIn
<1>7. CASE b = t + o
  <2>1. IsBoundary(x1.secs, u)
    BY <1>5, <1>7
  <2>2. StartOfTime(x1, u) = Ok(x1.secs, 0, x1.offset)
    BY <1>1, <1>5, <1>6, <2>1, StartAtStart
  <2> QED BY <1>4, <1>5, <2>2
<1>8. CASE /\ i # 1 /\ t = utc[i].at
           /\ utc[i - 1].offset <= o
           /\ Lower(utc, i) <= b /\ b <= Upper(utc, i)
  <2>1. x1.secs = Upper(utc, i)
    <3>1. Larger(utc[i - 1].offset, o) = o
      BY <1>1, <1>8 DEF Larger
    <3> QED BY <1>5, <1>8, <3>1 DEF Upper
  <2> DEFINE k == i - 1
  <2>2. k \in 1 .. Len(x1.tz.utc) - 1 /\ k + 1 = i
    BY <1>1, <1>8
  <2>3. /\ x1.tz.utc[k].offset <= x1.tz.utc[k + 1].offset
        /\ x1.offset = x1.tz.utc[k + 1].offset /\ x1.secs = Upper(x1.tz.utc, k + 1)
        /\ Lower(x1.tz.utc, k + 1) <= b /\ b <= x1.secs
    BY <1>1, <1>5, <1>8, <2>1, <2>2
  <2> HIDE DEF k
  <2>4. WellFormed(x1.tz) /\ x1.offset \in Int
    BY <1>1, <1>5
  <2>5. StartOfTime(x1, u) = Ok(x1.secs, 0, x1.offset)
    BY <1>5, <1>6, <2>2, <2>3, <2>4, StartAfterGap
  <2> QED BY <1>4, <1>5, <2>5
<1> QED BY <1>7, <1>8

\* A fold that takes a unit or longer, and a whole number of units.
WholeFolds(tz, u) ==
    \A i \in DOMAIN tz.local : LET c == tz.local[i].change IN c >= -u \/ c % u = 0

\* The second after the end of an hour, minute or second is in the span i and is
\* the start of one.
LEMMA EndOfTimeLinesUp ==
    ASSUME NEW z \in Objects, NEW u \in TimeUnits, EndOfTime(z, u).ok, WholeFolds(z.tz, u),
           NEW t \in Epochs, t = (EndOfTime(z, u).secs - EndOfTime(z, u).offset) + 1,
           to_offset_in(z.tz, t, 0).ok,
           NEW x1, x1.tz = z.tz, x1.secs = to_offset_in(z.tz, t, 0).secs,
           x1.offset = to_offset_in(z.tz, t, 0).offset
    PROVE  StartOfTime(x1, u) = to_offset_in(z.tz, t, 0)
<1> DEFINE zn == z.tz
           utc == zn.utc
           n == Len(utc)
           l == UnitStart(z, u) + u - 1
           b == UnitStart(z, u) + u
           o == z.offset
           m == mapping_for_local(zn, l)
           r == EndOfTime(z, u)
           useAfter == \/ m.after = o
                       \/ l + 1 = m.transition /\ m.before - m.after < u
           last == m.transition - (m.after - m.before) - 1
           Goal == StartOfTime(x1, u) = to_offset_in(zn, t, 0)
<1>1. zn \in Zones /\ o \in Int /\ u \in Nat \ {0} /\ u \in Int
  <2>1. zn \in Zones /\ o \in Int
    BY ObjectFacts, Arithmetic
  <2>2. u \in Nat \ {0}
    BY UnitsAssumption
  <2> QED BY <2>1, <2>2
<1>2. WellFormed(zn) /\ t \in Int
  <2>1. t \in Int
    BY Arithmetic
  <2> QED BY <1>1, <2>1, ZonesAssumption
<1>3. l \in Epochs /\ l \in Int /\ b = l + 1 /\ IsBoundary(b, u)
  <2>1. UnitStart(z, u) \in Int /\ IsBoundary(b, u)
    BY <1>1, ObjectFacts, UnitBoundaries
  <2>2. l \in Epochs
    BY TimeUnitBounds
  <2>3. l \in Int /\ b = l + 1
    BY <1>1, <2>1
  <2> QED BY <2>1, <2>2, <2>3
<1>4. r.ok /\ t = (r.secs - r.offset) + 1 /\ WholeFolds(zn, u)
  BY SMTT(40)
<1>5. r = CASE m.kind = "unique" -> assume_offset(l, Ticks - 1, m.offset)
            [] m.kind = "fold" ->
                  assume_offset(l, Ticks - 1, IF useAfter THEN m.after ELSE m.before)
            [] m.kind = "gap" -> assume_offset(clamp(last), Ticks - 1, m.before)
            [] m.kind = "panic" -> Err("panic")
  BY DEF EndOfTime
<1>6. n \in Nat /\ \A i \in 1 .. n : utc[i].at \in Int /\ utc[i].offset \in Int
  BY <1>2, ZoneFacts
<1>7. MappingPromise(zn, m, l)
  BY <1>2, <1>3, MappingKeepsPromise
<1>8. PICK k \in 1 .. n : Decides(zn, k, l) /\ Means(zn, k, m, l)
  BY <1>2, <1>3, MappingMeans
<1>9. ASSUME NEW i \in 1 .. n, InSpan(zn, i, t), NEW c \in Int, IsBoundary(c, u),
             \/ c = t + utc[i].offset
             \/ /\ i # 1 /\ t = utc[i].at
                /\ utc[i - 1].offset <= utc[i].offset
                /\ Lower(utc, i) <= c /\ c <= Upper(utc, i)
      PROVE  Goal
  BY <1>1, <1>2, <1>9, StartSeen, SMTT(40)
<1> SUFFICES Goal
  OBVIOUS
<1> HIDE DEF Goal, r, m, l, b, n, utc, zn, o, useAfter
<1>10. ASSUME NEW s, NEW f, r = assume_offset(s, Ticks - 1, f)
       PROVE  r.secs = s /\ r.offset = f
  BY <1>4, <1>10 DEF assume_offset, Ok, Err
<1>11. b \in Int
  BY <1>3
\* What a transition at the instant t gives.
<1>12. ASSUME NEW i \in 2 .. n, t = utc[i].at PROVE InSpan(zn, i, t)
  <2>1. i # n => i + 1 \in 1 .. n /\ i \in 1 .. n /\ i < i + 1
    BY <1>6, <1>12
  <2>2. i # n => utc[i].at < utc[i + 1].at
    BY <1>2, <2>1, UtcOrder DEF utc, n
  <2>3. i \in 1 .. n
    BY <1>6
  <2>4. utc[i].at <= t
    BY <1>2, <1>12
  <2> QED BY <1>12, <2>2, <2>4 DEF InSpan, utc, n
<1>13. k # 1 => utc[k].at <= l - utc[k].offset
  <2> HAVE k # 1
  <2>1. k \in 2 .. n
    BY <1>6
  <2>2. utc[k].at + utc[k].offset <= Upper(utc, k) /\ Upper(utc, k) \in Int
    BY <1>2, <2>1, LocalOrder DEF utc, n
  <2>3. Upper(utc, k) <= l
    BY <1>8 DEF Decides, utc
  <2> QED BY <1>3, <1>6, <2>2, <2>3
<1>14. k # n => /\ k + 1 \in 1 .. n /\ k + 1 \in 2 .. n /\ (k + 1) - 1 = k /\ k + 1 # 1
                /\ l < Upper(utc, k + 1)
                /\ Upper(utc, k + 1) = utc[k + 1].at + Larger(utc[k].offset, utc[k + 1].offset)
                /\ Lower(utc, k + 1) = utc[k + 1].at + Smaller(utc[k].offset, utc[k + 1].offset)
  <2> HAVE k # n
  <2>1. k + 1 \in 1 .. n /\ (k + 1) - 1 = k /\ k + 1 \in 2 .. n /\ k + 1 # 1
    BY <1>6
  <2>2. l < Upper(utc, k + 1)
    BY <1>8 DEF Decides, utc, n
  <2> QED BY <2>1, <2>2 DEF Upper, Lower
<1>15. CASE m.kind = "unique"
  <2>1. r.secs = l /\ r.offset = utc[k].offset
    BY <1>5, <1>8, <1>10, <1>15 DEF Means, utc
  <2>2. t = b - utc[k].offset /\ (k # 1 => utc[k].at <= t) /\ b = t + utc[k].offset
    BY <1>3, <1>4, <1>6, <1>13, <2>1
  <2>3. k = n \/ l < Lower(utc, k + 1)
    BY <1>8, <1>15 DEF Means, utc, n
  <2>4. CASE k = n \/ t < utc[k + 1].at
    <3>1. InSpan(zn, k, t)
      BY <2>2, <2>4 DEF InSpan, utc, n
    <3> QED BY <1>3, <1>9, <1>11, <2>2, <3>1
  <2>5. CASE k # n /\ utc[k + 1].at <= t
    <3> DEFINE i == k + 1
    <3>1. i \in 2 .. n /\ i \in 1 .. n /\ i - 1 = k /\ i # 1
      BY <1>14, <2>5
    <3>2. utc[i].at \in Int /\ utc[i].offset \in Int /\ utc[k].offset \in Int
      BY <1>6, <3>1
    <3>3. /\ Lower(utc, i) = utc[i].at + Smaller(utc[k].offset, utc[i].offset)
          /\ Upper(utc, i) = utc[i].at + Larger(utc[k].offset, utc[i].offset)
          /\ l < Lower(utc, i)
      BY <1>14, <2>3, <2>5
    <3> HIDE DEF i
    <3>4. t = utc[i].at /\ utc[k].offset <= utc[i].offset /\ Lower(utc, i) = b /\ b <= Upper(utc, i)
      BY <1>2, <1>3, <2>2, <2>5, <3>2, <3>3 DEF Smaller, Larger, i
    <3>5. InSpan(zn, i, t)
      BY <1>12, <3>1, <3>4
    <3>6. Lower(utc, i) <= b
      BY <1>11, <3>4
    <3> QED BY <1>3, <1>9, <1>11, <3>1, <3>4, <3>5, <3>6
  <2> QED
    <3>1. k # n => utc[k + 1].at \in Int
      BY <1>6, <1>14
    <3> QED BY <1>2, <2>4, <2>5, <3>1
<1>16. CASE m.kind = "fold"
  <2>1. /\ k # n /\ m.before = utc[k].offset /\ m.after = utc[k + 1].offset
        /\ m.after < m.before /\ Lower(utc, k + 1) <= l /\ m.transition = Upper(utc, k + 1)
    BY <1>8, <1>16 DEF Means, utc, n
  <2>2. utc[k + 1].at \in Int /\ utc[k + 1].offset \in Int /\ utc[k].offset \in Int
    BY <1>6, <1>14, <2>1
  <2>3. /\ Lower(utc, k + 1) = utc[k + 1].at + utc[k + 1].offset
        /\ Upper(utc, k + 1) = utc[k + 1].at + utc[k].offset
    BY <1>14, <2>1, <2>2 DEF Smaller, Larger
  <2>4. CASE useAfter
    <3> DEFINE i == k + 1
    <3>1. r.secs = l /\ r.offset = utc[i].offset
      BY <1>5, <1>10, <1>16, <2>1, <2>4
    <3>2. t = b - utc[i].offset /\ b = t + utc[i].offset /\ utc[i].at <= t
      BY <1>3, <1>4, <2>1, <2>2, <2>3, <3>1
    <3>3. i \in 2 .. n /\ i \in 1 .. n
      BY <1>14, <2>1
    <3>4. CASE i = n \/ t < utc[i + 1].at
      <4>1. InSpan(zn, i, t)
        BY <3>2, <3>4 DEF InSpan, utc, n
      <4> QED BY <1>3, <1>9, <1>11, <3>2, <3>3, <4>1
    <3>5. CASE i # n /\ utc[i + 1].at <= t
      <4> DEFINE h == i + 1
      <4>1. h \in 2 .. n /\ h \in 1 .. n /\ h - 1 = i /\ h # 1 /\ i < h
        BY <1>6, <3>3, <3>5
      <4>2. utc[h].at \in Int /\ utc[h].offset \in Int
        BY <1>6, <4>1
      <4>3. /\ Lower(utc, h) = utc[h].at + Smaller(utc[i].offset, utc[h].offset)
            /\ Upper(utc, h) = utc[h].at + Larger(utc[i].offset, utc[h].offset)
        BY <4>1 DEF Lower, Upper
      <4>4. Upper(utc, i) <= Lower(utc, h)
        BY <1>2, <3>3, <4>1, LocalOrder DEF utc, n
      <4>5. b <= Upper(utc, i) /\ utc[h].at <= t /\ utc[i].offset \in Int /\ Upper(utc, i) \in Int
        BY <1>3, <1>14, <2>1, <2>2, <2>3, <3>5
      <4> HIDE DEF h, i
      <4>6. t = utc[h].at /\ utc[i].offset <= utc[h].offset /\ Lower(utc, h) = b /\ b <= Upper(utc, h)
        BY <1>2, <1>11, <3>2, <4>2, <4>3, <4>4, <4>5 DEF Smaller, Larger
      <4>7. InSpan(zn, h, t)
        BY <1>12, <4>1, <4>6
      <4>8. Lower(utc, h) <= b
        BY <1>11, <4>6
      <4> QED BY <1>3, <1>9, <1>11, <4>1, <4>6, <4>7, <4>8
    <3> QED
      <4>1. i # n => utc[i + 1].at \in Int
        BY <1>6, <3>3
      <4> QED BY <1>2, <3>4, <3>5, <4>1
  <2>5. CASE ~useAfter
    <3>1. r.secs = l /\ r.offset = utc[k].offset
      BY <1>5, <1>10, <1>16, <2>1, <2>5
    <3>2. t = b - utc[k].offset /\ (k # 1 => utc[k].at <= t) /\ b = t + utc[k].offset
      BY <1>3, <1>4, <1>6, <1>13, <3>1
    <3>3. t <= utc[k + 1].at
      BY <1>2, <1>3, <1>14, <2>1, <2>2, <2>3, <3>2
    <3>4. CASE t < utc[k + 1].at
      <4>1. InSpan(zn, k, t)
        BY <3>2, <3>4 DEF InSpan, utc, n
      <4> QED BY <1>3, <1>9, <1>11, <3>2, <4>1
    <3>5. CASE t = utc[k + 1].at
      <4> DEFINE i == k + 1
                 c == utc[i].offset - utc[k].offset
      <4>1. i \in 2 .. n /\ i \in 1 .. n /\ k \in 1 .. n - 1
        BY <1>6, <1>14, <2>1
      <4>2. c = zn.local[k].change /\ k \in DOMAIN zn.local
        <5>1. zn.local[k].change = c
          BY <1>2, <4>1, ZoneFacts DEF utc, n
        <5>2. DOMAIN zn.local = 1 .. n - 1
          BY <1>2 DEF WellFormed, local_transitions, utc, n
        <5> QED BY <4>1, <5>1, <5>2
      <4>3. c >= -u \/ c % u = 0
        BY <1>4, <4>2 DEF WholeFolds
      <4>4. b = m.transition
        BY <1>2, <2>1, <2>2, <2>3, <3>2, <3>5
      <4>5. c <= -u /\ c \in Int
        <5>1. ~(m.before - m.after < u)
          BY <1>3, <2>5, <4>4 DEF useAfter
        <5> QED BY <1>1, <2>1, <2>2, <5>1
      <4>6. t + utc[i].offset = b + c
        BY <1>2, <1>11, <2>2, <3>2
      <4> HIDE DEF c
      <4>7. c % u = 0
        <5>1. c = -u => c = u * (-1)
          BY <1>1
        <5>2. (u * (-1)) % u = 0
          BY <1>1, BoundaryMod
        <5>3. c >= -u => c = -u
          BY <1>1, <4>5
        <5> QED BY <4>3, <5>1, <5>2, <5>3
      <4>8. IsBoundary(b + c, u)
        <5> DEFINE y == b - EpochMin
        <5>1. EpochMin \in Int
          BY RangeAssumption
        <5>2. y \in Int /\ y % u = 0 /\ (b + c) - EpochMin = c + y
          BY <1>3, <1>11, <4>5, <5>1 DEF IsBoundary
        <5> HIDE DEF y
        <5>3. (c + y) % u = 0
          BY <1>1, <4>5, <4>7, <5>2, Multiples
        <5> QED BY <5>2, <5>3 DEF IsBoundary
      <4>9. InSpan(zn, i, t)
        BY <1>12, <3>5, <4>1
      <4>10. b + c \in Int
        BY <1>11, <4>5
      <4> QED BY <1>9, <4>1, <4>6, <4>8, <4>9, <4>10
    <3> QED BY <1>2, <2>2, <3>3, <3>4, <3>5
  <2> QED BY <2>4, <2>5
<1>17. CASE m.kind = "gap"
  <2> DEFINE i == k + 1
  <2>1. /\ k # n /\ m.before = utc[k].offset /\ m.after = utc[i].offset
        /\ m.before < m.after /\ m.transition = Upper(utc, i) /\ Lower(utc, i) <= l
    BY <1>8, <1>17 DEF Means, utc, n
  <2>2. clamp(last) = last
    BY <1>7, <1>17 DEF MappingPromise
  <2>3. r.secs = last /\ r.offset = utc[k].offset
    BY <1>5, <1>10, <1>17, <2>1, <2>2
  <2>4. i \in 2 .. n /\ i \in 1 .. n /\ i - 1 = k /\ i # 1
    BY <1>14, <2>1
  <2>5. utc[i].at \in Int /\ utc[i].offset \in Int /\ utc[k].offset \in Int
    BY <1>6, <2>4
  <2>6. /\ Upper(utc, i) = utc[i].at + utc[i].offset /\ l < Upper(utc, i)
        /\ Lower(utc, i) = utc[i].at + utc[k].offset
    BY <1>14, <2>1, <2>5 DEF Larger, Smaller
  <2> HIDE DEF i
  <2>7. t = utc[i].at
    BY <1>4, <2>1, <2>3, <2>5, <2>6
  <2>8. InSpan(zn, i, t)
    BY <1>12, <2>4, <2>7
  <2>9. Lower(utc, i) <= b /\ b <= Upper(utc, i) /\ utc[i - 1].offset <= utc[i].offset
    BY <1>3, <2>1, <2>4, <2>5, <2>6
  <2> QED BY <1>3, <1>9, <1>11, <2>4, <2>7, <2>8, <2>9
<1> QED BY <1>8, <1>15, <1>16, <1>17 DEF Means

\* A midnight is a boundary of days.
LEMMA MidnightBoundary ==
    ASSUME NEW l \in Int, l = Midnight(l)
    PROVE  IsBoundary(l, DayLen)
<1> DEFINE y == (l - EpochMin) % DayLen
<1>1. EpochMin \in Int /\ DayLen \in Nat \ {0}
  BY RangeAssumption, Arithmetic
<1>2. l - EpochMin \in Int /\ y \in Int /\ l = l - y
  BY <1>1 DEF Midnight
<1> HIDE DEF y
<1>3. y = 0
  BY <1>2
<1> QED BY <1>3 DEF y, IsBoundary

\* Boundaries that are less than a unit apart are the same.
LEMMA BoundaryUnique ==
    ASSUME NEW d \in Nat \ {0}, NEW x1 \in Int, NEW y \in Int,
           IsBoundary(x1, d), IsBoundary(y, d)
    PROVE  /\ x1 <= y /\ y < x1 + d => x1 = y
           /\ (y - x1) % d = 0
<1> DEFINE a == x1 - EpochMin
           b == y - EpochMin
<1>1. EpochMin \in Int
  BY RangeAssumption
<1>2. a \in Int /\ b \in Int /\ a % d = 0 /\ b % d = 0 /\ b - a = y - x1
  BY <1>1 DEF IsBoundary
<1>3. x1 <= y /\ y < x1 + d => a <= b /\ b < a + d
  BY <1>1
<1> HIDE DEF a, b
<1>4. (b - a) % d = 0 /\ (a <= b /\ b < a + d => b % d = b - a)
  BY <1>2, Multiples
<1> QED BY <1>2, <1>3, <1>4

\* A local time that exists is kept, with the offset of the entry that decides.
LEMMA CompatibleKeeps ==
    ASSUME NEW zn, NEW l, NEW i \in 1 .. Len(zn.utc),
           Means(zn, i, mapping_for_local(zn, l), l),
           mapping_for_local(zn, l).kind # "gap", l - zn.utc[i].offset \in Epochs
    PROVE  resolve_compatible(zn, l, 0) = Ok(l, 0, zn.utc[i].offset)
<1> DEFINE m == mapping_for_local(zn, l)
           r == resolve_compatible(zn, l, 0)
           o == zn.utc[i].offset
<1>1. r = resolve(m, l, 0, [kind |-> "compatible"])
  BY DEF resolve_compatible, resolve_in, Disambiguate
<1>2. Means(zn, i, m, l) /\ m.kind # "gap"
  OBVIOUS
<1> HIDE DEF r, m
<1>3. CASE m.kind = "unique"
  BY <1>1, <1>2, <1>3 DEF resolve, Means, assume_offset, r
<1>4. CASE m.kind = "fold"
  <2>1. m.before = o
    BY <1>2, <1>4 DEF Means
  <2>2. r = assume_offset(l, 0, o)
    BY <1>1, <1>4, <2>1 DEF resolve, ResolveFold
  <2> QED BY <2>2 DEF assume_offset, r
<1> QED BY <1>2, <1>3, <1>4 DEF Means

\* The end of a gap is a time of its own: reading it gives the transition.
LEMMA GapEndKeeps ==
    ASSUME NEW zn, WellFormed(zn), NEW k \in 1 .. Len(zn.utc) - 1,
           zn.utc[k].offset < zn.utc[k + 1].offset,
           Upper(zn.utc, k + 1) \in Epochs, zn.utc[k + 1].at \in Epochs
    PROVE  resolve_compatible(zn, Upper(zn.utc, k + 1), 0)
             = Ok(Upper(zn.utc, k + 1), 0, zn.utc[k + 1].offset)
<1> DEFINE utc == zn.utc
           n == Len(utc)
           l == Upper(utc, k + 1)
           j == k + 1
           o == utc[j].offset
           m == mapping_for_local(zn, l)
<1>1. n \in Nat /\ \A i \in 1 .. n : utc[i].at \in Int /\ utc[i].offset \in Int
  BY ZoneFacts
<1>2. j \in 2 .. n /\ j \in 1 .. n /\ j - 1 = k /\ k \in 1 .. n
  BY <1>1
<1>3. l \in Int /\ l = utc[j].at + o /\ l - o = utc[j].at /\ o \in Int
  <2>1. Larger(utc[k].offset, utc[j].offset) = utc[j].offset
    BY <1>1, <1>2 DEF Larger
  <2>2. l = utc[j].at + o
    BY <1>2, <2>1 DEF Upper
  <2> QED BY <1>1, <1>2, <2>2
<1>4. PICK i \in 1 .. n : Decides(zn, i, l) /\ Means(zn, i, m, l)
  BY <1>3, MappingMeans
<1>5. LiesIn(zn, j, l, o)
  <2>1. j # n => j + 1 \in 1 .. n /\ j < j + 1
    BY <1>1, <1>2
  <2>2. j # n => utc[j].at < utc[j + 1].at
    BY <1>2, <2>1, UtcOrder
  <2>3. utc[j].at <= l - o /\ (j = n \/ l - o < utc[j + 1].at)
    BY <1>1, <1>2, <1>3, <2>2
  <2> QED BY <2>3 DEF LiesIn, InSpan
<1>6. i = j
  <2>1. Compares(zn, i, l, j, l, o)
    BY <1>2, <1>3, <1>4, <1>5, SpanCompares
  <2>2. ~(j < i)
    BY <1>3, <2>1 DEF Compares
  <2>3. ~(i < j)
    <3> SUFFICES ASSUME i < j PROVE FALSE
      OBVIOUS
    <3>1. i # n /\ i + 1 \in 2 .. n /\ (i + 1 = j \/ i + 1 < j)
      BY <1>1, <1>2
    <3>2. l < Upper(utc, i + 1)
      BY <1>4, <3>1 DEF Decides
    <3>3. Upper(utc, i + 1) <= l /\ Upper(utc, i + 1) \in Int
      BY <1>2, <1>3, <3>1, LocalOrder
    <3> QED BY <1>3, <3>2, <3>3
  <2> QED BY <1>2, <2>2, <2>3
<1>7. m.kind # "gap"
  <2> HIDE DEF m, l, o, j
  <2>1. j \in 1 .. Len(zn.utc) /\ i \in 1 .. Len(zn.utc)
    BY <1>2
  <2>2. m.kind = "unique" \/ m.kind = "fold"
    BY <1>3, <1>4, <1>5, <2>1, ReadsBack
  <2> QED BY <2>2
<1> QED BY <1>2, <1>3, <1>4, <1>6, <1>7, CompatibleKeeps

\* The second after the end of a day, a week... is the start of one.
LEMMA EndOfDateLinesUp ==
    ASSUME NEW z \in Objects, NEW u \in DateUnits, EndOfDate(z, u).ok, SkipsWholeDates(z.tz),
           NEW t, t = (EndOfDate(z, u).secs - EndOfDate(z, u).offset) + 1,
           NEW x1, x1.tz = z.tz, x1.secs = to_offset_in(z.tz, t, 0).secs
    PROVE  resolve_compatible(z.tz, UnitStart(x1, u), 0) = to_offset_in(z.tz, t, 0)
<1> DEFINE zn == z.tz
           utc == zn.utc
           n == Len(utc)
           l == UnitStart(z, u) + u
           r == resolve_compatible(zn, l, 0)
           e == EndOfDate(z, u)
           m == mapping_for_local(zn, l)
<1>1. zn \in Zones /\ u \in Nat \ {0} /\ u \in Int /\ DayLen \in Nat \ {0} /\ DayLen \in Int /\ u >= DayLen
  <2>1. zn \in Zones
    BY ObjectFacts
  <2>2. DayLen \in Nat \ {0}
    BY Arithmetic
  <2>3. u \in Nat /\ u >= DayLen
    BY UnitsAssumption
  <2> QED BY <2>1, <2>2, <2>3
<1>2. WellFormed(zn)
  BY <1>1, ZonesAssumption
<1>3. l \in Epochs /\ r.ok /\ e.secs - e.offset = r.secs - r.offset - 1
  BY EndOfDateInstant
<1>4. l \in Int /\ IsBoundary(l, u)
  <2>1. l \in Int
    BY <1>3, Arithmetic
  <2>2. IsBoundary(l, u)
    BY <1>1, ObjectFacts, UnitBoundaries
  <2> QED BY <2>1, <2>2
<1>5. n \in Nat /\ \A i \in 1 .. n : utc[i].at \in Int /\ utc[i].at \in Epochs /\
                                     utc[i].offset \in Int /\ utc[i].offset \in Offsets
  BY <1>2, ZoneFacts
<1>6. PICK k \in 1 .. n : Decides(zn, k, l) /\ Means(zn, k, m, l)
  BY <1>2, <1>4, MappingMeans
<1>7. /\ m.kind # "gap" => r = Ok(l, 0, utc[k].offset)
      /\ m.kind = "gap" => r = Ok(l + (m.after - m.before), 0, m.after)
  BY <1>2, <1>3, <1>6, CompatibleInstant
<1>8. ValidIn(zn, r.secs, r.offset) /\ r.offset \in Int /\ r.secs \in Epochs
  <2>1. Fine(zn, r)
    BY <1>1, <1>3, CompatibleFine
  <2>2. r.offset \in Offsets /\ ValidIn(zn, r.secs, r.offset)
    BY <1>3, <2>1 DEF Fine, Sound
  <2>3. r.offset \in Int
    BY <2>2, Arithmetic
  <2> QED BY <2>2, <2>3 DEF ValidIn
<1>9. t = r.secs - r.offset /\ t + r.offset = r.secs /\ r.secs \in Int
  <2>1. r.secs \in Int
    BY <1>8, Arithmetic
  <2> HIDE DEF r, e
  <2>2. t = (e.secs - e.offset) + 1
    BY DEF e
  <2>3. t = r.secs - r.offset
    BY <1>3, <1>8, <2>1, <2>2
  <2> QED BY <1>8, <2>1, <2>3
<1>10. to_offset_in(zn, t, 0) = Ok(r.secs, 0, r.offset)
  <2>1. offset_for_instant(zn, t) = r.offset
    BY <1>8, <1>9 DEF ValidIn
  <2> QED BY <1>8, <1>9, <2>1 DEF to_offset_in
<1>11. Ok(r.secs, 0, r.offset) = r
  <2> HIDE DEF r, m, l
  <2>1. \E a, b : r = Ok(a, 0, b)
    BY <1>7
  <2> QED BY <2>1 DEF Ok
<1>12. x1.secs = r.secs
  BY <1>10 DEF Ok
<1>13. SkipsWholeDates(zn)
  OBVIOUS
<1> SUFFICES resolve_compatible(zn, UnitStart(x1, u), 0) = r
  BY <1>10, <1>11
<1> HIDE DEF m, r, l, n, utc, zn, e
<1>14. CASE m.kind # "gap"
  <2>1. x1.secs = l
    BY <1>7, <1>12, <1>14 DEF Ok
  <2>2. UnitStart(x1, u) = l
    BY <1>1, <1>3, <1>4, <2>1, UnitBoundaries
  <2> QED BY <2>2 DEF r
<1>15. CASE m.kind = "gap"
  <2> DEFINE j == k + 1
             g == m.after - m.before
             up == Upper(utc, j)
             lo == Lower(utc, j)
  <2>1. /\ k # n /\ lo <= l /\ m.before = utc[k].offset /\ m.after = utc[j].offset
        /\ m.before < m.after
    BY <1>6, <1>15 DEF Means, utc, n
  <2>2. l < up
    BY <1>6, <2>1 DEF Decides, utc, n
  <2>3. j \in 1 .. n /\ j \in 2 .. n /\ k \in 1 .. n - 1 /\ j - 1 = k
    BY <1>5, <2>1
  <2>4. /\ utc[j].at \in Int /\ m.after \in Int /\ m.before \in Int
        /\ m.after \in Offsets /\ m.before \in Offsets /\ utc[j].at \in Epochs
    BY <1>5, <2>1, <2>3
  <2>5. up = utc[j].at + m.after /\ lo = utc[j].at + m.before
    <3>1. Larger(m.before, m.after) = m.after /\ Smaller(m.before, m.after) = m.before
      BY <2>1, <2>4 DEF Larger, Smaller
    <3> QED BY <2>1, <2>3, <3>1 DEF Upper, Lower
  <2>6. r.secs = l + g /\ r.offset = m.after
    BY <1>7, <1>15 DEF Ok
  <2>7. g \in Int /\ g > 0 /\ up - g = lo /\ up \in Int /\ lo \in Int
    BY <2>1, <2>4, <2>5
  <2>8. zn.local[k].at = up /\ zn.local[k].change = g /\ k \in DOMAIN zn.local
    <3>1. zn.local[k].at = up /\ zn.local[k].change = g
      BY <1>2, <2>1, <2>3, ZoneFacts DEF utc, n
    <3>2. DOMAIN zn.local = 1 .. n - 1
      BY <1>2 DEF WellFormed, local_transitions, utc, n
    <3> QED BY <2>3, <3>1, <3>2
  <2>9. g < DayLen + DayLen
    BY <2>4, RangeAssumption, UnitsAssumption DEF Offsets
  <2> HIDE DEF g, up, lo
  <2>10. CASE g < u
    <3>1. UnitStart(x1, u) = l
      <4>1. x1.secs \in Epochs /\ l <= x1.secs /\ x1.secs < l + u
        BY <1>1, <1>4, <1>8, <1>12, <2>6, <2>7, <2>10
      <4> QED BY <1>1, <1>4, <4>1, UnitBoundaries
    <3> QED BY <3>1 DEF r
  <2>11. CASE g >= u
    <3>1. g >= DayLen
      BY <1>1, <2>7, <2>11
    <3>2. up = Midnight(up) /\ lo = Midnight(lo)
      BY <1>13, <2>7, <2>8, <3>1 DEF SkipsWholeDates
    <3>3. IsBoundary(up, DayLen) /\ IsBoundary(lo, DayLen)
      BY <2>7, <3>2, MidnightBoundary
    <3>4. g % DayLen = 0
      <4>1. g = up - lo /\ up \in Int /\ lo \in Int
        BY <2>7
      <4>2. (up - lo) % DayLen = 0
        BY <1>1, <3>3, <4>1, BoundaryUnique
      <4> QED BY <4>1, <4>2
    <3>5. g = DayLen
      <4>1. DayLen % DayLen = 0
        <5>1. (DayLen * 1) % DayLen = 0
          BY <1>1, BoundaryMod
        <5>2. DayLen * 1 = DayLen
          BY <1>1
        <5> QED BY <5>1, <5>2
      <4>2. g % DayLen = g - DayLen
        BY <1>1, <2>7, <2>9, <3>1, <4>1, Multiples
      <4> QED BY <1>1, <2>7, <3>4, <4>2
    <3>6. u = DayLen
      BY <1>1, <2>7, <2>11, <3>5
    <3>7. l = lo
      <4>1. IsBoundary(l, DayLen) /\ l < lo + DayLen
        BY <1>1, <1>4, <2>2, <2>7, <3>5, <3>6
      <4>2. lo = l
        BY <1>1, <1>4, <2>1, <2>7, <3>3, <4>1, BoundaryUnique
      <4> QED BY <4>2
    <3>8. x1.secs = up /\ up \in Epochs
      BY <1>8, <1>12, <1>4, <2>6, <2>7, <3>7
    <3>9. UnitStart(x1, u) = up
      BY <1>1, <3>3, <3>6, <3>8, UnitBoundaries
    <3>10. resolve_compatible(zn, up, 0) = Ok(up, 0, utc[j].offset)
      BY <1>2, <2>1, <2>3, <2>4, <3>8, GapEndKeeps DEF up, utc, n
    <3> QED BY <1>11, <1>12, <2>1, <2>6, <3>8, <3>9, <3>10
  <2> QED BY <1>1, <2>7, <2>10, <2>11
<1> QED BY <1>14, <1>15

\* A step of one nanosecond from the last one of a second.
LEMMA NextTick ==
    ASSUME NEW tz, NEW s \in Int, ShiftInstant(tz, s, Ticks - 1, 0, 1).ok
    PROVE  s + 1 \in Epochs /\ ShiftInstant(tz, s, Ticks - 1, 0, 1) = to_offset_in(tz, s + 1, 0)
<1>1. Ticks \in Nat \ {0}
  BY Arithmetic
<1>2. (Ticks - 1) + 1 = Ticks /\ Ticks \div Ticks = 1 /\ Ticks % Ticks = 0
  BY <1>1, SMT
<1>3. s + 0 = s
  OBVIOUS
<1> DEFINE r == ShiftInstant(tz, s, Ticks - 1, 0, 1)
<1>4. r = IF s \in Epochs /\ s + 1 \in Epochs THEN to_offset_in(tz, s + 1, 0) ELSE Err("range")
  BY <1>2, <1>3 DEF ShiftInstant
<1> QED BY <1>4 DEF Err

\* In a state of the inductive invariant, the nanosecond after the end of a unit is
\* the start of one.
LEMMA BoundariesMeet == IndInv => BoundariesLineUp
<1> SUFFICES ASSUME IndInv, ~stale PROVE BoundariesLineUp
  BY DEF BoundariesLineUp
<1>1. zdt \in Objects /\ ValidIn(zdt.tz, zdt.secs, zdt.offset) /\ zdt.tz \in Zones
  BY ObjectFacts DEF IndInv, TypeOK, OffsetIsValid
<1> SUFFICES ASSUME NEW u \in Units,
                    end_of(zdt, u).ok,
                    ShiftInstant(zdt.tz, end_of(zdt, u).secs - end_of(zdt, u).offset,
                                 end_of(zdt, u).subsec, 0, 1).ok,
                    \/ u \in DateUnits /\ SkipsWholeDates(zdt.tz)
                    \/ u \in TimeUnits /\ WholeFolds(zdt.tz, u)
             PROVE  LET n == ShiftInstant(zdt.tz, end_of(zdt, u).secs - end_of(zdt, u).offset,
                                          end_of(zdt, u).subsec, 0, 1)
                    IN  start_of(AsObject(n), u) = n
  BY DEF BoundariesLineUp, WholeFolds
<1> DEFINE e == end_of(zdt, u)
           s == e.secs - e.offset
           n == ShiftInstant(zdt.tz, s, e.subsec, 0, 1)
           x1 == AsObject(n)
<1>2. e.subsec = Ticks - 1 /\ s \in Int
  <2>1. CASE u \in TimeUnits
    BY <1>1, <2>1, EndOfTimeAfter DEF end_of
  <2>2. CASE u \notin TimeUnits
    <3>1. u \in DateUnits /\ EndOfDate(zdt, u).ok
      BY <2>2 DEF Units, end_of
    <3> DEFINE p == EndOfDate(zdt, u)
               q == resolve_compatible(zdt.tz, UnitStart(zdt, u) + u, 0)
    <3>2. p.secs - p.offset = q.secs - q.offset - 1 /\ q.secs - q.offset - 1 \in Epochs /\ p.subsec = Ticks - 1
      BY <1>1, <3>1, EndOfDateInstant
    <3>3. p.secs - p.offset \in Int
      BY <3>2, Arithmetic
    <3> QED BY <2>2, <3>2, <3>3 DEF end_of
  <2> QED BY <2>1, <2>2
<1>3. n.ok
  OBVIOUS
<1>4. s + 1 \in Epochs /\ n = to_offset_in(zdt.tz, s + 1, 0)
  <2> HIDE DEF s, e
  <2> QED BY <1>2, <1>3, NextTick
<1>5. x1.tz = zdt.tz /\ x1.secs = n.secs /\ x1.offset = n.offset
  BY <1>1 DEF AsObject, Objects
<1>6. CASE u \in TimeUnits
  <2>1. WholeFolds(zdt.tz, u)
    BY <1>6, UnitsAssumption
  <2>2. e = EndOfTime(zdt, u)
    BY <1>6 DEF end_of
  <2> HIDE DEF x1, n
  <2>3. StartOfTime(x1, u) = n
    <3> DEFINE t == s + 1
    <3>1. t = (EndOfTime(zdt, u).secs - EndOfTime(zdt, u).offset) + 1 /\ EndOfTime(zdt, u).ok
      BY <2>2
    <3>2. t \in Epochs /\ n = to_offset_in(zdt.tz, t, 0) /\ n.ok
      BY <1>3, <1>4
    <3> HIDE DEF t, s, e
    <3> QED BY <1>1, <1>5, <1>6, <2>1, <3>1, <3>2, EndOfTimeLinesUp
  <2> QED BY <1>6, <2>3 DEF start_of, x1, n
<1>7. CASE u \notin TimeUnits
  <2>1. u \in DateUnits /\ SkipsWholeDates(zdt.tz)
    BY <1>7
  <2>2. e = EndOfDate(zdt, u)
    BY <1>7 DEF end_of
  <2> HIDE DEF x1, n
  <2>3. resolve_compatible(zdt.tz, UnitStart(x1, u), 0) = n
    <3> DEFINE t == s + 1
    <3>1. t = (EndOfDate(zdt, u).secs - EndOfDate(zdt, u).offset) + 1 /\ EndOfDate(zdt, u).ok
      BY <2>2
    <3>2. n = to_offset_in(zdt.tz, t, 0)
      BY <1>4
    <3> HIDE DEF t, s, e
    <3> QED BY <1>1, <1>5, <2>1, <3>1, <3>2, EndOfDateLinesUp
  <2> QED BY <1>5, <1>7, <2>3 DEF start_of, x1, n
<1> QED BY <1>6, <1>7

\* In every well-formed zone, the nanosecond after end_of is the start of a unit:
\* of every hour, minute and second where folds take whole units, and of every day
\* or longer unit where a gap of a day skips a whole date.
THEOREM BoundariesAlwaysLineUp == Spec => []BoundariesLineUp
<1>1. IndInv => BoundariesLineUp
  BY BoundariesMeet
<1> QED BY <1>1, InvAlways, PTL

-----------------------------------------------------------------------------
(***************************************************************************)
(* The tables that all of this looks up.  bisect is correct on every       *)
(* sorted table of any length, and what is loaded from a file with any     *)
(* number of transitions keeps its promises.                               *)
(***************************************************************************)

\* What the loop maintains: the size is that of the interval, everything
\* before the interval is at or before x, and everything after it is after x.
LoopInv ==
    /\ arr \in Tables /\ x \in Targets
    /\ left \in 0 .. Len(arr) /\ right \in left .. Len(arr) /\ size = right - left
    /\ \A i \in 1 .. left : arr[i].at <= x
    /\ \A i \in right + 1 .. Len(arr) : x < arr[i].at
    /\ result # Running => left = right /\ result = left + 1

LEMMA TableFacts ==
    ASSUME LoopInv
    PROVE  /\ Len(arr) \in Nat /\ x \in Int /\ \A i \in 1 .. Len(arr) : arr[i].at \in Int
           /\ \A i, j \in 1 .. Len(arr) : i < j => arr[i].at <= arr[j].at
           /\ left \in Int /\ right \in Int /\ size \in Int
BY TablesAssumption DEF LoopInv

LEMMA ProbeInBounds ==
    ASSUME LoopInv, left < right
    PROVE  left <= mid /\ mid < right /\ mid \in Int /\ mid + 1 \in 1 .. Len(arr)
BY TableFacts DEF LoopInv, mid

LEMMA InitLoopInv == StartSearch => LoopInv
BY TablesAssumption DEF StartSearch, LoopInv, Running

LEMMA StepLoopInv == LoopInv /\ [Iterate]_bisectVars => LoopInv'
<1> SUFFICES ASSUME LoopInv, [Iterate]_bisectVars PROVE LoopInv'
  OBVIOUS
<1>1. CASE Probe
  <2>1. left <= mid /\ mid < right /\ mid \in Int /\ mid + 1 \in 1 .. Len(arr)
    BY <1>1, ProbeInBounds DEF Probe
  <2> DEFINE k == mid
  <2>2. /\ arr' = arr /\ x' = x /\ result' = result /\ result = Running
        /\ size' = right' - left'
        /\ \/ x >= arr[k + 1].at /\ left' = k + 1 /\ right' = right
           \/ ~(x >= arr[k + 1].at) /\ left' = left /\ right' = k
    BY <1>1 DEF Probe
  <2> HIDE DEF k
  <2>3. CASE x >= arr[k + 1].at /\ left' = k + 1 /\ right' = right
    <3>1. ASSUME NEW i \in 1 .. k + 1 PROVE arr[i].at <= x
      <4>1. i \in 1 .. Len(arr) /\ k + 1 \in 1 .. Len(arr) /\ (i = k + 1 \/ i < k + 1)
        BY <2>1, TableFacts DEF k
      <4>2. arr[i].at <= arr[k + 1].at /\ arr[i].at \in Int /\ arr[k + 1].at \in Int
        BY <4>1, TableFacts
      <4> QED
        BY <2>3, <4>2, TableFacts
    <3>2. k + 1 \in 0 .. Len(arr) /\ right \in k + 1 .. Len(arr)
      BY <2>1, TableFacts DEF LoopInv, k
    <3> QED
      BY <2>2, <2>3, <3>1, <3>2 DEF LoopInv
  <2>4. CASE ~(x >= arr[k + 1].at) /\ left' = left /\ right' = k
    <3>1. ASSUME NEW i \in k + 1 .. Len(arr) PROVE x < arr[i].at
      <4>1. i \in 1 .. Len(arr) /\ k + 1 \in 1 .. Len(arr) /\ (i = k + 1 \/ k + 1 < i)
        BY <2>1, TableFacts DEF k
      <4>2. arr[k + 1].at <= arr[i].at /\ arr[i].at \in Int /\ arr[k + 1].at \in Int
        BY <4>1, TableFacts
      <4> QED
        BY <2>4, <4>2, TableFacts
    <3>2. left \in 0 .. Len(arr) /\ k \in left .. Len(arr)
      BY <2>1, TableFacts DEF LoopInv, k
    <3> QED
      BY <2>2, <2>4, <3>1, <3>2 DEF LoopInv
  <2> QED
    BY <2>2, <2>3, <2>4
<1>2. CASE ReturnLeft
  <2>1. left = right
    BY <1>2, TableFacts DEF ReturnLeft, LoopInv
  <2> QED
    BY <1>2, <2>1 DEF ReturnLeft, LoopInv
<1>3. CASE UNCHANGED bisectVars
  BY <1>3 DEF bisectVars, LoopInv
<1> QED
  BY <1>1, <1>2, <1>3 DEF Iterate

\* No iteration reads beyond the table.
THEOREM BisectReadsInBounds == BisectSpec => []ReadsInBounds
<1>1. LoopInv => ReadsInBounds
  BY ProbeInBounds DEF ReadsInBounds
<1> QED
  BY InitLoopInv, StepLoopInv, <1>1, PTL DEF BisectSpec

\* The loop computes what the lookups of module TimeZone are stated with.
THEOREM BisectCorrect == BisectSpec => []ReturnsFirstAfter
<1>1. LoopInv => ReturnsFirstAfter
  <2> SUFFICES ASSUME LoopInv, result # Running PROVE result = bisect(arr, x)
    BY DEF ReturnsFirstAfter
  <2>1. left = right /\ result = left + 1 /\ left \in 0 .. Len(arr)
    BY DEF LoopInv
  <2>2. result \in 1 .. Past(arr) /\ result - 1 = left
    BY <2>1, TableFacts DEF Past
  <2>3. \A i \in 1 .. result - 1 : arr[i].at <= x
    BY <2>2 DEF LoopInv
  <2>4. result # Past(arr) => x < arr[result].at
    <3>1. result # Past(arr) => result \in right + 1 .. Len(arr)
      BY <2>1, <2>2, TableFacts DEF Past
    <3> QED
      BY <3>1 DEF LoopInv
  <2>5. IsFirstAfter(arr, x, result)
    BY <2>2, <2>3, <2>4 DEF IsFirstAfter
  <2> QED
    BY <2>5, TableFacts, BisectUnique
<1> QED
  BY InitLoopInv, StepLoopInv, <1>1, PTL DEF BisectSpec
-----------------------------------------------------------------------------
(***************************************************************************)
(* Loaded zones.  Of a file we need the shape that Files gives it: a type  *)
(* for every transition, of which the first is standard time.              *)
(***************************************************************************)
FileOK(f) ==
    /\ f.indices \in Seq(1 .. 3)
    /\ \E a, b, c : f.types = <<[offset |-> a, isdst |-> FALSE], [offset |-> b, isdst |-> TRUE],
                               [offset |-> c, isdst |-> FALSE]>>
    /\ WellFormed(parse_content(f))

ZoneInv ==
    /\ file = NoFile \/ FileOK(file)
    /\ zone = Unloaded \/ (FileOK(file) /\ zone = parse_content(file))

LEMMA FunctionIsSeq ==
    ASSUME NEW S, NEW n \in Nat, NEW f \in [1 .. n -> S]
    PROVE  f \in Seq(S)
<1>1. f = [i \in 1 .. n |-> f[i]] /\ \A i \in 1 .. n : f[i] \in S
  OBVIOUS
<1> QED
  BY <1>1

LEMMA InitFileOK == InitFile => FileOK(file)
<1> SUFFICES ASSUME InitFile PROVE FileOK(file)
  OBVIOUS
<1>1. PICK n \in 0 .. MaxTransitions, v \in Versions : file \in {WithEnd(f, v) : f \in Files(n)}
  BY DEF InitFile
<1>2. PICK f \in Files(n) : file = WithEnd(f, v)
  BY <1>1
<1>3. PICK ts \in Increasing(n), ix \in [1 .. n -> 1 .. 3], a \in TypeOffsets, b \in TypeOffsets, c \in TypeOffsets :
        f = [times |-> ts, indices |-> ix, types |-> <<[offset |-> a, isdst |-> FALSE],
                                                      [offset |-> b, isdst |-> TRUE],
                                                      [offset |-> c, isdst |-> FALSE]>>, end |-> <<>>]
  BY DEF Files
<1>4. file.indices = ix /\ file.types = <<[offset |-> a, isdst |-> FALSE], [offset |-> b, isdst |-> TRUE],
                                          [offset |-> c, isdst |-> FALSE]>>
  BY <1>2, <1>3 DEF WithEnd
<1>5. n \in Nat /\ ix \in Seq(1 .. 3)
  BY TransitionsAssumption, FunctionIsSeq
<1> QED
  BY <1>4, <1>5 DEF FileOK, InitFile

LEMMA ZoneInvariance == MCSpec => []ZoneInv
<1>1. MCInit => ZoneInv
  <2>1. MCInit => zone = Unloaded /\ (InitFile \/ file = NoFile)
    BY Zenon DEF MCInit
  <2> QED
    BY <2>1, InitFileOK DEF ZoneInv
<1>2. ZoneInv /\ [Load \/ Search]_mcVars => ZoneInv'
  BY DEF ZoneInv, Load, Search, mcVars
<1> QED
  BY <1>1, <1>2, PTL DEF MCSpec

\* Whatever file is loaded, with any number of transitions at any times, the
\* local times of the zone are mapped back by the inverse of its offsets.
THEOREM LoadedMappingInverts == MCSpec => []MappingInvertsOffset
<1>1. ZoneInv => MappingInvertsOffset
  <2> SUFFICES ASSUME ZoneInv, Loaded, NEW l \in Epochs
               PROVE  Inverts(mapping_for_local(zone, l), RealOffsets(l))
    BY DEF MappingInvertsOffset, Inverts
  <2>1. WellFormed(zone) /\ l \in Int
    BY RangeAssumption DEF ZoneInv, Loaded, FileOK, Epochs
  <2>2. RealOffsets(l) = OffsetsLeadingTo(zone, l)
    BY DEF RealOffsets, OffsetsLeadingTo
  <2> QED
    BY <2>1, <2>2, MappingIsInverse
<1> QED
  BY <1>1, ZoneInvariance, PTL

-----------------------------------------------------------------------------
LEMMA SmallestIn ==
    ASSUME NEW S, S \subseteq Nat, S # {}
    PROVE  \E j \in S : \A k \in S : j <= k
<1>1. PICK r \in S : \A y \in S : ~(<<y, r>> \in OpToRel(<, Nat))
  BY WFMin, NatLessThanWellFounded, Zenon
<1>2. \A y \in S : ~(y < r)
  BY <1>1 DEF OpToRel
<1> QED
  BY <1>2

LEMMA LargestIn ==
    ASSUME NEW n \in Nat, NEW S, S \subseteq 1 .. n, S # {}
    PROVE  \E j \in S : \A k \in S : k <= j
<1> DEFINE D == {n - j : j \in S}
<1>1. D \subseteq Nat /\ D # {}
  <2>1. ASSUME NEW j \in S PROVE n - j \in Nat
    <3>1. j \in 1 .. n
      OBVIOUS
    <3> QED
      BY <3>1
  <2> QED
    BY <2>1
<1>2. PICK d \in D : \A k \in D : d <= k
  BY <1>1, SmallestIn
<1>3. PICK j \in S : d = n - j
  BY <1>2
<1>4. ASSUME NEW k \in S PROVE k <= j
  <2>1. n - j <= n - k
    BY <1>2, <1>3
  <2> QED
    BY <2>1
<1> QED
  BY <1>4

StandardOffsets(f) == {f.types[i].offset : i \in {j \in DOMAIN f.types : ~f.types[j].isdst}}

\* What a DST type is measured against is a standard offset that the zone has.
LEMMA LastStdIsStandard ==
    ASSUME NEW f, FileOK(f), NEW i \in 1 .. Len(f.indices)
    PROVE  /\ LastStd(f, i) \in StandardOffsets(f)
           /\ \/ LastStd(f, i) = f.types[1].offset
              \/ \E j \in 1 .. Len(f.indices) : LastStd(f, i) = f.types[f.indices[j]].offset
<1> DEFINE n == Len(f.indices)
           std == {j \in DOMAIN f.indices : ~f.types[f.indices[j]].isdst}
           before == {j \in std : j < i}
           last == CHOOSE j \in before : \A k \in before : k <= j
           first == CHOOSE j \in std : \A k \in std : j <= k
           pick == IF before # {} THEN last ELSE first
<1>1. n \in Nat /\ DOMAIN f.indices = 1 .. n /\ \A j \in 1 .. n : f.indices[j] \in 1 .. 3
  BY DEF FileOK
<1>2. /\ DOMAIN f.types = 1 .. 3
      /\ ~f.types[1].isdst
  BY DEF FileOK
<1>3. LastStd(f, i) = IF std = {} THEN f.types[1].offset ELSE f.types[f.indices[pick]].offset
  BY DEF LastStd
<1>4. CASE std = {}
  <2>1. LastStd(f, i) = f.types[1].offset
    BY <1>3, <1>4
  <2>2. 1 \in DOMAIN f.types /\ ~f.types[1].isdst
    BY <1>2
  <2> QED
    BY <2>1, <2>2, ZenonT(40) DEF StandardOffsets
<1>5. CASE std # {}
  <2>1. pick \in std
    <3>1. CASE before # {}
      <4>1. before \subseteq 1 .. n
        BY <1>1
      <4>2. \E j \in before : \A k \in before : k <= j
        <5> HIDE DEF before, n
        <5> QED
          BY <1>1, <3>1, <4>1, LargestIn
      <4>3. last \in before
        BY <4>2
      <4> QED
        BY <3>1, <4>3
    <3>2. CASE before = {}
      <4>1. std \subseteq Nat
        BY <1>1
      <4>2. \E j \in std : \A k \in std : j <= k
        <5> HIDE DEF std
        <5> QED
          BY <1>5, <4>1, SmallestIn
      <4>3. first \in std
        BY <4>2
      <4> QED
        BY <3>2, <4>3
    <3> QED
      BY <3>1, <3>2, ZenonT(40)
  <2> HIDE DEF pick
  <2>2. pick \in 1 .. n /\ f.indices[pick] \in DOMAIN f.types /\ ~f.types[f.indices[pick]].isdst
    BY <1>1, <1>2, <2>1
  <2>3. LastStd(f, i) = f.types[f.indices[pick]].offset
    BY <1>3, <1>5
  <2> QED
    BY <2>2, <2>3, SMTT(40) DEF StandardOffsets
<1> QED
  BY <1>4, <1>5

\* In every entry of the table, the offset less the DST saving is standard.
LEMMA EntriesLeadToStandard ==
    ASSUME NEW f, FileOK(f), NEW j \in 1 .. Len(load_transitions(f))
    PROVE  load_transitions(f)[j].offset - load_transitions(f)[j].dst_saving \in StandardOffsets(f)
<1> DEFINE n == Len(f.indices)
           utc == load_transitions(f)
           type(i) == f.types[f.indices[i]]
           entry(i) == [at |-> clamp(f.times[i]), offset |-> type(i).offset,
                        dst_saving |-> IF type(i).isdst THEN type(i).offset - LastStd(f, i) ELSE 0]
           sentinel == [at |-> EpochMin, offset |-> f.types[1].offset, dst_saving |-> 0]
<1>1. n \in Nat /\ DOMAIN f.indices = 1 .. n /\ \A i \in 1 .. n : f.indices[i] \in 1 .. 3
  BY DEF FileOK
<1>2. /\ DOMAIN f.types = 1 .. 3
      /\ ~f.types[1].isdst
  BY DEF FileOK
<1>3. utc = <<sentinel>> \o [i \in 1 .. n |-> entry(i)]
  BY DEF load_transitions
<1>4. Len(utc) = n + 1 /\ utc[1] = sentinel /\ \A i \in 1 .. n : utc[i + 1] = entry(i)
  <2> HIDE DEF sentinel, entry, utc, n
  <2> DEFINE rest == [i \in 1 .. n |-> entry(i)]
  <2>1. Len(rest) = n /\ \A i \in 1 .. n : rest[i] = entry(i)
    BY <1>1
  <2>2. utc = <<sentinel>> \o rest
    BY <1>3
  <2> QED
    BY <1>1, <2>1, <2>2
<1>5. \A i \in 1 .. Len(utc) : utc[i].offset \in Int
  <2>1. WellFormed(parse_content(f)) /\ parse_content(f).utc = utc
    BY DEF FileOK, parse_content
  <2> QED
    BY <2>1, ZoneFacts
<1>6. CASE j = 1
  BY <1>2, <1>4, <1>5, <1>6 DEF StandardOffsets
<1>7. CASE j # 1
  <2>1. PICK i \in 1 .. n : j = i + 1
    <3>1. j - 1 \in 1 .. n /\ j = (j - 1) + 1
      BY <1>1, <1>4, <1>7
    <3> QED
      BY <3>1
  <2>2. utc[j] = entry(i) /\ type(i).offset \in Int
    <3>1. utc[j] = entry(i) /\ utc[j].offset \in Int
      BY <1>4, <1>5, <2>1
    <3> QED
      BY <3>1
  <2>3. CASE ~type(i).isdst
    <3>1. utc[j].offset = type(i).offset /\ utc[j].dst_saving = 0
      BY <2>2, <2>3
    <3>2. type(i).offset \in StandardOffsets(f)
      BY <1>1, <1>2, <2>3 DEF StandardOffsets
    <3> QED
      BY <2>2, <3>1, <3>2
  <2>4. CASE type(i).isdst
    <3>1. utc[j].offset = type(i).offset /\ utc[j].dst_saving = type(i).offset - LastStd(f, i)
      BY <2>2, <2>4
    <3>2. LastStd(f, i) \in Int
      <4>1. CASE LastStd(f, i) = f.types[1].offset
        <5>1. utc[1].offset = f.types[1].offset /\ 1 \in 1 .. Len(utc)
          BY <1>1, <1>4
        <5> QED
          BY <1>5, <4>1, <5>1
      <4>2. ASSUME NEW k \in 1 .. n, LastStd(f, i) = type(k).offset PROVE LastStd(f, i) \in Int
        <5>1. utc[k + 1] = entry(k) /\ k + 1 \in 1 .. Len(utc)
          <6> HIDE DEF entry, utc, n
          <6> QED
            BY <1>1, <1>4
        <5> QED
          BY <1>5, <4>2, <5>1
      <4> QED
        BY <4>1, <4>2, LastStdIsStandard
    <3>3. LastStd(f, i) \in StandardOffsets(f)
      BY LastStdIsStandard
    <3> DEFINE o == type(i).offset
               s == LastStd(f, i)
    <3>4. o - (o - s) = s
      <4> HIDE DEF o, s
      <4> QED
        BY <2>2, <3>2 DEF o, s
    <3> QED
      BY <3>1, <3>3, <3>4
  <2> QED
    BY <2>3, <2>4
<1> QED
  BY <1>6, <1>7

\* Whatever file is loaded, the DST saving of an instant leads back to a
\* standard offset of the file, also before its first transition to standard
\* time.
THEOREM SavingIsFromStandard == MCSpec => []SavingLeadsToStandard
<1>1. ZoneInv => SavingLeadsToStandard
  <2> SUFFICES ASSUME ZoneInv, Loaded, NEW t \in Epochs, t < Final(zone.utc).at
               PROVE  offset_for_instant(zone, t) - dst_saving_for_instant(zone, t) \in StandardOffsets(file)
    BY DEF SavingLeadsToStandard, StandardOffsets
  <2>1. FileOK(file) /\ zone = parse_content(file) /\ WellFormed(zone) /\ zone.utc = load_transitions(file)
    <3>1. FileOK(file) /\ zone = parse_content(file)
      BY DEF ZoneInv, Loaded
    <3>2. WellFormed(parse_content(file)) /\ parse_content(file).utc = load_transitions(file)
      BY <3>1 DEF FileOK, parse_content
    <3> QED
      BY <3>1, <3>2
  <2> DEFINE utc == zone.utc
             i == bisect(utc, t)
             j == Larger(1, i - 1)
  <2>2. /\ t \in Int /\ Len(utc) \in Nat /\ Len(utc) >= 1 /\ \A k \in 1 .. Len(utc) : utc[k].at \in Int
    BY <2>1, ZoneFacts, RangeAssumption DEF Epochs
  <2>3. IsFirstAfter(utc, t, i)
    BY <2>2, BisectFinds
  <2> HIDE DEF i
  <2>4. i \in 1 .. Len(utc)
    <3>1. i # Len(utc) + 1
      <4>1. ASSUME i = Len(utc) + 1 PROVE FALSE
        <5>1. Len(utc) \in 1 .. i - 1
          BY <2>2, <4>1
        <5>2. utc[Len(utc)].at <= t /\ utc[Len(utc)].at \in Int
          BY <2>2, <2>3, <5>1 DEF IsFirstAfter
        <5> QED
          BY <2>2, <5>2 DEF Final
      <4> QED
        BY <4>1
    <3> QED
      BY <2>2, <2>3, <3>1 DEF IsFirstAfter, Past
  <2>5. j \in 1 .. Len(utc)
    BY <2>2, <2>4 DEF Larger
  <2>6. offset_for_instant(zone, t) = utc[j].offset /\ dst_saving_for_instant(zone, t) = utc[j].dst_saving
    BY <2>2, <2>4 DEF offset_for_instant, dst_saving_for_instant, Past, i
  <2> QED
    BY <2>1, <2>5, <2>6, EntriesLeadToStandard
<1> QED
  BY <1>1, ZoneInvariance, PTL
=============================================================================
