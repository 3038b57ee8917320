------------------------------ MODULE PosixTz -------------------------------
(***************************************************************************)
(* POSIX TZ strings (src/tz/posix.rs): reading one, and the lookups of a   *)
(* zone that has one, also after the recorded transitions of a TZif file   *)
(* (src/tz/tzif.rs), on the real calendar.                                 *)
(*                                                                         *)
(* The unit of time is the hour: minutes and seconds only refine the same  *)
(* comparisons.  A TzStr is a record                                       *)
(*   std      the standard offset                                          *)
(*   dst      <<>> without DST rules, or <<[offset, start, end]>>, where    *)
(*            start and end are [rule, time]                               *)
(* The text of a string is given by its parts, as the scanner cuts them:   *)
(* see parse.                                                              *)
(***************************************************************************)
EXTENDS TimeZone, Calendar

CONSTANTS HoursPerDay

ASSUME HoursAssumption ==
    /\ HoursPerDay \in Nat \ {0}
    /\ EpochMin = UnixDaysMin * HoursPerDay
    /\ EpochMax = (UnixDaysMax + 1) * HoursPerDay - 1
    /\ OffsetMax = HoursPerDay - 1

DEFAULT_DST == 1
DEFAULT_RULE_TIME == 2
RuleTimeMax == 7 * HoursPerDay - 1

NoTz == [std |-> OffsetMax + 1, dst |-> <<>>]     \* the None of parse
NoTransition == [at |-> EpochMin - 1, offset |-> 0]

LastWeekday(w, m) == [kind |-> "last", w |-> w, m |-> m]
NthWeekday(n, w, m) == [kind |-> "nth", n |-> n, w |-> w, m |-> m]
DayOfYear(d) == [kind |-> "day", d |-> d]
JulianDayOfYear(d) == [kind |-> "julian", d |-> d]

-----------------------------------------------------------------------------
(***************************************************************************)
(* Parsing.  The text of an offset or a time is its signed number of hours.*)
(* The text of a rule is a record [kind, nums, time]; time is <<>> without *)
(* a "/", and a time that does not parse is left to the caller's default.  *)
(***************************************************************************)
parse_hms(h, max) == IF Abs(h) <= max THEN <<h>> ELSE <<>>

\* POSIX counts hours west of Greenwich.
parse_offset(h) ==
    LET hms == parse_hms(h, OffsetMax) IN IF hms = <<>> THEN <<>> ELSE <<-hms[1]>>

\* A fifth weekday is the last one; Sunday is 0 in POSIX and 7 in ISO.
parse_weekday_rule(nums) ==
    LET m == nums[1] w == nums[2] d == IF nums[3] = 0 THEN 7 ELSE nums[3] IN
    IF ~(m \in Months /\ w \in 1 .. 5 /\ nums[3] \in 0 .. 6) THEN <<>>
    ELSE IF w = 5 THEN <<LastWeekday(d, m)>> ELSE <<NthWeekday(w, d, m)>>

parse_rule(text) ==
    LET n == text.nums[1]
        rule == CASE text.kind = "M" -> parse_weekday_rule(text.nums)
                  [] text.kind = "J" -> IF n \in 1 .. 365 THEN <<JulianDayOfYear(n)>> ELSE <<>>
                  [] text.kind = "n" -> IF n \in 0 .. 365 THEN <<DayOfYear(n + 1)>> ELSE <<>>
        time == IF text.time = <<>> THEN <<>> ELSE parse_hms(text.time[1], RuleTimeMax)
    IN  IF rule = <<>> THEN <<>>
        ELSE <<[rule |-> rule[1], time |-> IF time = <<>> THEN DEFAULT_RULE_TIME ELSE time[1]]>>

\* TzStr::parse of [std, dst, rules]: dst is <<>> without an offset of its own,
\* rules is <<>> for a string that ends after the standard offset.
parse(text) ==
    LET std == parse_offset(text.std) IN
    IF std = <<>> THEN NoTz
    ELSE IF text.rules = <<>> THEN [std |-> std[1], dst |-> <<>>]
    ELSE LET offset == IF text.dst # <<>> THEN parse_offset(text.dst[1])
                       ELSE IF std[1] + DEFAULT_DST \in Offsets THEN <<std[1] + DEFAULT_DST>>
                       ELSE <<>>
             start == parse_rule(text.rules[1])
             end == parse_rule(text.rules[2])
         IN  IF offset = <<>> \/ start = <<>> \/ end = <<>> THEN NoTz
             ELSE [std |-> std[1],
                   dst |-> <<[offset |-> offset[1], start |-> start[1], end |-> end[1]]>>]

-----------------------------------------------------------------------------
(***************************************************************************)
(* A rule in a year, and the string at an instant or a local time.         *)
(***************************************************************************)
YearOf(t) == UnixDaysDate(t \div HoursPerDay).year

\* Rule::for_year: the local time of the transition; day 366 of a common year
\* is its last day, and a Julian year has no leap day.
DayOfRule(r, y) ==
    CASE r.kind = "day" -> unix_days_at_jan1(y) + Smaller(r.d, DaysInYear(y)) - 1
      [] r.kind = "julian" -> unix_days_at_jan1(y) + r.d - 1 + Truth(is_leap(y) /\ r.d > 59)
      [] r.kind = "last" -> unix_days(nth_weekday_in_month(y, r.m, -1, r.w))
      [] r.kind = "nth" -> unix_days(nth_weekday_in_month(y, r.m, r.n, r.w))
for_year(rt, y) == clamp(DayOfRule(rt.rule, y) * HoursPerDay + rt.time)

\* Both transitions of a year by instant, each with the offset it leads to.
utc_transitions_for_year(tz, y) ==
    [start |-> [at |-> clamp(for_year(tz.dst[1].start, y) - tz.std), offset |-> tz.dst[1].offset],
     end |-> [at |-> clamp(for_year(tz.dst[1].end, y) - tz.dst[1].offset), offset |-> tz.std]]

StdYear(tz, t) == YearOf(clamp(t + tz.std))

IsDstNorthOnly(tz, t) ==     \* mutant: DST is never in force over New Year
    LET tr == utc_transitions_for_year(tz, StdYear(tz, t)) IN
    tz.dst # <<>> /\ tr.start.at <= t /\ t < tr.end.at

InForce(tr, t) ==
    IF tr.start.at < tr.end.at THEN tr.start.at <= t /\ t < tr.end.at
    ELSE ~(tr.end.at <= t /\ t < tr.start.at)
is_dst_at(tz, t) == tz.dst # <<>> /\ InForce(utc_transitions_for_year(tz, StdYear(tz, t)), t)

PosixOffset(tz, t) == IF is_dst_at(tz, t) THEN tz.dst[1].offset ELSE tz.std

\* TzStr::meta_for_instant: the saving of the string's own DST
PosixSaving(tz, t) == IF is_dst_at(tz, t) THEN tz.dst[1].offset - tz.std ELSE 0

PosixMappingNoSwap(tz, t) ==     \* mutant: the gap is always the first of the year
    IF tz.dst = <<>> THEN Unique(tz.std)
    ELSE LET dst == tz.dst[1].offset
             t1 == for_year(tz.dst[1].start, YearOf(t))
             t2 == for_year(tz.dst[1].end, YearOf(t))
             shift == dst - tz.std
         IN  IF t < t1 THEN Unique(tz.std)
             ELSE IF t < clamp(t1 + shift) THEN Gap(clamp(t1 + shift), tz.std, dst)
             ELSE IF t < clamp(t2 - shift) THEN Unique(dst)
             ELSE IF t < t2 THEN Fold(t2, dst, tz.std)
             ELSE Unique(tz.std)

\* TzStr::mapping_for_local: the earlier transition of the year is t1, from
\* off1 to off2.  A positive shift is a gap at t1 and a fold before t2, a
\* negative one a fold before t1 and a gap at t2.
YearMapping(t, t1, t2, off1, off2, shift) ==
    IF shift >= 0
    THEN IF t < t1 THEN Unique(off1)
         ELSE IF t < clamp(t1 + shift) THEN Gap(clamp(t1 + shift), off1, off2)
         ELSE IF t < clamp(t2 - shift) THEN Unique(off2)
         ELSE IF t < t2 THEN Fold(t2, off2, off1)
         ELSE Unique(off1)
    ELSE IF t < clamp(t1 + shift) THEN Unique(off1)
         ELSE IF t < t1 THEN Fold(t1, off1, off2)
         ELSE IF t < t2 THEN Unique(off2)
         ELSE IF t < clamp(t2 - shift) THEN Gap(clamp(t2 - shift), off2, off1)
         ELSE Unique(off1)
MappingOfRules(t, start, end, std, dst) ==
    IF start < end THEN YearMapping(t, start, end, std, dst, dst - std)
    ELSE YearMapping(t, end, start, dst, std, std - dst)
PosixMapping(tz, t) ==
    IF tz.dst = <<>> THEN Unique(tz.std)
    ELSE MappingOfRules(t, for_year(tz.dst[1].start, YearOf(t)), for_year(tz.dst[1].end, YearOf(t)),
                        tz.std, tz.dst[1].offset)

Earliest(tr) == IF tr.start.at <= tr.end.at THEN tr.start ELSE tr.end
Latest(tr) == IF tr.start.at >= tr.end.at THEN tr.start ELSE tr.end

\* The first transition of this year that is after t, or of the next year
NextInYear(tz, t, tr, y) ==
    IF tr.start.at > t /\ tr.end.at > t THEN Earliest(tr)
    ELSE IF tr.start.at > t THEN tr.start
    ELSE IF tr.end.at > t THEN tr.end
    ELSE IF y + 1 \in Years THEN Earliest(utc_transitions_for_year(tz, y + 1))
    ELSE NoTransition
PosixNext(tz, t) ==
    LET y == StdYear(tz, t) IN
    IF tz.dst = <<>> THEN NoTransition ELSE NextInYear(tz, t, utc_transitions_for_year(tz, y), y)

PrevThisYear(tz, t, tr, y) ==     \* mutant: the last year is not looked at
    IF tr.start.at < t /\ tr.end.at < t THEN Latest(tr)
    ELSE IF tr.start.at < t THEN tr.start
    ELSE IF tr.end.at < t THEN tr.end
    ELSE NoTransition

PrevInYear(tz, t, tr, y) ==
    IF tr.start.at < t /\ tr.end.at < t THEN Latest(tr)
    ELSE IF tr.start.at < t THEN tr.start
    ELSE IF tr.end.at < t THEN tr.end
    ELSE IF y - 1 \in Years THEN Latest(utc_transitions_for_year(tz, y - 1))
    ELSE NoTransition
PosixPrev(tz, t) ==
    LET y == StdYear(tz, t) IN
    IF tz.dst = <<>> THEN NoTransition ELSE PrevInYear(tz, t, utc_transitions_for_year(tz, y), y)

-----------------------------------------------------------------------------
(***************************************************************************)
(* A zone with recorded transitions and the string that follows them: the  *)
(* lookups of TimeZone, whose end is here <<tz>> or <<>>.                   *)
(***************************************************************************)
parse_posix(tz) == [utc |-> <<>>, local |-> <<>>, end |-> <<tz>>]

FooterOffset(zone, t) ==
    LET i == bisect(zone.utc, t) IN
    IF i # Past(zone.utc) THEN zone.utc[Larger(1, i - 1)].offset
    ELSE IF zone.end # <<>> THEN PosixOffset(zone.end[1], t)
    ELSE Final(zone.utc).offset

FooterSaving(zone, t) ==
    LET i == bisect(zone.utc, t) IN
    IF i # Past(zone.utc) THEN zone.utc[Larger(1, i - 1)].dst_saving
    ELSE IF zone.end # <<>> THEN PosixSaving(zone.end[1], t)
    ELSE Final(zone.utc).dst_saving

FooterMapping(zone, t) ==
    LET i == bisect(zone.local, t) IN
    IF i # Past(zone.local) THEN MappingAt(zone.local[i], t)
    ELSE IF zone.end # <<>> THEN PosixMapping(zone.end[1], t)
    ELSE IF zone.local = <<>> THEN Panic
    ELSE Unique(Final(zone.local).offset + Final(zone.local).change)

FooterNext(zone, t) ==
    LET i == bisect(zone.utc, t) IN
    IF i # Past(zone.utc) THEN zone.utc[i]
    ELSE IF zone.end # <<>> THEN PosixNext(zone.end[1], t)
    ELSE NoTransition

\* Past the recorded transitions the string is asked first.
RecordedPrev(zone, idx) == IF idx > 1 THEN zone.utc[idx] ELSE NoTransition
PrevOr(posix, recorded) == IF posix # NoTransition THEN posix ELSE recorded
FooterPrev(zone, t) ==
    PrevOr(IF zone.end # <<>> /\ (zone.utc = <<>> \/ t > Final(zone.utc).at)
           THEN PosixPrev(zone.end[1], t) ELSE NoTransition,
           RecordedPrev(zone, partition_point(zone.utc, t)))
=============================================================================
