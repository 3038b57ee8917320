----------------------------- MODULE MCCalendar -----------------------------
(***************************************************************************)
(* Three questions on the real calendar.  A walk asks every day of a cycle *)
(* of 400 years, and the days at both ends of the range, for its place in  *)
(* the calendar; the calls of Dates start from the dates where months,     *)
(* leap years and the range are awkward; and walks through some years ask  *)
(* POSIX TZ strings of every kind the parser knows, alone and behind       *)
(* recorded transitions, about every hour.                                 *)
(***************************************************************************)
EXTENDS Dates, PosixTz, FiniteSets

CONSTANTS
    CycleDays,    \* the days of the walk: a cycle of the calendar
    EdgeDays,     \* the days of the walks at both ends of the range
    ZoneDays,     \* the days of a walk with a TZ string: more than a year
    Texts,        \* the TZ strings
    Recorded,     \* how many transitions a TZif file records before the string
    Increments    \* round_increment of since

ASSUME IncrementsAssumption == Increments \subseteq 1 .. IncrementMax
ASSUME EdgeAssumption == EdgeDays \in 1 .. UnixDaysMax - UnixDaysMin

VARIABLES
    left,         \* the days left of the walk; 0 for the calls
    text, zone    \* the TZ string, and the zone that has it; NoZone on other walks
mcvars == <<vars, left, text, zone>>

MCStartDates ==
    {DateMin, Date(2023, 3, 31), Date(2024, 2, 29), Date(2024, 12, 31), Date(2025, 2, 28),
     Date(2025, 3, 1), DateMax}
MCShifts == {[months |-> 1, days |-> 0], [months |-> -13, days |-> 1], [months |-> 12, days |-> -31]}
MCFields == {Date(2024, 2, 29), Date(0, 13, 31), Date(2023, 2, 30)}
MCWeekdayNs == {-5, -1, 0, 1, 5}
CycleStart == Date(1999, 12, 31)
MCWalkStarts == {DateMin, CycleStart, shift_days(DateMax, 1 - EdgeDays)}

MCEpochMin == UnixDaysMin * HoursPerDay
MCEpochMax == (UnixDaysMax + 1) * HoursPerDay - 1

M(m, w, d, time) == [kind |-> "M", nums |-> <<m, w, d>>, time |-> time]
J(n, time) == [kind |-> "J", nums |-> <<n>>, time |-> time]
N(n, time) == [kind |-> "n", nums |-> <<n>>, time |-> time]
Text(std, dst, start, end) == [std |-> std, dst |-> dst, rules |-> <<start, end>>]

MCTexts ==
    {Text(5, <<>>, M(3, 2, 0, <<>>), M(11, 1, 0, <<>>)),          \* New York
     Text(-1, <<0>>, M(10, 5, 0, <<>>), M(3, 5, 0, <<1>>)),       \* Dublin: winter is DST
     Text(-10, <<>>, M(10, 1, 0, <<>>), M(4, 1, 0, <<3>>)),       \* Sydney
     Text(3, <<>>, M(3, 5, 0, <<-2>>), M(10, 5, 0, <<-1>>)),      \* Godthab
     Text(-2, <<>>, M(3, 4, 4, <<26>>), M(10, 5, 0, <<2>>)),      \* Jerusalem
     Text(0, <<-2>>, J(60, <<3>>), N(300, <<3>>)),                \* Julian days, two hours
     Text(-3, <<-2>>, N(59, <<>>), J(305, <<30>>)),
     [std |-> -4, dst |-> <<>>, rules |-> <<>>]}

TextOffset(t) == -t.std
TextDst(t) == IF t.dst = <<>> THEN TextOffset(t) + 1 ELSE -t.dst[1]
LocalMean(t) == TextOffset(t) - 2

-----------------------------------------------------------------------------
(***************************************************************************)
(* What the text says: the reference, stated without the code's rules.     *)
(***************************************************************************)
\* The month and day that number n has in a year without a leap day
CommonDate(n) ==
    LET m == CHOOSE k \in Months : n \in DaysBeforeMonth[k] + 1 .. DaysBeforeMonth[k] + MaxMonthDays[k]
    IN  <<m, n - DaysBeforeMonth[m]>>

TextDay(rule, y) ==
    CASE rule.kind = "M" ->
            LET days == {d \in 1 .. days_in_month(y, rule.nums[1]) :
                            day_of_week(unix_days(Date(y, rule.nums[1], d))) % 7 = rule.nums[3]}
                Rank(d) == Cardinality({e \in days : e <= d})
                nth == CHOOSE d \in days :
                        IF rule.nums[2] = 5 THEN \A e \in days : e <= d ELSE Rank(d) = rule.nums[2]
            IN  unix_days(Date(y, rule.nums[1], nth))
      [] rule.kind = "J" -> LET md == CommonDate(rule.nums[1]) IN unix_days(Date(y, md[1], md[2]))
      [] rule.kind = "n" -> unix_days(Date(y, 1, 1)) + rule.nums[1]

TextHour(rule, y) ==
    TextDay(rule, y) * HoursPerDay + IF rule.time = <<>> THEN 2 ELSE rule.time[1]

TextTransitions(t, years) ==
    IF t.rules = <<>> THEN {}
    ELSE {[at |-> TextHour(t.rules[1], y) - TextOffset(t), offset |-> TextDst(t)] : y \in years \cap Years}
         \cup {[at |-> TextHour(t.rules[2], y) - TextDst(t), offset |-> TextOffset(t)] : y \in years \cap Years}

-----------------------------------------------------------------------------
\* A file records transitions of the string's own rules, after a local mean
\* time, as zic does.
RecordedZone(t, n) ==
    LET all == SetToSortSeq(TextTransitions(t, {2023, 2024}), LAMBDA a, b : a.at < b.at)
        utc == <<[at |-> EpochMin, offset |-> LocalMean(t), dst_saving |-> 0]>> \o
               [i \in 1 .. Smaller(n, Len(all)) |->
                    [at |-> all[i].at, offset |-> all[i].offset,
                     dst_saving |-> IF all[i].offset = TextDst(t) THEN TextDst(t) - TextOffset(t) ELSE 0]]
    IN  [utc |-> utc, local |-> local_transitions(utc), end |-> <<parse(t)>>]

(***************************************************************************)
(* What the lookups take for granted about a string and a file with it: no *)
(* transition is near New Year, DST begins and ends once a year, always in *)
(* the same order and with the time of two changes between, and the last   *)
(* recorded transition is one of the string.                               *)
(***************************************************************************)
NewYear(y) == unix_days_at_jan1(y) * HoursPerDay
Margin == 4 * HoursPerDay
DstStart(tz, y) == for_year(tz.dst[1].start, y)
DstEnd(tz, y) == for_year(tz.dst[1].end, y)

Settled(tz) ==
    tz.dst = <<>> \/
    LET twice == 2 * Abs(tz.dst[1].offset - tz.std) IN
    /\ \A y \in Years : {DstStart(tz, y), DstEnd(tz, y)}
                            \subseteq NewYear(y) + Margin .. NewYear(y + 1) - Margin
    /\ \/ \A y \in Years : DstStart(tz, y) + twice < DstEnd(tz, y)
       \/ \A y \in Years : DstEnd(tz, y) + twice < DstStart(tz, y)

\* The last recorded transition is one that the rules have in the year y.
RecordsRule(utc, tz, y) ==
    LET n == Len(utc)
        std == tz.std
        dst == tz.dst[1].offset
        s == DstStart(tz, y)
        e == DstEnd(tz, y)
    IN  /\ s + Margin < e \/ e + Margin < s
        /\ \/ utc[n].at = s - std /\ utc[n].offset = dst /\ utc[n - 1].offset = std
           \/ utc[n].at = e - dst /\ utc[n].offset = std /\ utc[n - 1].offset = dst

HandsOver(z, tz) ==
    /\ WellFormedUtc(z.utc) /\ z.local = local_transitions(z.utc) /\ z.end = <<tz>>
    /\ Len(z.utc) > 1 => tz.dst # <<>> /\ \E y \in Years : RecordsRule(z.utc, tz, y)

ASSUME TextsAssumption ==
    \A t \in Texts :
        /\ t.std \in Int /\ (t.dst = <<>> \/ t.dst[1] \in Int)
        /\ parse(t) # NoTz /\ Settled(parse(t))
        /\ \A n \in Recorded :
            LET z == RecordedZone(t, n) IN
            /\ HandsOver(z, parse(t))
            /\ \A i \in DOMAIN z.utc : z.utc[i].offset \in {TextOffset(t), TextDst(t), LocalMean(t)}

\* A rule that parse reads as it stands.  Not so: a time beyond the limit, which
\* becomes 2 AM, and day 365, which in a common year becomes its last day.
ReadsPlainly(rule) ==
    /\ rule.kind \in {"M", "J", "n"}
    /\ rule.kind = "n" => rule.nums[1] \in 0 .. 364
    /\ rule.time = <<>> \/ rule.time[1] \in -RuleTimeMax .. RuleTimeMax

ASSUME RulesAssumption ==
    \A t \in Texts : t.rules = <<>> \/ (ReadsPlainly(t.rules[1]) /\ ReadsPlainly(t.rules[2]))

\* No transition that leaves the offset as it is.
ASSUME ChangesAssumption ==
    \A t \in Texts :
        /\ parse(t).dst # <<>> => parse(t).dst[1].offset # parse(t).std
        /\ \A n \in Recorded :
            LET utc == RecordedZone(t, n).utc IN
            \A i \in 2 .. Len(utc) : utc[i].offset # utc[i - 1].offset

NoZone == [utc |-> <<>>, local |-> <<>>, end |-> <<>>]
ZoneStart == Date(2023, 1, 1)
ZoneStarts == {ZoneStart, DateMin, shift_days(DateMax, -EdgeDays)}

InitWalk ==
    /\ other = obj
    /\ delta = NoDelta /\ err = "none" /\ calls = MaxCalls

InitZone ==
    /\ text \in Texts
    /\ \/ zone = parse_posix(parse(text)) /\ obj \in ZoneStarts
       \/ \E n \in Recorded : zone = RecordedZone(text, n) /\ obj = ZoneStart
    /\ left = IF obj = ZoneStart THEN ZoneDays ELSE EdgeDays

MCInit ==
    \/ InitZone /\ InitWalk
    \/ /\ text \in {t \in Texts : t.rules = <<>>} /\ zone = NoZone
       /\ \/ Init /\ left = 0
          \/ obj \in MCWalkStarts /\ left = (IF obj = CycleStart THEN CycleDays ELSE EdgeDays) /\ InitWalk

Walk ==
    /\ left > 0
    /\ left' = left - 1
    /\ obj' = tomorrow(obj)
    /\ obj' # NoDate
    /\ UNCHANGED <<other, delta, err, calls, text, zone>>

MCNext == Walk \/ (left = 0 /\ Next /\ UNCHANGED <<left, text, zone>>)
MCSpec == MCInit /\ [][MCNext]_mcvars

Walking == left > 0 \/ zone # NoZone

-----------------------------------------------------------------------------
\* The number of a day and its date determine each other, consecutive days have
\* consecutive numbers and weekdays, and both neighbours are what they claim.
CalendarCountsDays ==
    LET n == unix_days(obj) IN
    /\ n \in UnixDays /\ UnixDaysDate(n) = obj
    /\ obj # DateMax => unix_days(tomorrow(obj)) = n + 1 /\ yesterday(tomorrow(obj)) = obj
    /\ obj = DateMax => tomorrow(obj) = NoDate
    /\ obj = Date(obj.year, 1, 1) => day_of_year(obj) = 1
    /\ obj # DateMax /\ tomorrow(obj).year = obj.year => day_of_year(tomorrow(obj)) = day_of_year(obj) + 1
    /\ obj # DateMax => day_of_week(n + 1) = (day_of_week(n) % 7) + 1

NthWeekdayCounts(n, dow) ==
    LET d == nth_weekday(obj, n, dow)
        m == nth_weekday_of_month(obj, n, dow)
        Named(from, to) == Cardinality({k \in from .. to : day_of_week(k) = dow})
        first == unix_days(Date(obj.year, obj.month, 1))
        last == unix_days(Date(obj.year, obj.month, days_in_month(obj.year, obj.month)))
    IN  /\ d # NoDate =>
            IF n > 0 THEN Named(unix_days(obj) + 1, unix_days(d)) = n /\ day_of_week(unix_days(d)) = dow
            ELSE Named(unix_days(d), unix_days(obj) - 1) = -n /\ day_of_week(unix_days(d)) = dow
        /\ IF m = NoDate THEN Named(first, last) < Distance(0, n)
           ELSE /\ day_of_week(unix_days(m)) = dow
                /\ IF n > 0 THEN Named(first, unix_days(m)) = n ELSE Named(unix_days(m), last) = -n

\* Weekdays are counted right: a week belongs to the year that has its Thursday
\* and is numbered by the Thursdays of that year, and the nth weekday after or
\* before a date, or of its month, is the nth day of that name.
WeekdaysCount ==
    LET thursday == UnixDaysDate(unix_days(obj) + 4 - day_of_week(unix_days(obj)))
        edge == unix_days(obj) \notin UnixDaysMin + 3 .. UnixDaysMax - 3
    IN  /\ edge \/ iso_year_week(obj) = <<thursday.year, (day_of_year(thursday) + 6) \div 7>>
        /\ ~Walking => \A n \in WeekdayNs \ {0}, dow \in Weekdays : NthWeekdayCounts(n, dow)

Before(a, b, neg) == IF neg THEN DateLess(b, a) ELSE DateLess(a, b)

LeadsTo(d, next, units, neg) ==
    LET back == shift_by(other, to_calendar_shift(d.value))
        past == shift_by(other, to_calendar_shift([d.value EXCEPT ![next] = @ + Step(1, neg)]))
    IN  /\ back # NoDate /\ ~Before(obj, back, neg)
        /\ past # NoDate => Before(obj, past, neg)
        /\ "days" \in units => back = obj
        /\ \A u \in units : IF neg THEN d.value[u] <= 0 ELSE d.value[u] >= 0
SinceLeadsTo(d, units) == d.ok => LeadsTo(d, smallest(CalendarUnit, units), units, DateLess(obj, other))

\* A difference never leads past its target, is as large as it can be, and with
\* days among its units leads exactly there when it is added again; so does the
\* deprecated `-`, whose months and days have one sign.
DifferenceAddsBack ==
    ~Walking =>
        /\ LET m == minus(obj, other) IN
            /\ ShiftDate(other, m.months, m.days) = obj
            /\ (m.months >= 0 /\ m.days >= 0) \/ (m.months <= 0 /\ m.days <= 0)
        /\ \A units \in (SUBSET Names(CalendarUnit)) \ {{}} :
            SinceLeadsTo(date_since_iddelta(obj, other, units, "trunc", 1), units)

\* value is the rounded difference, trunc the one rounded down; t and e are the
\* days that it and one increment more lead to.
RoundedByMode(value, trunc, t, e, mode, inc, neg) ==
    LET o == unix_days(obj)
        got == IF value = trunc THEN t ELSE e
        far == IF value = trunc THEN e ELSE t
        tie == Distance(o, t) = Distance(o, e)
    IN  /\ value \in {trunc, trunc + Step(inc, neg)}
        /\ mode = "floor" => got <= o
        /\ mode = "ceil" => got >= o
        /\ mode = "trunc" => got = t
        /\ mode = "expand" => got = IF o = t THEN t ELSE e
        /\ mode \notin {"floor", "ceil", "trunc", "expand"} => Distance(o, got) <= Distance(o, far)
        /\ tie => /\ mode = "half_floor" => got < far
                  /\ mode = "half_ceil" => got > far
                  /\ mode = "half_trunc" => got = t
                  /\ mode = "half_expand" => got = e
                  /\ mode = "half_even" => (Distance(0, value) \div inc) % 2 = 0
RoundedFrom(d, unit, mode, inc) ==
    d.ok => RoundedByMode(date_since_iddelta(obj, other, {unit}, mode, inc).value[unit], d.value[unit],
                          unix_days(InterimResolve(d.trunc)), unix_days(InterimResolve(d.expand)),
                          mode, inc, DateLess(obj, other))

\* A rounded difference is the multiple of the increment that the mode asks for,
\* measured in days between the two neighbouring dates.
DifferenceRoundsByMode ==
    ~Walking => \A unit \in Names(CalendarUnit), mode \in Mode, inc \in Increments :
        RoundedFrom(date_diff(obj, other, inc, {unit}, DateLess(obj, other)), unit, mode, inc)

-----------------------------------------------------------------------------
day == unix_days(obj)
HoursOfDay == day * HoursPerDay .. (day + 1) * HoursPerDay - 1
Covered(t) == zone.utc = <<>> \/ t >= Final(zone.utc).at
AwayFromEnds == day \in UnixDaysMin + 2 .. UnixDaysMax - 2

-----------------------------------------------------------------------------
\* The offset is the one of the last transition that the text of the string
\* prescribes, in this year or the one before: for strings of both hemispheres,
\* with negative DST, and with times of day beyond the day.
OffsetFollowsRules ==
    zone # NoZone =>
        LET y == obj.year
            all == TextTransitions(text, {y - 1, y, y + 1})
        IN  \A t \in HoursOfDay :
                LET past == {tr \in all : tr.at <= t}
                    last == CHOOSE tr \in past : \A u \in past : u.at <= tr.at
                IN  Covered(t) /\ (past # {} \/ text.rules = <<>>) =>
                        /\ FooterOffset(zone, t) = IF past = {} THEN TextOffset(text) ELSE last.offset
                        /\ FooterOffset(zone, t) - FooterSaving(zone, t) = TextOffset(text)

\* What a local time means is the inverse of the offset by instant, also where
\* the table of the file hands over to the string.
FooterMappingInverts ==
    zone # NoZone /\ AwayFromEnds =>
        \A l \in HoursOfDay :
            LET m == FooterMapping(zone, l)
                offsets == {TextOffset(text), TextDst(text), LocalMean(text)}
                real == {o \in offsets : FooterOffset(zone, l - o) = o}
            IN  CASE m.kind = "unique" -> real = {m.offset}
                  [] m.kind = "fold" -> real = {m.before, m.after} /\ m.before > m.after
                  [] m.kind = "gap" -> real = {} /\ m.before < m.after

NothingEscapes(t, before, offset, next, prev) ==
    /\ before # offset <=> next.at = t
    /\ before # offset <=> prev.at = t
    /\ before # offset => next.offset = offset /\ prev.offset = next.offset
    /\ FooterNext(zone, t).at = next.at \/ before # offset
    /\ prev.at >= t \/ prev.at = FooterPrev(zone, t).at

\* No change of offset escapes next_transition and prev_transition, neither over
\* New Year nor from the string back into the file; and they invent none.
FooterFindsEveryChange ==
    zone # NoZone /\ AwayFromEnds =>
        \A t \in HoursOfDay :
            NothingEscapes(t, FooterOffset(zone, t - 1), FooterOffset(zone, t),
                           FooterNext(zone, t - 1), FooterPrev(zone, t + 1))
=============================================================================
