------------------------------- MODULE Values -------------------------------
(***************************************************************************)
(* The classes TimeDelta, DateDelta and DateTimeDelta, Time, Instant,      *)
(* PlainDateTime and OffsetDateTime: an object through any sequence of     *)
(* calls, with a second object of its class as operand.  A call returns a  *)
(* new object, raises, or panics; then the caller keeps the old one.       *)
(*                                                                         *)
(* One record holds an object of any class: a TimeDelta, a Time and an     *)
(* Instant are in nanos, a DateTimeDelta is in delta (a DateDelta has no   *)
(* nanos), and a PlainDateTime (whose offset is 0) or OffsetDateTime in dt.*)
(***************************************************************************)
EXTENDS DateTimes

CONSTANTS
    Starts,        \* the objects that calls begin with
    Components,    \* arguments of a constructor: all fields of a datetime
    Kwargs,        \* units of a constructor or shift: sequences of [unit, value]
    Factors,       \* operands of * and /
    DeltaArgs,     \* arguments of add and subtract: [months, days, nanos]
    RoundCalls,    \* arguments of round: [arg, mode]
    Replacements,  \* arguments of replace: sequences of [field, value]
    OffsetArgs,    \* arguments offset, in seconds
    Timestamps,    \* arguments of from_timestamp*
    MaxCalls       \* the number of calls

\* Deltas as arguments, whose parts the calls check, and those that exist.  The months and days
\* of one have one sign; its time may have the other one.
Deltas3 == [months : Int, days : Int, nanos : Int]
DeltaObjects(cls) ==
    {d \in [months : DeltaMonths, days : DeltaDays, nanos : TimeDeltaObjects] :
        same_sign(d.months, d.days) /\ (cls = "date_delta" => d.nanos = 0)}

\* What the constructors of each class let exist
IsPlain(p) == IsDate(p.date) /\ p.time \in Times
InRange(o) ==
    /\ o.cls \in {"time_delta", "date_delta", "datetime_delta", "time", "instant", "plain", "offset"}
    /\ o.cls = "time_delta" => o.nanos \in TimeDeltaObjects
    /\ o.cls = "time" => o.nanos \in Times
    /\ o.cls = "instant" => o.nanos \in Instants
    /\ o.cls \in {"date_delta", "datetime_delta"} => o.delta \in DeltaObjects(o.cls)
    /\ o.cls \in {"plain", "offset"} =>
            IsPlain(o.dt) /\ o.dt.offset \in Offsets /\ o.dt = Offset(o.dt, o.dt.offset)

DateTimeFields == {"year", "month", "day", "hour", "minute", "second", "nanosecond"}

\* Arguments have the types that the calls demand; their values are checked there.
ASSUME ArgumentsAssumption ==
    /\ \A o \in Starts : InRange(o)
    /\ Components \subseteq [DateTimeFields -> Int]
    /\ \A kwargs \in Kwargs : kwargs \in Seq([unit : Names(ExactUnit), value : Int])
    /\ \A kwargs \in Replacements : kwargs \in Seq([field : DateTimeFields, value : Int])
    /\ Factors \subseteq Int /\ OffsetArgs \subseteq Int /\ Timestamps \subseteq Int
    /\ DeltaArgs \subseteq Deltas3
    /\ \A c \in RoundCalls :
        /\ c.mode \in Mode /\ c.arg.increment \in Int /\ c.arg.nanos \in Int
        /\ c.arg.kind \in {"none", "delta"} \/ (c.arg.kind = "unit" /\ c.arg.unit \in Names(RoundUnit))

VARIABLES obj, other, err, calls
vars == <<obj, other, err, calls>>

Object(cls, nanos, delta, dt) == [cls |-> cls, nanos |-> nanos, delta |-> delta, dt |-> dt]
ZeroDelta == DateTimeDelta(0, 0, 0)
OfNanos(cls, nanos) == Object(cls, nanos, ZeroDelta, NoOffset)
OfDelta(cls, delta) == Object(cls, 0, delta, NoOffset)
OfPlain(p) == Object("plain", 0, ZeroDelta, Offset(p, 0))
OfOffset(o) == Object("offset", 0, ZeroDelta, o)
plain == to_plain(obj.dt)

Is(cls) == obj.cls = cls
Pair(cls) == obj.cls = cls /\ other.cls = cls

\* The new object if ok holds, else an error
Give(ok, new) ==
    /\ calls < MaxCalls
    /\ calls' = calls + 1
    /\ obj' = IF ok THEN new ELSE obj
    /\ err' = IF ok THEN "none" ELSE "raised"
    /\ UNCHANGED other

Panic == calls < MaxCalls /\ calls' = calls + 1 /\ err' = "panic" /\ UNCHANGED <<obj, other>>

Init ==
    /\ obj \in Starts
    /\ other \in {o \in Starts : o.cls = obj.cls}
    /\ err = "none"
    /\ calls = 0

-----------------------------------------------------------------------------
(***************************************************************************)
(* Deltas.                                                                 *)
(***************************************************************************)
GiveNanos(n) == Give(n # NoNanos, OfNanos("time_delta", n))

TimeDeltaNew == Is("time_delta") /\ \E kwargs \in Kwargs : GiveNanos(timedelta_from_kwargs(kwargs))
TimeDeltaPlus == Pair("time_delta") /\ GiveNanos(TimeDeltaAdd(obj.nanos, other.nanos))
TimeDeltaMinus == Pair("time_delta") /\ GiveNanos(TimeDeltaAdd(obj.nanos, -other.nanos))
TimeDeltaNegAbs ==
    /\ Is("time_delta")
    /\ GiveNanos(NegateIf(obj.nanos, TRUE)) \/ GiveNanos(TimeDeltaAbs(obj.nanos))
TimeDeltaTimes == Is("time_delta") /\ \E f \in Factors : GiveNanos(TimeDeltaMul(obj.nanos, f))
TimeDeltaDivide ==
    Is("time_delta") /\ \E f \in Factors : Give(f # 0, OfNanos("time_delta", TrueDiv(obj.nanos, f)))
TimeDeltaModulo ==
    Pair("time_delta") /\ Give(other.nanos # 0, OfNanos("time_delta", mod(obj.nanos, other.nanos)))

RoundTimeDelta ==
    /\ Is("time_delta")
    /\ \E c \in RoundCalls :
        LET inc == RoundDeltaArgs(c.arg)
            r == IF inc = 0 THEN NoNanos ELSE TimeDeltaRound(obj.nanos, inc, c.mode)
        IN  (r = Panics /\ Panic) \/ (r # Panics /\ GiveNanos(r))

\* The two parts that a DateTimeDelta consists of, and back: DateDelta + TimeDelta
date_part == Is("datetime_delta") /\ Give(TRUE, OfDelta("date_delta", [obj.delta EXCEPT !.nanos = 0]))
time_part == Is("datetime_delta") /\ Give(TRUE, OfNanos("time_delta", obj.delta.nanos))

GiveDelta(d) == Give(IsDelta(d), OfDelta(obj.cls, d))
HasDelta == obj.cls \in {"date_delta", "datetime_delta"}

DeltaNew ==
    /\ Is("datetime_delta")
    /\ \E d \in DeltaArgs : GiveDelta(DateTimeDeltaFromKwargs(d.months, d.days, d.nanos))
DateDeltaNew ==
    /\ Is("date_delta")
    /\ \E d \in DeltaArgs :
        GiveDelta(IF d.months \in DeltaMonths /\ d.days \in DeltaDays
                  THEN NewDateTimeDelta(d.months, d.days, 0) ELSE TooBig)
DeltaPlus == HasDelta /\ other.cls = obj.cls /\ GiveDelta(DeltaAdd(obj.delta, other.delta))
DeltaMinus == HasDelta /\ other.cls = obj.cls /\ GiveDelta(DeltaAdd(obj.delta, DeltaNeg(other.delta)))
\* DateDelta + TimeDelta, and - : a DateTimeDelta of both.  The TimeDelta is one that exists.
DateDeltaWithTime ==
    /\ Is("date_delta")
    /\ \E d \in DeltaArgs, negate \in BOOLEAN :
        LET r == NewDateTimeDelta(obj.delta.months, obj.delta.days, NegateIf(d.nanos, negate))
        IN  d.nanos \in TimeDeltaObjects /\ Give(IsDelta(r), OfDelta("datetime_delta", r))
DateDeltaTimes == Is("date_delta") /\ \E f \in Factors : GiveDelta(DeltaMul(obj.delta, f))
DeltaTimes == Is("datetime_delta") /\ \E f \in Factors : GiveDelta(DeltaMul(obj.delta, f))
DeltaNegAbs == HasDelta /\ (GiveDelta(DeltaNeg(obj.delta)) \/ GiveDelta(DeltaAbs(obj.delta)))

\* parse_iso(format_iso()) and the pickle of each delta class
TimeDeltaReread ==
    LET n == TimeDeltaParse(TimeDeltaText(obj.nanos)) IN
    Is("time_delta") /\ Give(n \notin {NoNanos, InvalidText}, OfNanos("time_delta", n))
DateDeltaReread ==
    Is("date_delta") /\ (GiveDelta(DeltaParse(DeltaText(obj.delta))) \/ GiveDelta(DeltaUnpickle(obj.delta)))
DeltaReread ==
    Is("datetime_delta") /\ (GiveDelta(DeltaParse(DeltaText(obj.delta))) \/ GiveDelta(DeltaUnpickle(obj.delta)))

DeltaCalls ==
    \/ TimeDeltaNew \/ TimeDeltaPlus \/ TimeDeltaMinus \/ TimeDeltaNegAbs \/ TimeDeltaTimes
    \/ TimeDeltaDivide \/ TimeDeltaModulo \/ RoundTimeDelta \/ date_part \/ time_part
    \/ DeltaNew \/ DeltaPlus \/ DeltaMinus \/ DeltaTimes \/ DeltaNegAbs
    \/ DateDeltaNew \/ DateDeltaWithTime \/ DateDeltaTimes
    \/ TimeDeltaReread \/ DateDeltaReread \/ DeltaReread

-----------------------------------------------------------------------------
(***************************************************************************)
(* Time and Instant.                                                       *)
(***************************************************************************)
TimeNew ==
    /\ Is("time")
    /\ \E c \in Components :
        LET t == NewTime(c.hour, c.minute, c.second, c.nanosecond) IN Give(t # -1, OfNanos("time", t))

\* Time.replace and Time.round, which wraps around at midnight and has no days
ReplaceTime ==
    /\ Is("time")
    /\ \E kwargs \in Replacements :
        LET p == PlainReplace(Plain(DateMin, obj.nanos), kwargs)
        IN  /\ \A i \in DOMAIN kwargs : kwargs[i].field \notin {"year", "month", "day"}
            /\ Give(p # NoPlain, OfNanos("time", p.time))
RoundTime ==
    /\ Is("time")
    /\ \E c \in RoundCalls :
        LET inc == RoundArgs(c.arg)
        IN  Give(~inc.day /\ inc.nanos # 0, OfNanos("time", TimeRound(obj.nanos, inc.nanos, c.mode).time))

GiveInstant(n) == Give(n # NoInstant, OfNanos("instant", n))

from_utc ==
    /\ Is("instant")
    /\ \E c \in Components :
        LET p == into_plain(c) IN GiveInstant(IF p = NoPlain THEN NoInstant ELSE assume_utc(p))

from_timestamps ==
    /\ Is("instant")
    /\ \E t \in Timestamps :
        GiveInstant(from_timestamp(t)) \/ GiveInstant(from_timestamp_millis(t))
        \/ GiveInstant(from_timestamp_nanos(t))

ShiftInstant ==
    Is("instant") /\ \E d \in DeltaArgs : GiveInstant(InstantShift(obj.nanos, d.nanos))
RoundInstant ==
    /\ Is("instant")
    /\ \E c \in RoundCalls :
        LET inc == RoundArgs(c.arg)
        IN  IF inc.day \/ inc.nanos = 0 THEN Give(FALSE, obj)
            ELSE GiveInstant(InstantRound(obj.nanos, inc.nanos, c.mode))

\* Instant - Instant and to_fixed_offset
InstantDifference == Pair("instant") /\ GiveNanos(obj.nanos - other.nanos)
to_fixed_offset ==
    /\ Is("instant")
    /\ \E f \in OffsetArgs :
        LET o == IF f \in Offsets THEN to_offset(obj.nanos, f) ELSE NoOffset IN Give(o # NoOffset, OfOffset(o))

InstantCalls ==
    \/ TimeNew \/ ReplaceTime \/ RoundTime \/ from_utc \/ from_timestamps \/ ShiftInstant \/ RoundInstant
    \/ InstantDifference \/ to_fixed_offset

-----------------------------------------------------------------------------
(***************************************************************************)
(* PlainDateTime and OffsetDateTime.                                       *)
(***************************************************************************)
GivePlain(p) == Give(p # NoPlain, OfPlain(p))
GiveOffset(o) == Give(o # NoOffset, OfOffset(o))

PlainNew == Is("plain") /\ \E c \in Components : GivePlain(into_plain(c))

\* + and - with a delta of any class
shift_operator(p, d, negate) == PlainShiftBy(p, IF negate THEN DeltaNeg(d) ELSE d)

\* The operators, add and subtract of PlainDateTime
ShiftPlain ==
    /\ Is("plain")
    /\ \/ \E d \in DeltaArgs, negate \in BOOLEAN : GivePlain(shift_operator(plain, d, negate))
       \/ \E kwargs \in Kwargs : GivePlain(PlainShiftBy(plain, parse_datetime_shift_kwargs(kwargs)))
ReplacePlain == Is("plain") /\ \E kwargs \in Replacements : GivePlain(PlainReplace(plain, kwargs))
\* replace_date and replace_time
ReplacePlainPart ==
    /\ Pair("plain")
    /\ GivePlain(Plain(other.dt.date, plain.time)) \/ GivePlain(Plain(plain.date, other.dt.time))
PlainBoundary ==
    /\ Is("plain")
    /\ \E unit \in DateTimeBoundaryUnit :
        GivePlain(start_of_unit(plain, unit)) \/ GivePlain(end_of_unit(plain, unit))
RoundPlain ==
    /\ Is("plain")
    /\ \E c \in RoundCalls :
        LET inc == RoundArgs(c.arg)
        IN  IF inc.nanos = 0 THEN Give(FALSE, obj) ELSE GivePlain(PlainRound(plain, inc.nanos, c.mode))
AssumeUtc == Is("plain") /\ GiveInstant(assume_utc(plain))
AssumeFixedOffset ==
    Is("plain") /\ \E f \in OffsetArgs : GiveOffset(IF f \in Offsets THEN assume_offset(plain, f) ELSE NoOffset)
PlainDifference == Pair("plain") /\ GiveNanos(assume_utc(plain) - assume_utc(to_plain(other.dt)))

OffsetNew ==
    /\ Is("offset")
    /\ \E c \in Components, f \in OffsetArgs :
        GiveOffset(IF f \in Offsets THEN assume_offset(into_plain(c), f) ELSE NoOffset)

OffsetFromTimestamp ==
    /\ Is("offset")
    /\ \E t \in Timestamps, f \in OffsetArgs :
        \E n \in {from_timestamp(t), from_timestamp_millis(t), from_timestamp_nanos(t)} :
            GiveOffset(IF n = NoInstant \/ f \notin Offsets THEN NoOffset ELSE to_offset(n, f))

\* + and - take a TimeDelta only.
offset_operator(o, n, negate) == assume_offset(PlainShift(to_plain(o), NegateIf(n, negate)), o.offset)

ShiftOffset ==
    /\ Is("offset")
    /\ \/ \E d \in DeltaArgs : GiveOffset(OffsetShiftBy(obj.dt, d)) \/ GiveOffset(OffsetShiftBy(obj.dt, DeltaNeg(d)))
       \/ \E kwargs \in Kwargs : GiveOffset(OffsetShiftBy(obj.dt, parse_datetime_shift_kwargs(kwargs)))
       \/ \E d \in DeltaArgs, negate \in BOOLEAN : GiveOffset(offset_operator(obj.dt, d.nanos, negate))
ReplaceOffset ==
    /\ Is("offset")
    /\ \E kwargs \in Replacements, f \in OffsetArgs \cup {obj.dt.offset} :
        GiveOffset(IF f \in Offsets THEN OffsetReplace(obj.dt, kwargs, f) ELSE NoOffset)
ReplaceOffsetDate ==
    Pair("offset") /\ GiveOffset(assume_offset(Plain(other.dt.date, obj.dt.time), obj.dt.offset))
ReplaceOffsetTime ==
    Pair("offset") /\ GiveOffset(assume_offset(Plain(obj.dt.date, other.dt.time), obj.dt.offset))
OffsetBoundary ==
    /\ Is("offset")
    /\ \E unit \in DateTimeBoundaryUnit :
        GiveOffset(OffsetStartOf(obj.dt, unit)) \/ GiveOffset(OffsetEndOf(obj.dt, unit))
RoundOffset ==
    /\ Is("offset")
    /\ \E c \in RoundCalls :
        LET inc == RoundArgs(c.arg)
        IN  IF inc.nanos = 0 THEN Give(FALSE, obj) ELSE GiveOffset(OffsetRound(obj.dt, inc.nanos, c.mode))
ToPlain == Is("offset") /\ GivePlain(plain)
\* Every method that needs the instant unwraps it.
ToInstant ==
    /\ Is("offset")
    /\ IF to_instant(obj.dt) = NoInstant THEN Panic ELSE GiveInstant(to_instant(obj.dt))
OffsetDifference ==
    /\ Pair("offset")
    /\ IF NoInstant \in {to_instant(obj.dt), to_instant(other.dt)} THEN Panic
       ELSE GiveNanos(to_instant(obj.dt) - to_instant(other.dt))

DateTimeCalls ==
    \/ PlainNew \/ OffsetNew \/ OffsetFromTimestamp \/ ReplacePlainPart \/ ReplaceOffsetDate \/ ReplaceOffsetTime
    \/ ShiftPlain \/ ReplacePlain \/ PlainBoundary \/ RoundPlain \/ AssumeUtc \/ AssumeFixedOffset
    \/ PlainDifference \/ ShiftOffset \/ ReplaceOffset \/ OffsetBoundary \/ RoundOffset
    \/ ToPlain \/ ToInstant \/ OffsetDifference

Next == DeltaCalls \/ InstantCalls \/ DateTimeCalls
Spec == Init /\ [][Next]_vars
=============================================================================
