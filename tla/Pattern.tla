------------------------------ MODULE Pattern -------------------------------
(***************************************************************************)
(* Pattern strings (src/common/pattern.rs): compiled into elements, which  *)
(* write the fields of a value and read them back.                         *)
(*                                                                         *)
(* A pattern comes as a sequence of runs [ch, n, text]: n times a          *)
(* specifier letter, a "dot" or "colon", a run "lit" of literal characters *)
(* or a quoted one, with its text in symbols, or anything that is "bad".   *)
(***************************************************************************)
EXTENDS IsoText

CONSTANT MaxLength      \* 1000: of a pattern and of a text

Element(field, width, text) == [field |-> field, width |-> width, text |-> text]
BadElement == Element("Bad", 0, <<>>)

-----------------------------------------------------------------------------
(***************************************************************************)
(* Fields.                                                                 *)
(***************************************************************************)
StateKeys ==
    {{"Year4", "Year2"}, {"MonthNum", "MonthNumUnpadded", "MonthAbbr", "MonthFull"},
     {"Day", "DayUnpadded"}, {"WeekdayAbbr", "WeekdayFull"},
     {"Hour24", "Hour24Unpadded", "Hour12", "Hour12Unpadded"}, {"Minute", "MinuteUnpadded"},
     {"Second", "SecondUnpadded", "SecondOpt", "ColonSec"}, {"FracExact", "FracTrim", "DotFrac"},
     {"AmPmShort", "AmPmFull"}, {"OffsetLower", "OffsetUpper"}, {"TzId"}, {"TzAbbrev"}}
state_key(field) == CHOOSE k \in StateKeys : field \in k

category(field) ==
    CASE \E d \in {"Year4", "MonthNum", "Day", "WeekdayAbbr"} : field \in state_key(d) -> "Date"
      [] field \in {"OffsetLower", "OffsetUpper"} -> "Offset"
      [] field \in {"TzId", "TzAbbrev"} -> "Tz"
      [] OTHER -> "Time"
is_format_only(field) == field \in {"Year2", "TzAbbrev"}

\* compile_specifier: the fields with a width, and the letters and counts of the others
Sized ==
    [f |-> [field |-> "FracExact", max |-> 9], F |-> [field |-> "FracTrim", max |-> 9],
     x |-> [field |-> "OffsetLower", max |-> 5], X |-> [field |-> "OffsetUpper", max |-> 5]]
Specifiers ==
    [Y |-> <<"", "Year2", "", "Year4">>, M |-> <<"MonthNumUnpadded", "MonthNum", "MonthAbbr", "MonthFull">>,
     D |-> <<"DayUnpadded", "Day">>, E |-> <<"", "", "WeekdayAbbr", "WeekdayFull">>,
     h |-> <<"Hour24Unpadded", "Hour24">>, i |-> <<"Hour12Unpadded", "Hour12">>,
     m |-> <<"MinuteUnpadded", "Minute">>, s |-> <<"SecondUnpadded", "Second">>,
     S |-> <<"", "SecondOpt">>, a |-> <<"AmPmShort", "AmPmFull">>, V |-> <<"", "TzId">>, z |-> <<"", "TzAbbrev">>]
is_spec_char(ch) == ch \in DOMAIN Sized \cup DOMAIN Specifiers

compile_specifier(ch, count) ==
    IF ch \in DOMAIN Sized
    THEN IF count <= Sized[ch].max THEN Element(Sized[ch].field, count, <<>>) ELSE BadElement
    ELSE IF count > Len(Specifiers[ch]) THEN BadElement
    ELSE IF Specifiers[ch][count] = "" THEN BadElement
    ELSE Element(Specifiers[ch][count], 0, <<>>)

IsField(e) == e.field # "Literal"
Has(elements, fields) == \E i \in DOMAIN elements : elements[i].field \in fields

validate_cross_fields(elements) ==
    /\ \A i, j \in DOMAIN elements :
        i < j /\ IsField(elements[i]) /\ IsField(elements[j]) =>
            state_key(elements[i].field) # state_key(elements[j].field)
    /\ ~(Has(elements, {"Hour24", "Hour24Unpadded"}) /\ Has(elements, {"AmPmShort", "AmPmFull"}))

\* compile: a dot or colon waits for the next run, which may take it in
Pending(c) == IF c = EndOfText THEN <<>> ELSE <<Element("Literal", 0, <<c>>)>>
Merged(pending, e) ==
    CASE pending = Dot /\ e.field = "FracTrim" -> [e EXCEPT !.field = "DotFrac"]
      [] pending = Colon /\ e.field = "SecondOpt" -> [e EXCEPT !.field = "ColonSec"]
      [] OTHER -> e
CompileRun(acc, run) ==
    LET flushed == acc.elements \o Pending(acc.pending)
        e == compile_specifier(run.ch, run.n)
        merged == Merged(acc.pending, e)
    IN  CASE run.ch = "dot" -> [elements |-> flushed, pending |-> Dot]
          [] run.ch = "colon" -> [elements |-> flushed, pending |-> Colon]
          [] run.ch = "lit" -> [elements |-> Append(flushed, Element("Literal", 0, run.text)), pending |-> EndOfText]
          [] run.ch = "quoted" /\ run.text = <<>> -> [elements |-> flushed, pending |-> EndOfText]
          [] run.ch = "quoted" /\ run.text # <<>> ->
                [elements |-> Append(flushed, Element("Literal", 0, run.text)), pending |-> EndOfText]
          [] is_spec_char(run.ch) ->
                [elements |-> Append(IF merged = e THEN flushed ELSE acc.elements, merged), pending |-> EndOfText]
          [] OTHER -> [elements |-> Append(flushed, BadElement), pending |-> EndOfText]

\* A run is as long as its letter is repeated, or its text with its quotes.
RunLength(run) ==
    CASE run.ch = "lit" -> Len(run.text) [] run.ch = "quoted" -> Len(run.text) + 2 [] OTHER -> run.n
compile(pattern) ==
    LET acc == FoldLeft(CompileRun, [elements |-> <<>>, pending |-> EndOfText], pattern)
    IN  IF FoldLeft(LAMBDA n, run : n + RunLength(run), 0, pattern) > MaxLength THEN <<BadElement>>
        ELSE acc.elements \o Pending(acc.pending)
CompileOk(elements) == ~Has(elements, {"Bad"}) /\ validate_cross_fields(elements)

\* CategorySet and validate_fields
Allowed ==
    [date |-> {"Date"}, time |-> {"Time"}, plain |-> {"Date", "Time"},
     instant |-> {"Date", "Time", "Offset"}, offset |-> {"Date", "Time", "Offset"},
     zoned |-> {"Date", "Time", "Offset", "Tz"}]
validate_fields(elements, cls) ==
    \A i \in DOMAIN elements : IsField(elements[i]) => category(elements[i].field) \in Allowed[cls]

-----------------------------------------------------------------------------
(***************************************************************************)
(* Formatting.                                                             *)
(***************************************************************************)
fmt_unpadded(n) == IF n < 10 THEN <<n>> ELSE format_2_digits(n)
hour12(h) == IF h % 12 = 0 THEN 12 ELSE h % 12

write_nanos_digits(nanos, width) == SubSeq(Digits(nanos, 9), 1, width)
write_nanos_trimmed(nanos, width) ==
    LET cut == nanos - (nanos % 10 ^ (9 - width))
    IN  SubSeq(Digits(nanos, 9), 1, SignificantDigits(cut))
frac_trim_is_empty(nanos, width) == nanos < 10 ^ (9 - width)

write_offset(secs, width, use_z) ==
    LET a == Abs(secs)
        colon == IF width \in {3, 5} THEN <<Colon>> ELSE <<>>
    IN  IF secs = 0 /\ use_z THEN <<Zulu>>
        ELSE <<Sign(secs)>> \o format_2_digits(a \div 3600)
             \o (IF width = 1 THEN <<>> ELSE colon \o format_2_digits((a % 3600) \div 60))
             \o (IF width >= 4 /\ a % 60 # 0 THEN colon \o format_2_digits(a % 60) ELSE <<>>)

SecondWrittenIfSet(v) == v.second > 0     \* mutant: a fraction alone writes no seconds
SecondWritten(v) == v.second > 0 \/ v.nanos > 0

write_field(e, v) ==
    LET f == e.field
        weekday == day_of_week(unix_days(v.date))
    IN  CASE f = "Literal" -> e.text
          [] f = "Year4" -> format_4_digits(v.date.year)
          [] f = "Year2" -> format_2_digits(v.date.year % 100)
          [] f = "MonthNum" -> format_2_digits(v.date.month)
          [] f = "MonthNumUnpadded" -> fmt_unpadded(v.date.month)
          [] f = "MonthAbbr" -> <<MonthAbbr(v.date.month)>>
          [] f = "MonthFull" -> <<MonthFull(v.date.month)>>
          [] f = "Day" -> format_2_digits(v.date.day)
          [] f = "DayUnpadded" -> fmt_unpadded(v.date.day)
          [] f = "WeekdayAbbr" -> <<WeekdayAbbr(weekday)>>
          [] f = "WeekdayFull" -> <<WeekdayFull(weekday)>>
          [] f = "Hour24" -> format_2_digits(v.hour)
          [] f = "Hour24Unpadded" -> fmt_unpadded(v.hour)
          [] f = "Hour12" -> format_2_digits(hour12(v.hour))
          [] f = "Hour12Unpadded" -> fmt_unpadded(hour12(v.hour))
          [] f = "Minute" -> format_2_digits(v.minute)
          [] f = "MinuteUnpadded" -> fmt_unpadded(v.minute)
          [] f = "Second" -> format_2_digits(v.second)
          [] f = "SecondUnpadded" -> fmt_unpadded(v.second)
          [] f = "SecondOpt" -> IF SecondWritten(v) THEN format_2_digits(v.second) ELSE <<>>
          [] f = "ColonSec" -> IF SecondWritten(v) THEN <<Colon>> \o format_2_digits(v.second) ELSE <<>>
          [] f = "FracExact" -> write_nanos_digits(v.nanos, e.width)
          [] f = "FracTrim" -> write_nanos_trimmed(v.nanos, e.width)
          [] f = "DotFrac" -> IF frac_trim_is_empty(v.nanos, e.width) THEN <<>>
                              ELSE <<Dot>> \o write_nanos_trimmed(v.nanos, e.width)
          [] f = "AmPmShort" -> <<IF v.hour < 12 THEN LetterA ELSE LetterP>>
          [] f = "AmPmFull" -> <<IF v.hour < 12 THEN LetterA ELSE LetterP, LetterM>>
          [] f = "OffsetLower" -> write_offset(v.offset, e.width, FALSE)
          [] f = "OffsetUpper" -> write_offset(v.offset, e.width, TRUE)
          [] f = "TzId" -> <<v.tz>>
          [] f = "TzAbbrev" -> <<TzAbbreviation>>

format_elements(elements, v) == FoldLeft(LAMBDA text, e : text \o write_field(e, v), <<>>, elements)

-----------------------------------------------------------------------------
(***************************************************************************)
(* Parsing.  ParseState: a number per field, -1 if it is not set.          *)
(***************************************************************************)
Unset == -1
EmptyState ==
    [year |-> Unset, month |-> Unset, day |-> Unset, weekday |-> Unset, hour |-> Unset, minute |-> Unset,
     second |-> Unset, nanos |-> 0, pm |-> Unset, offset |-> NoOffset, tz |-> NoTz, second_absent |-> FALSE]

Parsed(pos, state) == [ok |-> TRUE, pos |-> pos, state |-> state]
NotParsed == [ok |-> FALSE, pos |-> 0, state |-> EmptyState]
Set(state, key, got) == IF got.ok THEN Parsed(got.pos, [state EXCEPT ![key] = got.val]) ELSE NotParsed

\* parse_digits of two, or parse_1or2_digits
Number(s, pos, padded) == IF padded THEN parse_digits(s, pos, 2) ELSE up_to_2_digits(s, pos)

\* parse_name_match: the number whose name stands at pos
Name(s, pos, names) ==
    LET named == {n \in DOMAIN names : names[n] = peek(s, pos)}
    IN  IF named = {} THEN Miss ELSE Got(CHOOSE n \in named : TRUE, pos + 1)

\* parse_offset_value: the hours are two digits of any value
OffsetPart(s, got, colon) ==
    IF got.ok /\ (colon => peek(s, got.pos) = Colon)
    THEN Push(got, InRange(parse_digits(s, got.pos + Truth(colon), 2), 0, 59)) ELSE Miss
OffsetMinutes(s, got, width) == IF width = 1 THEN got ELSE OffsetPart(s, got, width \in {3, 5})
OffsetSeconds(s, got, width) ==
    IF width = 4 /\ IsDigit(peek(s, got.pos)) THEN OffsetPart(s, got, FALSE)
    ELSE IF width = 5 /\ peek(s, got.pos) = Colon THEN OffsetPart(s, got, TRUE)
    ELSE got
parse_offset_value(s, pos, width, accept_z) ==
    LET c == peek(s, pos)
        hours == Read1(parse_digits(s, pos + 1, 2))
    IN  IF accept_z /\ c = Zulu THEN Got(0, pos + 1)
        ELSE IF c \notin {Plus, Minus} THEN Miss
        ELSE SignedSeconds(c, OffsetSeconds(s, OffsetMinutes(s, hours, width), width))

\* FracTrim and parse_dot_frac read as many digits as there are, up to the width
TrimmedFraction(s, pos, width) == Fraction(s, pos, DigitRun(s, pos, width))
parse_dot_frac(s, pos, width) ==
    IF peek(s, pos) = Dot THEN TrimmedFraction(s, pos + 1, width) ELSE Got(0, pos)

AmPm(s, pos, full) ==
    LET c == peek(s, pos) IN
    IF c \in {LetterA, LetterP} /\ (full => peek(s, pos + 1) = LetterM)
    THEN Got(Truth(c = LetterP), pos + 1 + Truth(full)) ELSE Miss

TzIdEnd(s, pos) ==
    CHOOSE p \in pos .. Len(s) : (\A q \in pos .. p - 1 : IsTzIdChar(s[q + 1])) /\ ~IsTzIdChar(peek(s, p))

parse_field(e, s, pos, st) ==
    LET f == e.field
        absent == [st EXCEPT !.second = 0, !.second_absent = TRUE]
        end == TzIdEnd(s, pos)
    IN  CASE f = "Literal" -> IF IsPrefix(e.text, SubSeq(s, pos + 1, Len(s)))
                              THEN Parsed(pos + Len(e.text), st) ELSE NotParsed
          [] is_format_only(f) -> NotParsed
          [] f = "Year4" -> Set(st, "year", InRange(parse_digits(s, pos, 4), 1, 9999))
          [] f \in {"MonthNum", "MonthNumUnpadded"} ->
                Set(st, "month", InRange(Number(s, pos, f = "MonthNum"), 1, 12))
          [] f = "MonthAbbr" -> Set(st, "month", Name(s, pos, [n \in 1 .. 12 |-> MonthAbbr(n)]))
          [] f = "MonthFull" -> Set(st, "month", Name(s, pos, [n \in 1 .. 12 |-> MonthFull(n)]))
          [] f \in {"Day", "DayUnpadded"} -> Set(st, "day", Number(s, pos, f = "Day"))
          [] f = "WeekdayAbbr" -> Set(st, "weekday", Name(s, pos, [n \in 1 .. 7 |-> WeekdayAbbr(n)]))
          [] f = "WeekdayFull" -> Set(st, "weekday", Name(s, pos, [n \in 1 .. 7 |-> WeekdayFull(n)]))
          [] f \in {"Hour24", "Hour24Unpadded"} -> Set(st, "hour", Number(s, pos, f = "Hour24"))
          [] f \in {"Hour12", "Hour12Unpadded"} ->
                Set(st, "hour", InRange(Number(s, pos, f = "Hour12"), 1, 12))
          [] f \in {"Minute", "MinuteUnpadded"} -> Set(st, "minute", Number(s, pos, f = "Minute"))
          [] f \in {"Second", "SecondUnpadded"} -> Set(st, "second", Leap(Number(s, pos, f = "Second")))
          [] f = "SecondOpt" -> IF IsDigit(peek(s, pos)) THEN Set(st, "second", Leap(parse_digits(s, pos, 2)))
                                ELSE Parsed(pos, absent)
          [] f = "ColonSec" -> IF peek(s, pos) = Colon THEN Set(st, "second", Leap(parse_digits(s, pos + 1, 2)))
                               ELSE Parsed(pos, absent)
          [] f = "FracExact" -> IF DigitRun(s, pos, e.width) < e.width THEN NotParsed
                                ELSE Set(st, "nanos", Fraction(s, pos, e.width))
          [] f \in {"FracTrim", "DotFrac"} /\ st.second_absent -> Parsed(pos, [st EXCEPT !.nanos = 0])
          [] f = "FracTrim" /\ ~st.second_absent -> Set(st, "nanos", TrimmedFraction(s, pos, e.width))
          [] f = "DotFrac" /\ ~st.second_absent -> Set(st, "nanos", parse_dot_frac(s, pos, e.width))
          [] f \in {"AmPmShort", "AmPmFull"} -> Set(st, "pm", AmPm(s, pos, f = "AmPmFull"))
          [] f \in {"OffsetLower", "OffsetUpper"} ->
                Set(st, "offset", parse_offset_value(s, pos, e.width, f = "OffsetUpper"))
          [] f = "TzId" -> IF end = pos THEN NotParsed
                           ELSE Parsed(end, [st EXCEPT !.tz = IF end = pos + 1 THEN s[end] ELSE EndOfText])

ResolveNoMidnight(state) ==     \* mutant: twelve in the morning stays twelve
    IF state.pm = 1 /\ state.hour \in 0 .. 11 THEN [state EXCEPT !.hour = @ + 12] ELSE state

\* ParseState::resolve: AM and PM
resolve(state) ==
    CASE state.pm = 1 /\ state.hour \in 0 .. 11 -> [state EXCEPT !.hour = @ + 12]
      [] state.pm = 0 /\ state.hour = 12 -> [state EXCEPT !.hour = 0]
      [] OTHER -> state

ToTheEnd(s, r) ==
    IF r.ok /\ r.pos = Len(s) /\ Len(s) <= MaxLength THEN Parsed(r.pos, resolve(r.state)) ELSE NotParsed
parse_to_state(elements, s) ==
    LET Field(acc, e) == IF acc.ok THEN parse_field(e, s, acc.pos, acc.state) ELSE acc
    IN  ToTheEnd(s, FoldLeft(Field, Parsed(0, EmptyState), elements))

\* ParseState::date, ParseState::time and validate_weekday
StateDate(st) ==
    IF Unset \in {st.year, st.month, st.day} THEN NoDate ELSE NewDate(st.year, st.month, st.day)
OrZero(n) == IF n = Unset THEN 0 ELSE n
StateTimeOk(st) == OrZero(st.hour) < 24 /\ OrZero(st.minute) < 60 /\ OrZero(st.second) < 60
WeekdayOk(st, date) == st.weekday \in {Unset, day_of_week(unix_days(date))}
=============================================================================
