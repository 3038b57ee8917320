------------------------------- MODULE MCText -------------------------------
(***************************************************************************)
(* Text with the values where fields vanish, wrap around or lose digits.   *)
(***************************************************************************)
EXTENDS Text

V(y, mo, d, h, mi, s, n, offset) == Value(Date(y, mo, d), h, mi, s, n, offset, 100)
MCValues ==
    {V(2024, 2, 29, 0, 0, 0, 0, 0), V(2024, 5, 31, 12, 30, 0, 500000000, -1800),
     V(1999, 12, 31, 23, 59, 59, 123456789, 20700), V(987, 10, 5, 1, 0, 9, 1000, -18015),
     V(9999, 12, 31, 11, 5, 0, 0, 86399), V(1, 1, 1, 13, 7, 30, 0, -86340)}

\* Runs of a pattern
R(ch, n) == [ch |-> ch, n |-> n, text |-> <<>>]
Lit(s) == [ch |-> "lit", n |-> 1, text |-> s]
Quoted(s) == [ch |-> "quoted", n |-> 1, text |-> s]
CC == R("colon", 1)
DD == R("dot", 1)
Ymd == <<R("Y", 4), Lit(<<Minus>>), R("M", 2), Lit(<<Minus>>), R("D", 2)>>
Gap1 == <<Lit(<<Space>>)>>

MCPatterns ==
    [date |-> {Ymd, <<R("E", 3), Lit(<<Comma, Space>>), R("D", 1), Lit(<<Space>>), R("M", 4), Lit(<<Space>>), R("Y", 4)>>,
               <<R("D", 2), Lit(<<Minus>>), R("M", 3), Lit(<<Minus>>), R("Y", 2)>>,
               <<R("M", 1), Lit(<<Minus>>), R("D", 1), Lit(<<Minus>>), R("Y", 4), Lit(<<Space>>), R("E", 4)>>,
               <<R("D", 1), R("M", 1), R("Y", 4)>>, <<R("Y", 3)>>, <<R("D", 2), R("D", 1)>>, <<R("h", 2)>>},
     time |-> {<<R("h", 2), CC, R("m", 2), CC, R("S", 2), DD, R("F", 9)>>,
               <<R("h", 1), CC, R("m", 1), CC, R("s", 1), DD, R("f", 3)>>,
               <<R("i", 2), CC, R("m", 2), CC, R("s", 2), Lit(<<Space>>), R("a", 2)>>,
               <<R("i", 1), R("a", 1), Lit(<<Space>>), R("m", 2), R("S", 2), R("F", 6)>>,
               <<R("h", 2), CC, Quoted(<<LetterM>>), R("m", 1), DD>>, <<R("i", 2)>>,
               <<R("h", 2), R("a", 2)>>, <<R("f", 10)>>, <<R("#", 1)>>, <<R("h", 2), Quoted(<<>>), R("s", 2)>>},
     offset |-> {Ymd \o <<Quoted(<<SepT>>), R("h", 2), R("m", 2), R("x", w)>> : w \in 1 .. 5}
                \cup {Ymd \o Gap1 \o <<R("h", 2), CC, R("m", 2), CC, R("S", 2), DD, R("F", 3), R("X", 5)>>,
                      Ymd \o <<R("X", 6)>>, Ymd},
     instant |-> {Ymd \o Gap1 \o <<R("h", 2), CC, R("m", 2), CC, R("s", 2), DD, R("F", 9), R("X", 3)>>},
     plain |-> {<<R("D", 2), Lit(<<Space>>), R("M", 3), Lit(<<Space>>), R("Y", 4), CC, R("h", 1), CC, R("m", 2), CC, R("s", 2), R("f", 9)>>},
     zoned |-> {Ymd \o Gap1 \o <<R("h", 2), R("m", 2), R("s", 2), R("f", 9), R("x", 5), Lit(<<OpenBracket>>), R("V", 2), Lit(<<CloseBracket>>)>>,
                Ymd \o <<R("z", 2)>>}]

S(kind, cls, unit, basic, sep, pattern) ==
    [kind |-> kind, cls |-> cls, unit |-> unit, basic |-> basic, sep |-> sep, tz |-> "never", pattern |-> pattern]

MCSpecs ==
    UNION {{S("pattern", cls, "auto", FALSE, SepT, p) : p \in MCPatterns[cls]} : cls \in DOMAIN MCPatterns}
    \cup {S("rfc2822", cls, "auto", FALSE, SepT, <<>>) : cls \in {"instant", "offset"}}
    \cup {S("iso", cls, unit, basic, SepT, <<>>) :
            cls \in {"offset", "plain", "time"}, unit \in Precision, basic \in BOOLEAN}
    \cup {S("iso", "instant", "auto", basic, Space, <<>>) : basic \in BOOLEAN}
    \cup {S("iso", "date", "auto", basic, SepT, <<>>) : basic \in BOOLEAN}
    \cup {[S("iso", "zoned", "auto", FALSE, SepT, <<>>) EXCEPT !.tz = tz] : tz \in {"always", "never"}}

MCEdits == {0, 6, 9, Colon, Minus, Space, Zulu}

-----------------------------------------------------------------------------
Elements == compile(spec.pattern)
Width(field) ==
    IF Has(Elements, {field}) THEN Elements[CHOOSE i \in DOMAIN Elements : Elements[i].field = field].width ELSE 0
Max3(a, b, c) == IF a >= b /\ a >= c THEN a ELSE IF b >= c THEN b ELSE c

\* The symbols that an element goes on to read beyond what it has written, and
\* those that it may begin with.
Swallows(e) ==
    CASE e.field \in {"MonthNumUnpadded", "DayUnpadded", "Hour24Unpadded", "Hour12Unpadded", "MinuteUnpadded",
                      "SecondUnpadded", "SecondOpt", "FracTrim"} -> 0 .. 9
      [] e.field = "DotFrac" -> {Dot} \cup 0 .. 9
      [] e.field = "ColonSec" -> {Colon}
      [] e.field \in {"OffsetLower", "OffsetUpper"} /\ e.width = 4 -> 0 .. 9
      [] e.field \in {"OffsetLower", "OffsetUpper"} /\ e.width = 5 -> {Colon}
      [] e.field = "TzId" -> {c \in 0 .. 120 : IsTzIdChar(c)}
      [] OTHER -> {}
BeginsWith(e) ==
    CASE e.field = "Literal" -> {e.text[1]}
      [] e.field = "DotFrac" -> {Dot}
      [] e.field = "ColonSec" -> {Colon}
      [] e.field \in {"OffsetLower", "OffsetUpper"} -> {Plus, Minus, Zulu}
      [] e.field \in {"MonthAbbr", "MonthFull", "WeekdayAbbr", "WeekdayFull", "AmPmShort", "AmPmFull", "TzId"} -> 18 .. 120
      [] OTHER -> 0 .. 9
MayBeEmpty(e) == e.field \in {"SecondOpt", "ColonSec", "FracTrim", "DotFrac"}
Separated ==
    \A i, j \in DOMAIN Elements :
        i < j /\ (\A k \in i + 1 .. j - 1 : MayBeEmpty(Elements[k])) =>
            \/ Swallows(Elements[i]) \cap BeginsWith(Elements[j]) = {}
            \/ Elements[i].field = "SecondOpt" /\ Elements[j].field = "FracTrim"

\* The value has nothing that the pattern leaves out or cuts off.
Expressible(v) ==
    /\ Has(Elements, {"Hour24", "Hour24Unpadded"}) \/ (Has(Elements, {"Hour12", "Hour12Unpadded"})
            /\ Has(Elements, {"AmPmShort", "AmPmFull"})) \/ (~Has(Elements, state_key("Hour24")) /\ v.hour = 0)
    /\ Has(Elements, {"Minute", "MinuteUnpadded"}) \/ v.minute = 0
    /\ Has(Elements, state_key("Second")) \/ v.second = 0
    /\ v.nanos % 10 ^ (9 - Max3(Width("FracExact"), Width("FracTrim"), Width("DotFrac"))) = 0
    /\ LET w == IF Width("OffsetLower") > 0 THEN Width("OffsetLower") ELSE Width("OffsetUpper")
       IN  CASE w = 1 -> v.offset % 3600 = 0 [] w \in {2, 3} -> v.offset % 60 = 0 [] OTHER -> TRUE
    /\ ~Has(Elements, {"Year2", "TzAbbrev"})

Unedited == edits = 0 /\ text # NoText /\ out # NotRead

\* A pattern that separates its fields reads back what it has written of a value
\* that it can express: AM and PM, optional seconds, trimmed fractions, names and
\* offsets of every width.
PatternRoundTrip ==
    Unedited /\ spec.kind = "pattern" /\ Separated /\ Expressible(value)
        /\ (spec.cls \in {"offset", "instant"} => Has(Elements, {"OffsetLower", "OffsetUpper"}))
        => out = value

\* Whatever text a pattern that separates its fields accepts, the value that it
\* gives reads back from its own text.
ParsedReadsBack ==
    out \notin {NotRead, Invalid} /\ spec.kind = "pattern" /\ Separated =>
        Read(Write(out, spec), spec) = out

Truncated(v, unit) ==
    CASE unit = "hour" -> [v EXCEPT !.minute = 0, !.second = 0, !.nanos = 0]
      [] unit = "minute" -> [v EXCEPT !.second = 0, !.nanos = 0]
      [] unit = "second" -> [v EXCEPT !.nanos = 0]
      [] unit = "millisecond" -> [v EXCEPT !.nanos = @ - (@ % 1000000)]
      [] unit = "microsecond" -> [v EXCEPT !.nanos = @ - (@ % 1000)]
      [] OTHER -> v

\* RFC 2822 texts read back without the fraction of the second, and without the
\* seconds of an offset; a weekday that does not fit is refused.
Rfc2822Holds ==
    spec.kind = "rfc2822" =>
        /\ Unedited /\ value.offset % 60 = 0 => out = Truncated(value, "second")
        /\ out \notin {NotRead, Invalid} => Read(Write(out, spec), spec) = out
        /\ out \notin {NotRead, Invalid} /\ spec.cls = "offset" /\ ReadRfcWeekday(text, Blank(text, 0)).val # 0 =>
                day_of_week(unix_days(out.date)) = ReadRfcWeekday(text, Blank(text, 0)).val

\* ISO 8601 texts, basic or extended, read back as the value cut off at the unit;
\* and their parts have the lengths that the string was allocated with.  What a
\* ZonedDateTime writes, OffsetDateTime reads without the TZ ID.  RFC 2822 reads
\* back what it wrote as well.
StandardTextsReadBack ==
    /\ Rfc2822Holds
    /\ spec.kind = "iso" =>
          /\ Unedited => out = Truncated(Normal(value, ReadBy(spec)), spec.unit)
          /\ spec.cls # "date" => Len(TimeIso(value, spec.unit, spec.basic)) = TimeIsoLen(value, spec.unit, spec.basic)
          /\ spec.cls = "offset" => Len(OffsetIso(value.offset, spec.basic)) = OffsetIsoLen(value.offset, spec.basic)
          /\ out \notin {NotRead, Invalid} /\ spec.unit = "auto" /\ spec.cls # "zoned" =>
                Read(Write(out, spec), spec) = out

-----------------------------------------------------------------------------
\* src/common/pattern.rs:1492 "SAFETY: parse_offset_value validates components, so
\* secs is within Offset bounds": an offset that was parsed is less than 24 hours.
ParsedOffsetWithinBounds ==
    out \notin {NotRead, Invalid} /\ spec.cls = "offset" => Abs(out.offset) < 86400
=============================================================================
