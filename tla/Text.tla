-------------------------------- MODULE Text --------------------------------
(***************************************************************************)
(* Texts in and out of the classes: a value is formatted, the text may be  *)
(* changed on its way by whoever passes it on, and is parsed again.  The   *)
(* format is ISO 8601, RFC 2822 or a pattern of the class.                 *)
(*                                                                         *)
(* A spec is [kind, cls, unit, basic, sep, tz, pattern]; the fields that   *)
(* its kind does not use are there but not looked at.                      *)
(***************************************************************************)
EXTENDS Pattern

CONSTANTS
    Values,        \* the values to format
    Specs,         \* the formats
    Edits,         \* the symbols that another one may be replaced by
    MaxEdits       \* the number of symbols that are replaced

VARIABLES value, spec, text, out, edits
vars == <<value, spec, text, out, edits>>

NoText == <<EndOfText>>
NotRead == [Invalid EXCEPT !.hour = -2]     \* nothing parsed yet

-----------------------------------------------------------------------------
(***************************************************************************)
(* What a class keeps of a value, and its format and parse functions.      *)
(***************************************************************************)
\* An Instant is kept in UTC.
ToUtc(v) ==
    LET t == v.hour * 3600 + v.minute * 60 + v.second - v.offset
        d == t % 86400
    IN  Value(UnixDaysDate(unix_days(v.date) + t \div 86400), d \div 3600, (d \div 60) % 60, d % 60, v.nanos, 0, NoTz)

Normal(v, cls) ==
    CASE cls = "date" -> Value(v.date, 0, 0, 0, 0, NoOffset, NoTz)
      [] cls = "time" -> [v EXCEPT !.date = DateMin, !.offset = NoOffset, !.tz = NoTz]
      [] cls = "plain" -> [v EXCEPT !.offset = NoOffset, !.tz = NoTz]
      [] cls = "offset" -> [v EXCEPT !.tz = NoTz]
      [] cls = "instant" -> ToUtc(v)
      [] cls = "zoned" -> v

FormatPattern(v, cls, pattern) ==
    LET elements == compile(pattern) IN
    IF ~CompileOk(elements) THEN NoText
    ELSE IF ~validate_fields(elements, cls) THEN NoText
    ELSE format_elements(elements, v)

\* The zones of this module have the offsets of the values that are in them: their
\* tables and strings are those of TimeZone and PosixTz.  Without an offset in the text,
\* disambiguation picks one of them.
ZoneOffsets(tz) == {v.offset : v \in {w \in Values : w.tz = tz}}
OffsetIn(st) == IF st.offset = NoOffset THEN CHOOSE o \in ZoneOffsets(st.tz) : TRUE ELSE st.offset

\* parse of each class: what must be there, and what is checked
Finished(v, cls) == IF v = Invalid THEN Invalid ELSE Normal(v, cls)
FromState(st, date, cls) ==
    LET v == Value(date, OrZero(st.hour), OrZero(st.minute), OrZero(st.second), st.nanos, st.offset, st.tz) IN
    IF date = NoDate \/ ~StateTimeOk(st) THEN Invalid
    ELSE IF cls \notin {"time", "instant"} /\ ~WeekdayOk(st, date) THEN Invalid
    ELSE CASE cls \in {"date", "time", "plain"} -> Normal(v, cls)
           [] cls \in {"offset", "instant"} ->
                IF st.offset = NoOffset THEN Invalid ELSE Finished(assume_offset(v), cls)
           [] cls = "zoned" ->
                IF st.tz = NoTz \/ ZoneOffsets(st.tz) = {} THEN Invalid
                ELSE IF OffsetIn(st) \notin ZoneOffsets(st.tz) THEN Invalid
                ELSE assume_offset([v EXCEPT !.offset = OffsetIn(st)])
FromParsed(r, cls) ==
    IF r.ok THEN FromState(r.state, IF cls = "time" THEN DateMin ELSE StateDate(r.state), cls) ELSE Invalid
ParseCompiled(s, cls, elements) ==
    IF ~CompileOk(elements) THEN Invalid
    ELSE IF ~validate_fields(elements, cls) THEN Invalid
    ELSE FromParsed(parse_to_state(elements, s), cls)
ParsePattern(s, cls, pattern) == ParseCompiled(s, cls, compile(pattern))

Write(v, sp) ==
    CASE sp.kind = "iso" /\ sp.cls = "date" -> DateIso(v.date, sp.basic)
      [] sp.kind = "iso" /\ sp.cls = "time" -> TimeIso(v, sp.unit, sp.basic)
      [] sp.kind = "iso" /\ sp.cls \notin {"date", "time"} -> DateTimeIso(v, sp.cls, sp)
      [] sp.kind = "rfc2822" -> Rfc2822(v, sp.cls = "instant")
      [] sp.kind = "pattern" -> FormatPattern(v, sp.cls, sp.pattern)

\* The ISO text of a ZonedDateTime is read by OffsetDateTime here.
ReadBy(sp) == IF sp.kind = "iso" /\ sp.cls = "zoned" THEN "offset" ELSE sp.cls
Read(s, sp) ==
    CASE sp.kind = "iso" -> Finished(DateTimeReadIso(s, ReadBy(sp)), ReadBy(sp))
      [] sp.kind = "rfc2822" -> Finished(ReadRfc2822(s), sp.cls)
      [] sp.kind = "pattern" -> ParsePattern(s, sp.cls, sp.pattern)

-----------------------------------------------------------------------------
Init ==
    /\ spec \in Specs
    /\ value \in {Normal(v, spec.cls) : v \in Values}
    /\ text = NoText /\ out = NotRead /\ edits = 0

Format ==
    /\ text = NoText /\ out = NotRead
    /\ Write(value, spec) # NoText
    /\ text' = Write(value, spec)
    /\ UNCHANGED <<value, spec, out, edits>>

\* A wrong pattern raises.
FormatError ==
    /\ text = NoText /\ out = NotRead
    /\ Write(value, spec) = NoText
    /\ out' = Invalid
    /\ UNCHANGED <<value, spec, text, edits>>

Edit ==
    /\ text # NoText /\ out = NotRead /\ edits < MaxEdits
    /\ \E i \in DOMAIN text, c \in Edits :
        text[i] # c /\ text' = [text EXCEPT ![i] = c]
    /\ edits' = edits + 1
    /\ UNCHANGED <<value, spec, out>>

Cut ==
    /\ text # NoText /\ out = NotRead /\ edits < MaxEdits
    /\ \E i \in DOMAIN text : text' = SubSeq(text, 1, i - 1)
    /\ edits' = edits + 1
    /\ UNCHANGED <<value, spec, out>>

Parse ==
    /\ text # NoText /\ out = NotRead
    /\ out' = Read(text, spec)
    /\ UNCHANGED <<value, spec, text, edits>>

Next == Format \/ FormatError \/ Edit \/ Cut \/ Parse
Spec == Init /\ [][Next]_vars
=============================================================================
