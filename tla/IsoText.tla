------------------------------ MODULE IsoText -------------------------------
(***************************************************************************)
(* The standard texts of dates and times: ISO 8601 (the read_iso and       *)
(* iso_format functions of src/domain/ and src/common/format_args.rs) and  *)
(* RFC 2822 (src/common/rfc2822.rs), over the scanner of                   *)
(* src/common/parse.rs.                                                    *)
(*                                                                         *)
(* A text is a sequence of symbols: digits are themselves, the numbers     *)
(* from 10 on are the other characters, and a name or a TZ ID is one       *)
(* symbol.  Letter case is left out.  Positions count from 0.  A value has *)
(* all fields; a Date has no time, a Time the first date, and offset and   *)
(* tz may be absent.                                                       *)
(***************************************************************************)
EXTENDS Calendar, Sequences, SequencesExt

Colon == 10
Dot == 11
Plus == 12
Minus == 13
Zulu == 14
SepT == 15
Space == 16
Comma == 17
LetterA == 18
LetterP == 19
LetterM == 20
OpenBracket == 21
CloseBracket == 22
MonthAbbr(m) == 30 + m
MonthFull(m) == IF m = 5 THEN MonthAbbr(5) ELSE 50 + m      \* May is its own abbreviation
WeekdayAbbr(d) == 70 + d
WeekdayFull(d) == 80 + d
TzIds == 100 .. 109
GMT == 110
EST == 111
OtherZone == 112
TzAbbreviation == 120
EndOfText == -1

IsDigit(c) == c \in 0 .. 9
IsAlpha(c) == c \in {Zulu, SepT, LetterA, LetterP, LetterM} \/ c >= 30
IsTzIdChar(c) == IsDigit(c) \/ IsAlpha(c) \/ c \in {Plus, Minus, Dot}

NoOffset == 1000000       \* no offset in the value
NoTz == 0
Value(date, h, m, s, n, offset, tz) ==
    [date |-> date, hour |-> h, minute |-> m, second |-> s, nanos |-> n, offset |-> offset, tz |-> tz]
Invalid == Value(DateMin, -1, 0, 0, 0, NoOffset, NoTz)

\* OffsetDateTime::new: the instant is in range.
InstantInRange(v) ==
    unix_days(v.date) + (v.hour * 3600 + v.minute * 60 + v.second - v.offset) \div 86400 \in UnixDays
assume_offset(v) == IF v # Invalid /\ InstantInRange(v) THEN v ELSE Invalid

-----------------------------------------------------------------------------
(***************************************************************************)
(* The scanner.  What is read is [ok, val, pos], with the position after.  *)
(***************************************************************************)
Got(val, pos) == [ok |-> TRUE, val |-> val, pos |-> pos]
Miss == [ok |-> FALSE, val |-> 0, pos |-> 0]
peek(s, pos) == IF pos < Len(s) THEN s[pos + 1] ELSE EndOfText

\* The number of digits at pos, at most max
DigitRun(s, pos, max) ==
    LET ends == {k \in 0 .. max : ~IsDigit(peek(s, pos + k))}
    IN  IF ends = {} THEN max ELSE CHOOSE k \in ends : \A j \in ends : k <= j

parse_digits(s, pos, count) ==
    IF DigitRun(s, pos, count) < count THEN Miss
    ELSE Got(FoldLeft(LAMBDA v, d : 10 * v + d, 0, SubSeq(s, pos + 1, pos + count)), pos + count)

InRange(got, lo, hi) == IF got.ok /\ got.val \in lo .. hi THEN got ELSE Miss
Leap(got) == IF got.ok /\ got.val = 60 THEN [got EXCEPT !.val = 59] ELSE got

digits00_59(s, pos) == InRange(parse_digits(s, pos, 2), 0, 59)
digits00_60_leap(s, pos) == Leap(InRange(parse_digits(s, pos, 2), 0, 60))
digits00_23(s, pos) == InRange(parse_digits(s, pos, 2), 0, 23)
up_to_2_digits(s, pos) ==
    IF DigitRun(s, pos, 2) = 0 THEN Miss ELSE parse_digits(s, pos, DigitRun(s, pos, 2))

\* A fraction of count digits, in nanoseconds
Fraction(s, pos, count) ==
    IF count = 0 THEN Got(0, pos)
    ELSE LET d == parse_digits(s, pos, count) IN [d EXCEPT !.val = @ * 10 ^ (9 - count)]

subsec(s, pos) ==
    IF peek(s, pos) \notin {Dot, Comma} THEN Got(0, pos)
    ELSE IF DigitRun(s, pos + 1, 9) = 0 THEN Miss
    ELSE Fraction(s, pos + 1, DigitRun(s, pos + 1, 9))

\* ascii_whitespace: the position after it
Blank(s, pos) ==
    CHOOSE p \in pos .. Len(s) : (\A q \in pos .. p - 1 : s[q + 1] = Space) /\ peek(s, p) # Space

Digits(n, width) == [i \in 1 .. width |-> (n \div 10 ^ (width - i)) % 10]
format_2_digits(n) == Digits(n, 2)
format_4_digits(n) == Digits(n, 4)

-----------------------------------------------------------------------------
(***************************************************************************)
(* ISO 8601.                                                               *)
(***************************************************************************)
Precision == {"hour", "minute", "second", "millisecond", "microsecond", "nanosecond", "auto"}
Sep(basic, c) == IF basic THEN <<>> ELSE <<c>>

DateIso(d, basic) ==
    format_4_digits(d.year) \o Sep(basic, Minus) \o format_2_digits(d.month)
    \o Sep(basic, Minus) \o format_2_digits(d.day)

\* SubSecNanos::iso_format: the length without trailing zeros
SignificantDigits(nanos) == CHOOSE n \in 0 .. 9 : nanos % 10 ^ (9 - n) = 0 /\ (n > 0 => nanos % 10 ^ (10 - n) # 0)
SubsecLen(nanos) == IF nanos = 0 THEN 0 ELSE SignificantDigits(nanos) + 1
SubsecIso(nanos) == <<Dot>> \o Digits(nanos, 9)

\* time::IsoFormat::write
TimeIso(v, unit, basic) ==
    LET toMinute == format_2_digits(v.hour) \o Sep(basic, Colon) \o format_2_digits(v.minute)
        toSecond == toMinute \o Sep(basic, Colon) \o format_2_digits(v.second)
        subsecs == CASE unit = "auto" -> SubsecLen(v.nanos) [] unit = "millisecond" -> 4
                     [] unit = "microsecond" -> 7 [] unit = "nanosecond" -> 10 [] OTHER -> 0
    IN  CASE unit = "hour" -> format_2_digits(v.hour)
          [] unit = "minute" -> toMinute
          [] OTHER -> toSecond \o SubSeq(SubsecIso(v.nanos), 1, subsecs)

TimeIsoLenNoDot(v, unit, basic) ==     \* mutant: the length that auto announces has no dot
    LET digits == CASE unit = "hour" -> 2 [] unit = "minute" -> 4 [] unit = "second" -> 6
                    [] unit = "millisecond" -> 10 [] unit = "microsecond" -> 13
                    [] unit = "nanosecond" -> 16 [] unit = "auto" -> 6 + SignificantDigits(v.nanos)
    IN  digits + IF basic \/ unit = "hour" THEN 0 ELSE IF unit = "minute" THEN 1 ELSE 2

\* time::IsoFormat::len and OffsetFormat::len, which the string is allocated with
TimeIsoLen(v, unit, basic) ==
    LET digits == CASE unit = "hour" -> 2 [] unit = "minute" -> 4 [] unit = "second" -> 6
                    [] unit = "millisecond" -> 10 [] unit = "microsecond" -> 13
                    [] unit = "nanosecond" -> 16 [] unit = "auto" -> 6 + SubsecLen(v.nanos)
    IN  digits + IF basic \/ unit = "hour" THEN 0 ELSE IF unit = "minute" THEN 1 ELSE 2

Abs(n) == IF n < 0 THEN -n ELSE n
Sign(n) == IF n < 0 THEN Minus ELSE Plus

OffsetIso(offset, basic) ==
    LET a == Abs(offset)
        ss == IF a % 60 = 0 THEN <<>> ELSE Sep(basic, Colon) \o format_2_digits(a % 60)
    IN  <<Sign(offset)>> \o format_2_digits(a \div 3600) \o Sep(basic, Colon)
        \o format_2_digits((a \div 60) % 60) \o ss
OffsetIsoLen(offset, basic) ==
    LET sep == Truth(~basic) IN 5 + sep + IF offset % 60 = 0 THEN 0 ELSE 2 + sep

\* format_datetime_iso; an Instant has Zulu, a PlainDateTime nothing
SuffixIso(v, cls, basic, tz) ==
    CASE cls = "instant" -> <<Zulu>>
      [] cls = "offset" -> OffsetIso(v.offset, basic)
      [] cls = "zoned" -> OffsetIso(v.offset, basic)
            \o IF tz = "never" THEN <<>> ELSE <<OpenBracket, v.tz, CloseBracket>>
      [] OTHER -> <<>>
DateTimeIso(v, cls, o) ==
    DateIso(v.date, o.basic) \o <<o.sep>> \o TimeIso(v, o.unit, o.basic) \o SuffixIso(v, cls, o.basic, o.tz)

\* Date::parse_iso_extended and parse_iso_basic of the text at pos
ReadDate(s, pos, basic) ==
    LET gap == Truth(~basic)
        y == parse_digits(s, pos, 4)
        m == parse_digits(s, pos + 4 + gap, 2)
        d == parse_digits(s, pos + 6 + 2 * gap, 2)
        date == NewDate(y.val, m.val, d.val)
    IN  IF /\ y.ok /\ m.ok /\ d.ok
           /\ basic \/ (peek(s, pos + 4) = Minus /\ peek(s, pos + 7) = Minus)
           /\ date # NoDate
        THEN Got(date, pos + 8 + 2 * gap) ELSE Miss

\* Numbers read one after the other; one that is not there is zero.
Push(got, next) == IF got.ok /\ next.ok THEN Got(Append(got.val, next.val), next.pos) ELSE Miss
Read1(next) == Push(Got(<<>>, 0), next)
Nth(got, n) == IF n <= Len(got.val) THEN got.val[n] ELSE 0

\* The number behind the n read so far: in the basic form if its digits are
\* right, in the extended form if there is a colon.
Further(s, got, n, basic, most) ==
    LET digits(pos) == Leap(InRange(parse_digits(s, pos, 2), 0, most)) IN
    IF ~got.ok THEN Miss
    ELSE IF Len(got.val) < n THEN got
    ELSE IF basic THEN IF digits(got.pos).ok THEN Push(got, digits(got.pos)) ELSE got
    ELSE IF peek(s, got.pos) = Colon THEN Push(got, digits(got.pos + 1)) ELSE got

HourMinuteSecond(s, pos, most) ==
    LET basic == peek(s, pos + 2) # Colon
    IN  Further(s, Further(s, Read1(digits00_23(s, pos)), 1, basic, 59), 2, basic, most)

TimeAndSubsec(got, sub) ==
    IF got.ok /\ sub.ok
    THEN Got(Value(DateMin, Nth(got, 1), Nth(got, 2), Nth(got, 3), sub.val, NoOffset, NoTz), sub.pos) ELSE Miss
TimeOf(s, got) ==
    IF ~got.ok THEN Miss
    ELSE TimeAndSubsec(got, IF Len(got.val) = 3 THEN subsec(s, got.pos) ELSE Got(0, got.pos))

\* Time::read_iso_extended and read_iso_basic: minutes and seconds may be missing
read_iso_time(s, pos) == TimeOf(s, HourMinuteSecond(s, pos, 60))

SignedSeconds(sign, got) ==
    IF ~got.ok THEN Miss
    ELSE Got((IF sign = Plus THEN 1 ELSE -1) * (Nth(got, 1) * 3600 + Nth(got, 2) * 60 + Nth(got, 3)), got.pos)

\* Offset::read_iso
read_iso_offset(s, pos) ==
    LET c == peek(s, pos) IN
    CASE c = Zulu -> Got(0, pos + 1)
      [] c \in {Plus, Minus} -> SignedSeconds(c, HourMinuteSecond(s, pos + 1, 59))
      [] OTHER -> Miss

\* PlainDateTime::read_iso
OnDate(date, time) ==
    IF date.ok /\ time.ok THEN Got([time.val EXCEPT !.date = date.val], time.pos) ELSE Miss
read_iso_plain(s) ==
    LET basic == peek(s, 10) \notin {SepT, Space}
        sep == IF basic THEN 8 ELSE 10
    IN  IF Len(s) >= 11 /\ peek(s, sep) \in {SepT, Space}
        THEN OnDate(ReadDate(s, 0, basic), read_iso_time(s, sep + 1)) ELSE Miss

AtOffset(p, off) ==
    IF p.ok /\ off.ok THEN Got([p.val EXCEPT !.offset = off.val], off.pos) ELSE Miss
ReadOffset(s, p) == AtOffset(p, read_iso_offset(s, p.pos))

\* A TZ ID in brackets is left out.
skip_tzname(s, got) ==
    IF ~got.ok \/ peek(s, got.pos) # OpenBracket THEN got
    ELSE IF peek(s, got.pos + 1) \in TzIds /\ peek(s, got.pos + 2) = CloseBracket
         THEN [got EXCEPT !.pos = @ + 3] ELSE Miss

parse_all(s, got) == IF got.ok /\ got.pos = Len(s) THEN got.val ELSE Invalid

\* parse_iso of each class
OnlyDate(got) == IF got.ok THEN Value(got.val, 0, 0, 0, 0, NoOffset, NoTz) ELSE Invalid
DateTimeReadIso(s, cls) ==
    CASE cls = "date" -> IF Len(s) \in {8, 10} THEN OnlyDate(ReadDate(s, 0, Len(s) = 8)) ELSE Invalid
      [] cls = "time" -> parse_all(s, read_iso_time(s, 0))
      [] cls = "plain" -> parse_all(s, read_iso_plain(s))
      [] cls \in {"offset", "instant"} ->
            assume_offset(parse_all(s, skip_tzname(s, ReadOffset(s, read_iso_plain(s)))))

-----------------------------------------------------------------------------
(***************************************************************************)
(* RFC 2822.                                                               *)
(***************************************************************************)
Rfc2822(v, gmt) ==
    <<WeekdayAbbr(day_of_week(unix_days(v.date))), Comma, Space>> \o format_2_digits(v.date.day)
    \o <<Space, MonthAbbr(v.date.month), Space>> \o format_4_digits(v.date.year)
    \o <<Space>> \o format_2_digits(v.hour) \o <<Colon>> \o format_2_digits(v.minute)
    \o <<Colon>> \o format_2_digits(v.second) \o <<Space>>
    \o IF gmt THEN <<GMT>>
       ELSE <<Sign(v.offset)>> \o format_2_digits(Abs(v.offset) \div 3600)
            \o format_2_digits((Abs(v.offset) % 3600) \div 60)

\* Whitespace that must be there
Gap(s, got) ==
    IF got.ok /\ Blank(s, got.pos) > got.pos THEN [got EXCEPT !.pos = Blank(s, got.pos)] ELSE Miss

\* parse_weekday: 0 if the text does not begin with a letter
ReadRfcWeekday(s, pos) ==
    LET comma == Blank(s, pos + 1) IN
    IF ~IsAlpha(peek(s, pos)) THEN Got(0, pos)
    ELSE IF peek(s, pos) - 70 \in 1 .. 7 /\ peek(s, comma) = Comma
         THEN Got(peek(s, pos) - 70, Blank(s, comma + 1)) ELSE Miss

RfcYear(y, digits) ==
    CASE digits = 4 -> y
      [] digits = 3 -> 1900 + y
      [] digits = 2 -> IF y < 50 THEN 2000 + y ELSE 1900 + y

RfcMonth(s, got) ==
    LET month == peek(s, got.pos) - 30 IN
    IF got.ok /\ month \in 1 .. 12 THEN Push(got, Got(month, got.pos + 1)) ELSE Miss
ReadRfcYear(s, got) ==
    LET n == DigitRun(s, got.pos, 5) IN
    IF got.ok /\ n \in 2 .. 4 /\ peek(s, got.pos + n) = Space
    THEN Push(got, Got(RfcYear(parse_digits(s, got.pos, n).val, n), Blank(s, got.pos + n))) ELSE Miss
OnWeekday(date, weekday, pos) ==
    IF date = NoDate \/ (weekday # 0 /\ day_of_week(unix_days(date)) # weekday) THEN Miss ELSE Got(date, pos)
RfcDate(got, weekday) ==
    IF got.ok THEN OnWeekday(NewDate(got.val[3], got.val[2], got.val[1]), weekday, got.pos) ELSE Miss

\* parse_date, behind the weekday that was read
ReadRfcDate(s, w) ==
    LET day == Read1(up_to_2_digits(s, w.pos)) IN
    IF w.ok THEN RfcDate(ReadRfcYear(s, Gap(s, RfcMonth(s, Gap(s, day)))), w.val) ELSE Miss

\* Digits and a colon, with whitespace around it
RfcColon(s, got) ==
    IF got.ok /\ peek(s, Blank(s, got.pos)) = Colon THEN [got EXCEPT !.pos = Blank(s, Blank(s, got.pos) + 1)] ELSE Miss
RfcMinute(s, got) == IF got.ok THEN Push(got, digits00_59(s, got.pos)) ELSE Miss
RfcSecond(s, got) ==
    LET next == Blank(s, got.pos) IN
    IF ~got.ok THEN Miss
    ELSE IF peek(s, next) = Colon THEN Gap(s, Push(got, digits00_60_leap(s, Blank(s, next + 1))))
    ELSE IF peek(s, next) # EndOfText THEN Gap(s, got) ELSE Miss

\* parse_time, on the date that was read
ReadRfcTime(s, d) ==
    LET hms == RfcSecond(s, RfcMinute(s, RfcColon(s, Read1(digits00_23(s, d.pos))))) IN
    OnDate(d, TimeAndSubsec(hms, Got(0, hms.pos)))

\* parse_offset.  An unknown zone is GMT.
ReadRfcOffset(s, pos) ==
    LET c == peek(s, pos)
        hours == Read1(digits00_23(s, pos + 1))
        end == CHOOSE p \in pos .. Len(s) : (\A q \in pos .. p - 1 : IsAlpha(s[q + 1])) /\ ~IsAlpha(peek(s, p))
    IN  IF c \in {Plus, Minus} THEN SignedSeconds(c, RfcMinute(s, hours))
        ELSE IF end = pos THEN Miss
        ELSE Got(IF end = pos + 1 /\ c = EST THEN -5 * 3600 ELSE 0, end)

\* rfc2822::parse and the range check of the two classes
RfcOffset(s, dt) == AtOffset(dt, ReadRfcOffset(s, dt.pos))
Trimmed(s, got) == IF got.ok THEN [got EXCEPT !.pos = Blank(s, @)] ELSE Miss
ReadRfc2822(s) ==
    assume_offset(parse_all(s, Trimmed(s, RfcOffset(s, ReadRfcTime(s, ReadRfcDate(s, ReadRfcWeekday(s, Blank(s, 0))))))))
=============================================================================
