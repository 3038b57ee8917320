---------------------------- MODULE ValuesProofs ----------------------------
(***************************************************************************)
(* Deltas, times, instants and datetimes, for any scale of the clock and   *)
(* any arguments of the calls.                                             *)
(*                                                                         *)
(* First the arithmetic of carries: days, seconds and nanoseconds are the  *)
(* quotients and remainders of one number (ClockFacts, SecsSplit,          *)
(* QuotientIn), so that a shift adds (ShiftInstantAdds), datetimes and     *)
(* their instants determine each other (PlainIsInstant, OffsetComesBack)   *)
(* and units tile, of the clock and of the calendar (EveryUnitTiles).      *)
(*                                                                         *)
(* Then what every operation returns, an error among it, for any argument  *)
(* (the folds over keyword arguments by the smallest counterexample,       *)
(* FoldExists), and from it the invariant: every object that a sequence of *)
(* calls leads to is in the range of its class (ObjectsInRange).           *)
(* Then units.  A TimeDelta is rounded to a multiple of its smallest unit, *)
(* and taking one unit after the other leaves nothing of it (ExactUnits,   *)
(* ExactRounds).  A difference of datetimes takes its calendar units from  *)
(* the dates, up to a target that the time of day has chosen (TargetDate,  *)
(* CalendarStart), and its exact units from the rest (ExactLeads); added   *)
(* back it leads to where it should (SinceLeads, LeadsToInstant).  Totals  *)
(* are such a difference and a fraction (TotalsAdd), and division with     *)
(* remainder is Python's (FloorDivides).                                   *)
(***************************************************************************)
EXTENDS MCValues, DateProofs, WellFoundedInduction

-----------------------------------------------------------------------------
(***************************************************************************)
(* The clock: nanoseconds, seconds and days.                               *)
(***************************************************************************)

\* The product of positive numbers is positive.
LEMMA PositiveProduct ==
    ASSUME NEW a \in Nat \ {0}, NEW b \in Nat \ {0}
    PROVE  a * b \in Nat \ {0}
<1>1. a * b \in Int /\ a * b >= 1
  BY SMT
<1> QED BY <1>1, SMT

\* A quotient lies in an interval exactly when the number lies in its multiples.
LEMMA QuotientIn ==
    ASSUME NEW h \in Nat \ {0}, NEW t \in Int, NEW a \in Int, NEW b \in Int
    PROVE  t \div h \in a .. b <=> t \in a * h .. (b + 1) * h - 1
<1> DEFINE q == t \div h
           r == t % h
           w == q - a
           z == b - q
<1>1. t = h * q + r /\ q \in Int /\ r \in Nat /\ r < h
  BY DivSplit
<1> HIDE DEF q, r
<1>2. w \in Int /\ z \in Int /\ h * q = a * h + w * h /\ (b + 1) * h = h * q + z * h + h
  BY <1>1, SMT
<1>3. a * h \in Int /\ (b + 1) * h \in Int /\ w * h \in Int /\ z * h \in Int /\ h * q \in Int
  BY <1>1, <1>2, SMT
<1>4. (w >= 0 => w * h >= 0) /\ (w < 0 => w * h <= -h)
  BY <1>2, SMT
<1>5. (z >= 0 => z * h >= 0) /\ (z < 0 => z * h <= -h)
  BY <1>2, SMT
<1>6. w >= 0 <=> a * h <= t
  BY <1>1, <1>2, <1>3, <1>4, SMT
<1>7. z >= 0 <=> t <= (b + 1) * h - 1
  BY <1>1, <1>2, <1>3, <1>5, SMT
<1>8. q \in a .. b <=> w >= 0 /\ z >= 0
  BY <1>1, SMT DEF w, z
<1> HIDE DEF w, z
<1> QED BY <1>3, <1>6, <1>7, <1>8, SMT DEF q

\* The units of the clock are whole multiples of each other.
LEMMA ClockFacts ==
    /\ NanosPerMicro \in Nat \ {0} /\ NanosPerMilli \in Nat \ {0} /\ NanosPerSecond \in Nat \ {0}
    /\ NanosPerMinute \in Nat \ {0} /\ NanosPerHour \in Nat \ {0} /\ NanosPerDay \in Nat \ {0}
    /\ SecondsPerDay \in Nat \ {0} /\ NanosPerDay = SecondsPerDay * NanosPerSecond
    /\ HoursPerDay \in Nat \ {0} /\ MinutesPerHour \in Nat \ {0} /\ SecondsPerMinute \in Nat \ {0}
    /\ MillisPerSecond \in Nat \ {0}
<1>1. /\ HoursPerDay \in Nat \ {0} /\ MinutesPerHour \in Nat \ {0} /\ SecondsPerMinute \in Nat \ {0}
      /\ MillisPerSecond \in Nat \ {0} /\ MicrosPerMilli \in Nat \ {0} /\ NanosPerMicro \in Nat \ {0}
  BY ClockAssumption
<1>2. NanosPerMilli \in Nat \ {0}
  BY <1>1, PositiveProduct DEF NanosPerMilli
<1>3. NanosPerSecond \in Nat \ {0}
  BY <1>1, <1>2, PositiveProduct DEF NanosPerSecond
<1>4. NanosPerMinute \in Nat \ {0}
  BY <1>1, <1>3, PositiveProduct DEF NanosPerMinute
<1>5. NanosPerHour \in Nat \ {0}
  BY <1>1, <1>4, PositiveProduct DEF NanosPerHour
<1>6. NanosPerDay \in Nat \ {0}
  BY <1>1, <1>5, PositiveProduct DEF NanosPerDay
<1> DEFINE h == HoursPerDay
           m == MinutesPerHour
           s == SecondsPerMinute
           n == NanosPerSecond
           d == h * (m * s)
<1>7. m * s \in Nat \ {0}
  BY <1>1, PositiveProduct
<1>8. d \in Nat \ {0}
  BY <1>1, <1>7, PositiveProduct
<1>9. NanosPerDay = n * d
  <2>1. NanosPerDay = h * (m * (s * n))
    BY DEF NanosPerDay, NanosPerHour, NanosPerMinute
  <2> HIDE DEF h, m, s, n
  <2>2. h \in Int /\ m \in Int /\ s \in Int /\ n \in Int
    BY <1>1, <1>3, SMT DEF h, m, s, n
  <2> QED BY <2>1, <2>2, SMT
<1> HIDE DEF d
<1>10. SecondsPerDay = d
  <2>1. NanosPerDay = n * d + 0 /\ 0 < n /\ 0 \in Nat /\ d \in Int /\ NanosPerDay \in Int
    BY <1>3, <1>6, <1>8, <1>9, SMT
  <2>2. NanosPerDay \div n = d
    BY <1>3, <2>1, DivUnique
  <2> QED BY <2>2 DEF SecondsPerDay
<1>11. n * d = d * n
  BY <1>3, <1>8, SMT
<1> QED BY <1>1, <1>2, <1>3, <1>4, <1>5, <1>6, <1>8, <1>9, <1>10, <1>11

\* The seconds of the range are numbers.
LEMMA EpochFacts ==
    /\ EpochMin \in Int /\ EpochMax \in Int /\ EpochMin <= EpochMax /\ NoInstant \in Int
    /\ EpochMin = -719162 * SecondsPerDay /\ EpochMax = 2932897 * SecondsPerDay - 1
<1>1. UnixDaysMin = -719162 /\ UnixDaysMax = 2932896
  BY SMT DEF UnixDaysMin, UnixDaysMax
<1>2. SecondsPerDay \in Nat \ {0} /\ NanosPerSecond \in Nat \ {0}
  BY ClockFacts
<1>3. EpochMin = -719162 * SecondsPerDay /\ EpochMax = 2932897 * SecondsPerDay - 1
  BY <1>1, <1>2, SMT DEF EpochMin, EpochMax
<1>4. EpochMin \in Int /\ EpochMax \in Int /\ EpochMin <= EpochMax
  BY <1>2, <1>3, SMT
<1>5. NoInstant \in Int
  BY <1>2, <1>4, SMT DEF NoInstant
<1> QED BY <1>3, <1>4, <1>5

\* An instant of the range is a number whose seconds are in the range.
LEMMA InstantRange ==
    ASSUME NEW n \in Int
    PROVE  n \in Instants <=> secs(n) \in EpochMin .. EpochMax
  BY QuotientIn, EpochFacts, ClockFacts DEF Instants, NoInstant, secs

\* The seconds and what is left of them.
LEMMA SecsSplit ==
    ASSUME NEW n \in Int
    PROVE  /\ secs(n) \in Int /\ subsec(n) \in Nat /\ subsec(n) < NanosPerSecond
           /\ n = NanosPerSecond * secs(n) + subsec(n)
  BY DivSplit, ClockFacts DEF secs, subsec

\* The seconds of a sum: those of both, and one more where the sub-seconds carry.
LEMMA SecsAdd ==
    ASSUME NEW n \in Int, NEW d \in Int
    PROVE  LET sub == subsec(n) + subsec(d)
               carry == sub \div NanosPerSecond
           IN  /\ carry \in 0 .. 1 /\ secs(n + d) = secs(n) + secs(d) + carry
               /\ (secs(n) + secs(d) + carry) * NanosPerSecond + (sub % NanosPerSecond) = n + d
<1> DEFINE k == NanosPerSecond
           a == secs(n)
           b == secs(d)
           sub == subsec(n) + subsec(d)
           c == sub \div k
           e == sub % k
<1>1. /\ a \in Int /\ b \in Int /\ sub \in Nat /\ sub < k + k /\ k \in Nat \ {0}
      /\ n + d = k * a + k * b + sub
  <2>1. k \in Nat \ {0}
    BY ClockFacts
  <2>2. a \in Int /\ subsec(n) \in Nat /\ subsec(n) < k /\ n = k * a + subsec(n)
    BY SecsSplit
  <2>3. b \in Int /\ subsec(d) \in Nat /\ subsec(d) < k /\ d = k * b + subsec(d)
    BY SecsSplit
  <2> DEFINE u == subsec(n)
             v == subsec(d)
             ka == k * a
             kb == k * b
  <2>4. ka \in Int /\ kb \in Int
    BY <2>1, <2>2, <2>3, SMT
  <2> HIDE DEF u, v, a, b, k, ka, kb
  <2>5. n + d = ka + kb + (u + v)
    BY <2>2, <2>3, <2>4, SMT DEF u, v, ka, kb
  <2> QED BY <2>1, <2>2, <2>3, <2>5, SMT DEF u, v, ka, kb
<1>2. c \in 0 .. 1 /\ e \in Nat /\ e < k /\ sub = k * c + e
  <2>0. sub \in Int /\ k \in Nat \ {0}
    BY <1>1, SMT
  <2>1. sub = k * c + e /\ c \in Int /\ e \in Nat /\ e < k
    <3> HIDE DEF sub, k
    <3> QED BY <2>0, DivSplit
  <2>2. c \in 0 .. 1 <=> sub \in 0 * k .. (1 + 1) * k - 1
    BY <1>1, QuotientIn
  <2>3. 0 * k = 0 /\ (1 + 1) * k = k + k
    BY <1>1, SMT
  <2> HIDE DEF c, e, sub
  <2>4. sub \in 0 * k .. (1 + 1) * k - 1
    BY <1>1, <2>3, SMT
  <2> QED BY <2>1, <2>2, <2>4
<1> HIDE DEF k, a, b, c, e, sub
<1>3. n + d = k * (a + b + c) + e
  <2>1. c \in Int /\ k \in Int /\ e \in Int
    BY <1>1, <1>2, SMT
  <2>2. k * (a + b + c) = k * a + k * b + k * c
    BY <1>1, <2>1, SMT
  <2>3. k * a \in Int /\ k * b \in Int /\ k * c \in Int
    BY <1>1, <2>1, SMT
  <2> QED BY <1>1, <1>2, <2>1, <2>2, <2>3, SMT
<1>4. (n + d) \div k = a + b + c
  <2>1. a + b + c \in Int /\ n + d \in Int
    BY <1>1, <1>2, SMT
  <2> QED BY <1>1, <1>2, <1>3, <2>1, DivUnique
<1>5. (a + b + c) * k + e = n + d
  BY <1>1, <1>2, <1>3, SMT
<1> QED BY <1>2, <1>4, <1>5 DEF k, a, b, c, e, sub, secs

\* Shifting an instant: the sum, unless it or the sum of the whole seconds is out of range.
LEMMA ShiftInstantAdds ==
    ASSUME NEW n \in Int, NEW d \in Int
    PROVE  /\ InstantShift(n, d) = IF n + d \in Instants /\ secs(n) + secs(d) \in EpochMin .. EpochMax
                                   THEN n + d ELSE NoInstant
           /\ n + d \in Instants =>
                (secs(n) + secs(d) \in EpochMin .. EpochMax
                 <=> (secs(n + d) > EpochMin \/ secs(n) + secs(d) = EpochMin))
<1> DEFINE sub == subsec(n) + subsec(d)
           carry == sub \div NanosPerSecond
           rest == sub % NanosPerSecond
           epoch == secs(n) + secs(d)
<1>1. carry \in 0 .. 1 /\ secs(n + d) = epoch + carry /\ (epoch + carry) * NanosPerSecond + rest = n + d
  BY SecsAdd
<1>2. epoch \in Int
  BY SecsSplit, SMT
<1>3. n + d \in Instants <=> epoch + carry \in EpochMin .. EpochMax
  BY <1>1, InstantRange
<1>4. InstantShift(n, d) = IF epoch \in EpochMin .. EpochMax /\ epoch + carry \in EpochMin .. EpochMax
                           THEN (epoch + carry) * NanosPerSecond + rest ELSE NoInstant
  BY DEF InstantShift
<1> HIDE DEF sub, carry, rest, epoch
<1>5. InstantShift(n, d) = IF n + d \in Instants /\ epoch \in EpochMin .. EpochMax THEN n + d ELSE NoInstant
  BY <1>1, <1>3, <1>4
<1>6. epoch + carry \in EpochMin .. EpochMax =>
        (epoch \in EpochMin .. EpochMax <=> (epoch + carry > EpochMin \/ epoch = EpochMin))
  BY <1>1, <1>2, EpochFacts, SMT
<1> QED BY <1>1, <1>3, <1>5, <1>6 DEF epoch

-----------------------------------------------------------------------------
(***************************************************************************)
(* Datetimes and their instants as UTC.                                    *)
(***************************************************************************)

\* The range of instants in days.
LEMMA InstantDays ==
    /\ UnixDaysMin \in Int /\ UnixDaysMax \in Int
    /\ Instants = UnixDaysMin * NanosPerDay .. (UnixDaysMax + 1) * NanosPerDay - 1
<1> DEFINE s == SecondsPerDay
           k == NanosPerSecond
           a == UnixDaysMin
           b == UnixDaysMax + 1
<1>1. s \in Nat \ {0} /\ k \in Nat \ {0} /\ NanosPerDay = s * k
  BY ClockFacts
<1>2. UnixDaysMin \in Int /\ UnixDaysMax \in Int /\ b \in Int
  BY SMT DEF UnixDaysMin, UnixDaysMax
<1>3. EpochMin = a * s /\ EpochMax + 1 = b * s
  <2>1. EpochMin = a * s /\ EpochMax = b * s - 1
    BY DEF EpochMin, EpochMax
  <2>2. b * s \in Int
    BY <1>1, <1>2, SMT
  <2> HIDE DEF a, b, s
  <2> QED BY <2>1, <2>2, SMT
<1> HIDE DEF s, k, a, b
<1>4. (a * s) * k = a * (s * k) /\ (b * s) * k = b * (s * k)
  BY <1>1, <1>2, SMT DEF a
<1> QED BY <1>1, <1>2, <1>3, <1>4 DEF Instants, NoInstant, k, a, b

\* An instant is a number, and none of them is NoInstant.
LEMMA InstantIsInt ==
    ASSUME NEW n \in Instants
    PROVE  n \in Int /\ n # NoInstant /\ secs(n) \in EpochMin .. EpochMax
<1>1. EpochMin * NanosPerSecond \in Int /\ NoInstant \in Int
  BY EpochFacts, ClockFacts, SMT
<1>2. n \in Int /\ n # NoInstant
  BY <1>1, SMT DEF Instants
<1> QED BY <1>2, InstantRange

\* A datetime taken as UTC is an instant, which leads back to it.
LEMMA PlainIsInstant ==
    ASSUME NEW p, IsPlain(p)
    PROVE  /\ assume_utc(p) \in Int /\ assume_utc(p) \in Instants
           /\ to_utc_plain(assume_utc(p)) = Plain(p.date, p.time)
           /\ assume_utc(p) \div NanosPerDay = unix_days(p.date)
           /\ assume_utc(p) % NanosPerDay = p.time
           /\ p.time \in Nat /\ p.time < NanosPerDay /\ unix_days(p.date) \in Int
<1> DEFINE h == NanosPerDay
           u == unix_days(p.date)
           t == p.time
           n == assume_utc(p)
<1>1. h \in Nat \ {0} /\ IsDate(p.date) /\ t \in 0 .. h - 1
  BY ClockFacts DEF IsPlain, Times
<1>2. u \in UnixDays
  BY <1>1, UnixDaysInRange
<1>3. UnixDaysDate(u) = p.date
  BY <1>1, UnixDaysDateInverts
<1>4. n = u * h + t
  BY DEF assume_utc
<1> HIDE DEF h, u, t, n
<1>5. u \in Int /\ -719162 <= u /\ u <= 2932896
  BY <1>2, UnixDaysRange, SMT
<1>6. h \in Nat \ {0} /\ t \in Nat /\ t < h /\ u \in Int
  BY <1>1, <1>5, SMT
<1>7. u * h = h * u
  BY <1>6, SMT
<1>8. n \in Int /\ n = h * u + t
  BY <1>4, <1>6, <1>7, SMT
<1>9. n \div h = u /\ n % h = t
  BY <1>6, <1>8, DivUnique
<1>10. n \in Instants
  <2>1. UnixDaysMin \in Int /\ UnixDaysMax \in Int
        /\ Instants = UnixDaysMin * h .. (UnixDaysMax + 1) * h - 1
    BY InstantDays DEF h
  <2>2. u \in UnixDaysMin .. UnixDaysMax
    BY <1>2 DEF UnixDays
  <2> QED BY <1>6, <1>8, <1>9, <2>1, <2>2, QuotientIn
<1> QED BY <1>3, <1>6, <1>8, <1>9, <1>10 DEF h, u, t, n, to_utc_plain

\* The UTC datetime of an instant, which leads back to the instant.
LEMMA InstantIsPlain ==
    ASSUME NEW n \in Instants
    PROVE  /\ IsPlain(to_utc_plain(n)) /\ assume_utc(to_utc_plain(n)) = n
           /\ to_utc_plain(n) = Plain(to_utc_plain(n).date, to_utc_plain(n).time)
           /\ to_utc_plain(n) # NoPlain
<1> DEFINE h == NanosPerDay
           u == n \div h
           t == n % h
           p == to_utc_plain(n)
<1>1. h \in Nat \ {0} /\ n \in Int
  BY ClockFacts, InstantIsInt, SMT
<1>2. u \in UnixDays
  <2>1. UnixDaysMin \in Int /\ UnixDaysMax \in Int /\ n \in UnixDaysMin * h .. (UnixDaysMax + 1) * h - 1
    BY InstantDays
  <2> HIDE DEF h
  <2>2. u \in UnixDaysMin .. UnixDaysMax
    BY <1>1, <2>1, QuotientIn
  <2> QED BY <2>2 DEF UnixDays
<1>3. n = h * u + t /\ u \in Int /\ t \in Nat /\ t < h
  BY <1>1, DivSplit, SMT
<1>4. p.date = UnixDaysDate(u) /\ p.time = t /\ p = Plain(p.date, p.time)
  BY SMT DEF to_utc_plain, Plain
<1> HIDE DEF h, u, t, p
<1>6. IsDate(UnixDaysDate(u)) /\ unix_days(UnixDaysDate(u)) = u
  BY <1>2, UnixDaysDateSound
<1>7. t \in 0 .. h - 1 /\ u * h = h * u
  BY <1>1, <1>3, SMT
<1>8. p.date # NoDate
  BY <1>4, <1>6, NoneIsNoDate, SMT
<1>9. p # NoPlain
  BY <1>8, SMT DEF NoPlain, Plain
<1> QED BY <1>3, <1>4, <1>6, <1>7, <1>9, SMT DEF IsPlain, Times, assume_utc, h, p

\* Datetimes are ordered as their instants are.
LEMMA PlainOrder ==
    ASSUME NEW p, IsPlain(p), NEW q, IsPlain(q)
    PROVE  PlainLess(p, q) <=> assume_utc(p) < assume_utc(q)
<1> DEFINE h == NanosPerDay
           u == unix_days(p.date)
           v == unix_days(q.date)
           s == p.time
           t == q.time
<1>1. /\ h \in Nat \ {0} /\ u \in Int /\ v \in Int /\ s \in Nat /\ t \in Nat /\ s < h /\ t < h
      /\ IsDate(p.date) /\ IsDate(q.date)
  BY ClockFacts, PlainIsInstant DEF IsPlain
<1>2. DateLess(p.date, q.date) <=> u < v
  BY <1>1, DateOrder
<1>3. p.date = q.date <=> u = v
  BY <1>1, SameNumberSameDate
<1>4. assume_utc(p) = u * h + s /\ assume_utc(q) = v * h + t
  BY DEF assume_utc
<1>5. PlainLess(p, q) <=> u < v \/ (u = v /\ s < t)
  BY <1>2, <1>3 DEF PlainLess
<1> HIDE DEF h, u, v, s, t
<1> DEFINE w == v - u
<1>6. w \in Int /\ v * h = u * h + w * h /\ u * h \in Int /\ w * h \in Int
  BY <1>1, SMT
<1>7. (w > 0 => w * h >= h) /\ (w < 0 => w * h <= -h) /\ (w = 0 => w * h = 0)
  BY <1>1, <1>6, SMT
<1>8. (u < v <=> w > 0) /\ (u = v <=> w = 0)
  BY <1>1, SMT DEF w
<1> HIDE DEF w
<1> QED BY <1>1, <1>4, <1>5, <1>6, <1>7, <1>8, SMT

\* Datetimes of the same instant are the same.
LEMMA SameInstant ==
    ASSUME NEW p, IsPlain(p), p = Plain(p.date, p.time), NEW q, IsPlain(q), q = Plain(q.date, q.time),
           assume_utc(p) = assume_utc(q)
    PROVE  p = q
  BY PlainIsInstant

\* A timestamp in milliseconds is the number of whole milliseconds, before 1970 too.
LEMMA MillisRoundDown ==
    ASSUME NEW n \in Instants
    PROVE  from_timestamp_millis(timestamp_millis(n)) = n - (n % NanosPerMilli)
<1> DEFINE k == NanosPerSecond
           x == NanosPerMilli
           mps == MillisPerSecond
           a == secs(n)
           b == subsec(n)
           q == b \div x
           r == b % x
           ms == timestamp_millis(n)
<1>1. k \in Nat \ {0} /\ x \in Nat \ {0} /\ mps \in Nat \ {0} /\ k = mps * x
  BY ClockFacts DEF NanosPerSecond
<1>2. n \in Int /\ a \in EpochMin .. EpochMax
  BY InstantIsInt
<1>3. a \in Int /\ b \in Nat /\ b < k /\ n = k * a + b
  BY <1>2, SecsSplit
<1>4. b = x * q + r /\ q \in Int /\ r \in Nat /\ r < x
  <2>1. b \in Int
    BY <1>3, SMT
  <2> HIDE DEF b, x
  <2> QED BY <1>1, <2>1, DivSplit
<1>5. q \in 0 .. mps - 1
  <2>1. q \in 0 .. mps - 1 <=> b \in 0 * x .. (mps - 1 + 1) * x - 1
    <3>1. mps - 1 \in Int /\ b \in Int
      BY <1>1, <1>3, SMT
    <3> HIDE DEF b, mps, x
    <3> QED BY <1>1, <3>1, QuotientIn
  <2>2. 0 * x = 0 /\ (mps - 1 + 1) * x = k
    BY <1>1, SMT
  <2> HIDE DEF q, b, x, k, mps
  <2> QED BY <1>1, <1>3, <2>1, <2>2, SMT
<1>6. ms = a * mps + q
  BY DEF timestamp_millis
<1> HIDE DEF k, x, mps, a, b, q, r, ms
<1>7. q \in Nat /\ q < mps /\ a * mps = mps * a /\ mps * a \in Int
  BY <1>1, <1>3, <1>4, <1>5, SMT
<1>8. ms \in Int /\ ms = mps * a + q
  BY <1>4, <1>6, <1>7, SMT
<1>9. ms \div mps = a
  BY <1>1, <1>3, <1>7, <1>8, DivUnique
<1>10. from_timestamp_millis(ms) = ms * x
  BY <1>2, <1>9 DEF from_timestamp_millis, mps, x
<1>11. n = x * ms + r
  <2>1. x * ms = x * (mps * a) + x * q
    BY <1>1, <1>4, <1>7, <1>8, SMT
  <2>2. x * (mps * a) = k * a
    BY <1>1, <1>3, SMT
  <2>3. x * q \in Int /\ k * a \in Int
    BY <1>1, <1>3, <1>4, SMT
  <2> QED BY <1>3, <1>4, <2>1, <2>2, <2>3, SMT
<1>12. n % x = r
  BY <1>1, <1>2, <1>4, <1>8, <1>11, DivUnique
<1>13. x * ms = ms * x /\ x * ms \in Int
  BY <1>1, <1>8, SMT
<1> QED BY <1>4, <1>10, <1>11, <1>12, <1>13, SMT DEF x, ms

\* A datetime with an offset whose instant is in range comes back from that instant.
LEMMA OffsetComesBack ==
    ASSUME NEW o, IsPlain(o), o.offset \in Offsets, o = Offset(o, o.offset), to_instant(o) # NoInstant
    PROVE  to_offset(to_instant(o), o.offset) = o
<1> DEFINE k == NanosPerSecond
           f == o.offset
           p == to_plain(o)
           t == assume_utc(p)
           n == to_instant(o)
<1>1. k \in Nat \ {0} /\ f \in Int
  <2>1. SecondsPerDay \in Int
    BY ClockFacts, SMT
  <2>2. 1 - SecondsPerDay \in Int /\ SecondsPerDay - 1 \in Int
    BY <2>1, SMT
  <2> HIDE DEF f
  <2>3. f \in 1 - SecondsPerDay .. SecondsPerDay - 1
    BY DEF f, Offsets
  <2> QED BY <2>2, <2>3, ClockFacts, SMT
<1>2. IsPlain(p) /\ p.date = o.date /\ p.time = o.time /\ p = Plain(p.date, p.time)
  BY DEF IsPlain, to_plain, Plain
<1>3. t \in Int /\ t \in Instants /\ to_utc_plain(t) = Plain(p.date, p.time)
  BY <1>2, PlainIsInstant
<1>4. secs(t) \in EpochMin .. EpochMax /\ t # NoInstant
  BY <1>3, InstantIsInt
<1>5. n = t + (-f) * k
  BY DEF to_instant, InstantShiftByOffset
<1> HIDE DEF k, f, p, t, n
<1>6. n \in Int /\ n + f * k = t
  <2>1. (-f) * k = -(f * k) /\ f * k \in Int
    BY <1>1, SMT
  <2> QED BY <1>3, <1>5, <2>1, SMT
<1>7. secs(n) + f = secs(t)
  <2> DEFINE a == secs(n)
             b == subsec(n)
  <2>1. a \in Int /\ b \in Nat /\ b < k /\ n = k * a + b
    BY <1>6, SecsSplit DEF k
  <2> HIDE DEF a, b
  <2>2. a + f \in Int /\ k * (a + f) = k * a + f * k /\ k * a \in Int /\ f * k \in Int
    BY <1>1, <2>1, SMT
  <2>3. t = k * (a + f) + b
    BY <1>6, <2>1, <2>2, SMT
  <2>4. t \div k = a + f
    BY <1>1, <1>3, <2>1, <2>2, <2>3, DivUnique
  <2> QED BY <2>4 DEF secs, a, k
<1>8. InstantShiftByOffset(n, f) = t
  BY <1>4, <1>6, <1>7 DEF InstantShiftByOffset, k
<1>9. to_offset(n, f) = Offset(to_utc_plain(t), f)
  BY <1>4, <1>8 DEF to_offset
<1>10. Offset(Plain(p.date, p.time), f) = Offset(o, f)
  BY <1>2 DEF Offset, Plain
<1> QED BY <1>3, <1>9, <1>10 DEF f, n

\* A datetime plus a nanosecond is the datetime of the next instant.
LEMMA NextNanosecond ==
    ASSUME NEW p, IsPlain(p), assume_utc(p) + 1 \in Instants
    PROVE  PlainShift(p, 1) = to_utc_plain(assume_utc(p) + 1)
<1> DEFINE n == assume_utc(p)
           sub == subsec(n) + subsec(1)
           carry == sub \div NanosPerSecond
<1>1. n \in Int /\ n \in Instants /\ 1 \in Int /\ n + 1 # NoInstant
  BY PlainIsInstant, InstantIsInt
<1>2. secs(n) \in EpochMin .. EpochMax /\ secs(n + 1) \in EpochMin .. EpochMax
  BY <1>1, InstantIsInt
<1>3. carry \in 0 .. 1 /\ secs(n + 1) = secs(n) + secs(1) + carry
  BY <1>1, SecsAdd
<1>4. secs(1) \in Int /\ secs(1) >= 0 /\ secs(n) \in Int
  <2> DEFINE k == NanosPerSecond
             a == secs(1)
             b == subsec(1)
  <2>1. a \in Int /\ b \in Nat /\ b < k /\ 1 = k * a + b /\ k \in Nat \ {0}
    BY SecsSplit, ClockFacts
  <2> HIDE DEF a, b, k
  <2>2. a < 0 => k * a <= -k
    BY <2>1, SMT
  <2>3. k * a \in Int
    BY <2>1, SMT
  <2>4. a >= 0
    BY <2>1, <2>2, <2>3, SMT
  <2>5. secs(n) \in Int
    BY <1>1, SecsSplit
  <2> QED BY <2>1, <2>4, <2>5 DEF a
<1>5. InstantShift(n, 1) = IF n + 1 \in Instants /\ secs(n) + secs(1) \in EpochMin .. EpochMax
                           THEN n + 1 ELSE NoInstant
  BY <1>1, ShiftInstantAdds
<1> HIDE DEF n, sub, carry
<1>6. secs(n) + secs(1) \in EpochMin .. EpochMax
  <2> DEFINE x == secs(n)
             y == secs(1)
             z == secs(n + 1)
  <2> HIDE DEF x, y, z
  <2>1. x \in EpochMin .. EpochMax /\ z \in EpochMin .. EpochMax /\ z = x + y + carry /\ y \in Int /\ y >= 0
        /\ x \in Int
    BY <1>2, <1>3, <1>4 DEF x, y, z
  <2>2. x + y \in EpochMin .. EpochMax
    BY <1>3, <2>1, EpochFacts, SMT
  <2> QED BY <2>2 DEF x, y
<1>7. InstantShift(n, 1) = n + 1
  BY <1>5, <1>6 DEF n
<1> QED BY <1>1, <1>7 DEF PlainShift, PlainOrNone, n

-----------------------------------------------------------------------------
(***************************************************************************)
(* The units of a datetime.                                                *)
(***************************************************************************)

\* Dividing twice is dividing by the product.
LEMMA DivTwice ==
    ASSUME NEW x \in Int, NEW a \in Nat \ {0}, NEW b \in Nat \ {0}
    PROVE  x \div (a * b) = (x \div a) \div b /\ x % (a * b) = a * ((x \div a) % b) + (x % a)
<1> DEFINE q == x \div a
           r == x % a
           u == q \div b
           v == q % b
<1>1. x = a * q + r /\ q \in Int /\ r \in Nat /\ r < a
  BY DivSplit
<1>2. q = b * u + v /\ u \in Int /\ v \in Nat /\ v < b
  <2> HIDE DEF q
  <2> QED BY <1>1, DivSplit
<1> HIDE DEF q, r, u, v
<1>3. a * b \in Nat \ {0}
  BY PositiveProduct
<1>4. a * v \in Nat /\ a * v <= a * b - a
  <2> DEFINE w == b - 1 - v
  <2>1. w \in Nat
    BY <1>2, SMT
  <2>2. a * w \in Nat /\ a * w = a * b - a - a * v
    BY <1>2, <2>1, SMT
  <2>3. a * v \in Nat /\ a * b \in Int
    BY <1>2, SMT
  <2> HIDE DEF w
  <2> QED BY <2>2, <2>3, SMT
<1>5. a * q = (a * b) * u + a * v /\ (a * b) * u \in Int
  BY <1>2, SMT
<1>6. a * v + r \in Nat /\ a * v + r < a * b /\ x = (a * b) * u + (a * v + r)
  BY <1>1, <1>3, <1>4, <1>5, SMT
<1>7. x \div (a * b) = u /\ x % (a * b) = a * v + r
  BY <1>2, <1>3, <1>6, DivUnique
<1> QED BY <1>7 DEF q, r, u, v

\* A counter that is one step past its last value starts again and carries.
LEMMA WrapsAround ==
    ASSUME NEW m \in Nat \ {0}, NEW v \in 0 .. m, NEW x \in Int, NEW c \in 0 .. 1, c = 1 <=> v = m
    PROVE  v % m \in 0 .. m - 1 /\ v * x = (v % m) * x + c * (m * x)
<1>1. CASE v = m
  <2>1. v = m * 1 + 0 /\ v \in Int /\ 0 < m /\ 0 \in Nat /\ 1 \in Int
    BY <1>1, SMT
  <2>2. v % m = 0
    BY <2>1, DivUnique
  <2>3. 0 * x + 1 * (m * x) = m * x
    BY SMT
  <2> QED BY <1>1, <2>2, <2>3, SMT
<1>2. CASE v # m
  <2>1. v = m * 0 + v /\ v \in Int /\ v < m /\ v \in Nat /\ 0 \in Int
    BY <1>2, SMT
  <2>2. v % m = v /\ c = 0
    BY <1>2, <2>1, DivUnique, SMT
  <2>3. v * x + 0 * (m * x) = v * x
    BY SMT
  <2> QED BY <1>2, <2>1, <2>2, <2>3, SMT
<1> QED BY <1>1, <1>2

\* A time of day is made of its fields.
LEMMA TimeFields ==
    ASSUME NEW t \in Times
    PROVE  /\ t \in Nat /\ t < NanosPerDay
           /\ hour(t) \in 0 .. HoursPerDay - 1 /\ minute(t) \in 0 .. MinutesPerHour - 1
           /\ second(t) \in 0 .. SecondsPerMinute - 1
           /\ t - (t % NanosPerHour) = hour(t) * NanosPerHour
           /\ t - (t % NanosPerMinute) = hour(t) * NanosPerHour + minute(t) * NanosPerMinute
           /\ t - (t % NanosPerSecond) = hour(t) * NanosPerHour + minute(t) * NanosPerMinute
                                         + second(t) * NanosPerSecond
<1> DEFINE x == NanosPerHour
           y == NanosPerMinute
           z == NanosPerSecond
           hpd == HoursPerDay
           mph == MinutesPerHour
           spm == SecondsPerMinute
           h == hour(t)
           m == minute(t)
           s == second(t)
           r == t % z
<1>1. /\ x \in Nat \ {0} /\ y \in Nat \ {0} /\ z \in Nat \ {0}
      /\ hpd \in Nat \ {0} /\ mph \in Nat \ {0} /\ spm \in Nat \ {0}
  BY ClockFacts
<1>2. NanosPerDay = hpd * x /\ x = y * mph /\ y = z * spm
  <2>1. x = mph * y /\ y = spm * z
    BY DEF NanosPerHour, NanosPerMinute
  <2> HIDE DEF x, y, z, mph, spm, hpd
  <2>2. mph * y = y * mph /\ spm * z = z * spm
    BY <1>1, SMT
  <2> QED BY <2>1, <2>2 DEF NanosPerDay, hpd, x
<1>3. t \in Nat /\ t < NanosPerDay
  BY ClockFacts, SMT DEF Times
<1>4. t \in Int /\ t \div z \in Int /\ t \div y \in Int /\ h \in Int
  BY <1>1, <1>3, DivSplit DEF hour
<1>5. t = z * (t \div z) + r /\ r \in Nat /\ r < z
  BY <1>1, <1>4, DivSplit
<1>6. m \in 0 .. mph - 1 /\ s \in 0 .. spm - 1
  <2>1. m \in Nat /\ m < mph /\ s \in Nat /\ s < spm
    <3> DEFINE u == t \div y
               v == t \div z
    <3>1. u \in Int /\ v \in Int /\ m = u % mph /\ s = v % spm
      BY <1>4 DEF minute, second
    <3> HIDE DEF u, v, m, s
    <3> QED BY <1>1, <3>1, DivSplit
  <2> HIDE DEF m, s
  <2> QED BY <1>1, <2>1, SMT
<1>7. t % y = z * s + r
  BY <1>1, <1>2, <1>4, DivTwice DEF second
<1>8. t % x = y * m + (t % y)
  BY <1>1, <1>2, <1>4, DivTwice DEF minute
<1>9. t = x * h + (t % x)
  BY <1>1, <1>4, DivSplit DEF hour
<1>10. h \in 0 .. hpd - 1
  <2>1. t \in 0 * x .. (hpd - 1 + 1) * x - 1
    <3>1. 0 * x = 0 /\ (hpd - 1 + 1) * x = hpd * x
      BY <1>1, SMT
    <3> HIDE DEF hpd, x
    <3>2. hpd * x \in Int
      BY <1>1, SMT
    <3> QED BY <1>2, <1>3, <3>1, <3>2, SMT
  <2>2. h = t \div x /\ hpd - 1 \in Int /\ 0 \in Int
    BY <1>1, SMT DEF hour
  <2> HIDE DEF hpd, x, h
  <2> QED BY <1>1, <1>4, <2>1, <2>2, QuotientIn
<1> HIDE DEF x, y, z, hpd, mph, spm, h, m, s, r
<1>11. /\ x * h = h * x /\ y * m = m * y /\ z * s = s * z
       /\ h * x \in Int /\ m * y \in Int /\ s * z \in Int
  BY <1>1, <1>4, <1>6, SMT
<1>12. t - (t % x) = h * x /\ t - (t % y) = h * x + m * y /\ t - r = h * x + m * y + s * z
  <2> DEFINE tx == t % x
             ty == t % y
  <2>1. tx \in Int /\ ty \in Int
    BY <1>1, <1>4, DivSplit
  <2> HIDE DEF tx, ty
  <2>2. t = x * h + tx /\ tx = y * m + ty /\ ty = z * s + r
    BY <1>7, <1>8, <1>9 DEF tx, ty
  <2>3. t - tx = h * x /\ t - ty = h * x + m * y /\ t - r = h * x + m * y + s * z
    BY <1>3, <1>5, <1>11, <2>1, <2>2, SMT
  <2> QED BY <2>3 DEF tx, ty
<1> QED BY <1>3, <1>6, <1>10, <1>12 DEF x, y, z, hpd, mph, spm, h, m, s, r

\* The unit that a datetime is cut to, where it has a fixed length: a part of the day.
FixedUnits == TimeBoundaryUnit \cup {"day"}

\* Every fixed unit is a whole part of the day.
LEMMA FixedWidth ==
    ASSUME NEW unit \in FixedUnits
    PROVE  \E c \in Nat \ {0} : default_increment(unit) \in Nat \ {0} /\ NanosPerDay = default_increment(unit) * c
<1> DEFINE x == NanosPerHour
           y == NanosPerMinute
           z == NanosPerSecond
           hpd == HoursPerDay
           mph == MinutesPerHour
           spm == SecondsPerMinute
           d == NanosPerDay
<1>1. /\ x \in Nat \ {0} /\ y \in Nat \ {0} /\ z \in Nat \ {0} /\ d \in Nat \ {0}
      /\ hpd \in Nat \ {0} /\ mph \in Nat \ {0} /\ spm \in Nat \ {0}
  BY ClockFacts
<1>2. d = hpd * x /\ x = mph * y /\ y = spm * z
  BY DEF NanosPerDay, NanosPerHour, NanosPerMinute
<1>3. /\ default_increment("day") = d /\ default_increment("hour") = x
      /\ default_increment("minute") = y /\ default_increment("second") = z
  BY DEF default_increment
<1> HIDE DEF x, y, z, hpd, mph, spm, d
<1>4. hpd * mph \in Nat \ {0}
  BY <1>1, PositiveProduct
<1>5. (hpd * mph) * spm \in Nat \ {0}
  BY <1>1, <1>4, PositiveProduct
<1>6. d = d * 1 /\ d = x * hpd /\ d = y * (hpd * mph) /\ d = z * ((hpd * mph) * spm)
  BY <1>1, <1>2, SMT
<1>7. 1 \in Nat \ {0}
  OBVIOUS
<1>8. unit \in {"hour", "minute", "second", "day"}
  BY DEF FixedUnits, TimeBoundaryUnit
<1>9. CASE unit = "day"
  BY <1>1, <1>3, <1>6, <1>7, <1>9 DEF d
<1>10. CASE unit = "hour"
  BY <1>1, <1>3, <1>6, <1>10 DEF d
<1>11. CASE unit = "minute"
  BY <1>1, <1>3, <1>4, <1>6, <1>11 DEF d
<1>12. CASE unit = "second"
  BY <1>1, <1>3, <1>5, <1>6, <1>12 DEF d
<1> QED BY <1>8, <1>9, <1>10, <1>11, <1>12

\* The multiple below a number lies in the same whole multiples, as does the number before the next.
LEMMA CutTo ==
    ASSUME NEW w \in Nat \ {0}, NEW n \in Int, NEW a \in Int, NEW b \in Int, n \in w * a .. w * b - 1
    PROVE  LET s == n - (n % w) IN
           /\ s \in w * a .. w * b - 1 /\ s + w - 1 \in w * a .. w * b - 1
           /\ s <= n /\ n <= s + w - 1 /\ s % w = 0 /\ (s + w) % w = 0
           /\ s - (s % w) = s /\ s + w - 1 - ((s + w - 1) % w) = s /\ s + w - ((s + w) % w) = s + w
<1> DEFINE q == n \div w
           r == n % w
           s == n - r
<1>1. n = w * q + r /\ q \in Int /\ r \in Nat /\ r < w
  BY DivSplit
<1>2. a * w = w * a /\ b * w = w * b /\ (b - 1 + 1) * w = w * b /\ b - 1 \in Int
  BY SMT
<1>3. q \in a .. b - 1
  <2>1. n \in a * w .. (b - 1 + 1) * w - 1
    BY <1>2
  <2> QED BY <1>2, <2>1, QuotientIn
<1> HIDE DEF q, r
<1>4. s = w * q /\ w * q \in Int /\ w * (q + 1) = w * q + w
  BY <1>1, SMT
<1> HIDE DEF s
<1>5. s \in Int /\ s + w - 1 \in Int /\ s + w \in Int
  BY <1>4, SMT
<1>6. s \div w = q /\ s % w = 0
  <2>1. s = w * q + 0 /\ 0 < w /\ 0 \in Nat
    BY <1>4, SMT
  <2> QED BY <1>1, <1>5, <2>1, DivUnique
<1>7. (s + w - 1) \div w = q /\ (s + w - 1) % w = w - 1
  <2>1. s + w - 1 = w * q + (w - 1) /\ w - 1 < w /\ w - 1 \in Nat
    BY <1>4, SMT
  <2> QED BY <1>1, <1>5, <2>1, DivUnique
<1>8. (s + w) % w = 0
  <2>1. s + w = w * (q + 1) + 0 /\ 0 < w /\ 0 \in Nat /\ q + 1 \in Int
    BY <1>1, <1>4, SMT
  <2> QED BY <1>5, <2>1, DivUnique
<1>9. s \in a * w .. (b - 1 + 1) * w - 1 /\ s + w - 1 \in a * w .. (b - 1 + 1) * w - 1
  BY <1>2, <1>3, <1>5, <1>6, <1>7, QuotientIn
<1>10. s <= n /\ n <= s + w - 1
  BY <1>1, <1>4, SMT
<1>11. s - 0 = s /\ s + w - 1 - (w - 1) = s /\ s + w - 0 = s + w
  BY <1>5, SMT
<1> QED BY <1>2, <1>6, <1>7, <1>8, <1>9, <1>10, <1>11 DEF s, r

\* Time::next_start_of carries: the time of the next start, and whether that is midnight.
LEMMA NextStartCarries ==
    ASSUME NEW t \in Times, NEW unit \in TimeBoundaryUnit
    PROVE  LET n == TimeNextStartOf(t, unit)
               e == TimeEndOf(t, unit) + 1
           IN  /\ n.next_day \in BOOLEAN
               /\ e = n.time + Truth(n.next_day) * NanosPerDay
               /\ n.time \in Times
               /\ TimeStartOf(t, unit) \in Times /\ TimeEndOf(t, unit) \in Times
<1> DEFINE x == NanosPerHour
           y == NanosPerMinute
           z == NanosPerSecond
           hpd == HoursPerDay
           mph == MinutesPerHour
           spm == SecondsPerMinute
           w == default_increment(unit)
           d == NanosPerDay
           h0 == hour(t)
           m0 == minute(t)
           s0 == second(t)
           s == s0 + 1
           m == m0 + Truth(unit = "minute" \/ s = spm)
           h == h0 + Truth(unit = "hour" \/ m = mph)
           n == TimeNextStartOf(t, unit)
           e == TimeEndOf(t, unit) + 1
<1>1. /\ x \in Nat \ {0} /\ y \in Nat \ {0} /\ z \in Nat \ {0} /\ d \in Nat \ {0}
      /\ hpd \in Nat \ {0} /\ mph \in Nat \ {0} /\ spm \in Nat \ {0}
  BY ClockFacts
<1>2. d = hpd * x /\ x = mph * y /\ y = spm * z
  BY DEF NanosPerDay, NanosPerHour, NanosPerMinute
<1>3. /\ h0 \in 0 .. hpd - 1 /\ m0 \in 0 .. mph - 1 /\ s0 \in 0 .. spm - 1
      /\ t - (t % x) = h0 * x /\ t - (t % y) = h0 * x + m0 * y /\ t - (t % z) = h0 * x + m0 * y + s0 * z
  BY TimeFields
<1>4. PICK c \in Nat \ {0} : w \in Nat \ {0} /\ d = w * c
  BY FixedWidth DEF FixedUnits
<1>5. /\ t - (t % w) \in 0 .. d - 1 /\ t - (t % w) + w - 1 \in 0 .. d - 1 /\ t \in Int
  <2>1. t \in Nat /\ t < d
    BY TimeFields
  <2>2. w * 0 = 0
    BY <1>4, SMT
  <2>3. t \in Int /\ t \in w * 0 .. w * c - 1 /\ 0 \in Int /\ c \in Int
    BY <1>1, <1>4, <2>1, <2>2, SMT
  <2> HIDE DEF w, d
  <2> QED BY <1>4, <2>2, <2>3, CutTo
<1>6. e = t - (t % w) + w /\ TimeStartOf(t, unit) = t - (t % w) /\ TimeEndOf(t, unit) = t - (t % w) + w - 1
      /\ e \in 1 .. d
  <2>1. TimeStartOf(t, unit) = t - (t % w) /\ TimeEndOf(t, unit) = TimeStartOf(t, unit) + w - 1
    BY DEF TimeStartOf, TimeEndOf
  <2> DEFINE q == t - (t % w)
  <2>2. e = q + w - 1 + 1
    BY <2>1
  <2>3. q \in 0 .. d - 1 /\ q + w - 1 \in 0 .. d - 1
    BY <1>5
  <2> HIDE DEF q, e, w, d
  <2>4. q \in Int /\ e = q + w /\ e \in 1 .. d
    BY <1>1, <1>4, <2>2, <2>3, SMT
  <2> QED BY <2>1, <2>4 DEF q, w
<1>7. w = (CASE unit = "hour" -> x [] unit = "minute" -> y [] OTHER -> z) /\ unit \in {"hour", "minute", "second"}
  BY DEF default_increment, TimeBoundaryUnit
<1> DEFINE mx == IF unit = "hour" THEN 0 ELSE (m % mph) * y
           sx == IF unit = "second" THEN (s % spm) * z ELSE 0
<1>8. n.time = (h % hpd) * x + mx + sx /\ n.next_day = (h = hpd)
  BY DEF TimeNextStartOf
<1> HIDE DEF x, y, z, hpd, mph, spm, d, h0, m0, s0, n, e, w
<1> DEFINE cs == Truth(s = spm)
           cm == Truth(m = mph)
           ch == Truth(h = hpd)
           am == Truth(unit = "minute" \/ s = spm)
           ah == Truth(unit = "hour" \/ m = mph)
<1>9. /\ s = s0 + 1 /\ m = m0 + am /\ h = h0 + ah
      /\ cs \in 0 .. 1 /\ cm \in 0 .. 1 /\ ch \in 0 .. 1 /\ am \in 0 .. 1 /\ ah \in 0 .. 1
      /\ (unit # "minute" => am = cs) /\ (unit # "hour" => ah = cm)
      /\ (unit = "minute" => am = 1) /\ (unit = "hour" => ah = 1)
  BY DEF Truth
<1>10. (h = hpd => ch = 1) /\ (h # hpd => ch = 0) /\ (ch = 1 <=> h = hpd)
       /\ (cm = 1 <=> m = mph) /\ (cs = 1 <=> s = spm)
  BY DEF Truth
<1> HIDE DEF am, ah, cs, cm, ch, s, m, h
<1>11. s \in 0 .. spm /\ m \in 0 .. mph /\ h \in 0 .. hpd
  <2>1. s0 \in Int /\ m0 \in Int /\ h0 \in Int /\ am \in Int /\ ah \in Int
    BY <1>3, <1>9
  <2> QED BY <1>1, <1>3, <1>9, <2>1, SMT
<1> DEFINE hh == h % hpd
           mm == m % mph
           ss == s % spm
<1>12. /\ ss \in 0 .. spm - 1 /\ s * z = ss * z + cs * y
       /\ mm \in 0 .. mph - 1 /\ m * y = mm * y + cm * x
       /\ hh \in 0 .. hpd - 1 /\ h * x = hh * x + ch * d
  <2>1. x \in Int /\ y \in Int /\ z \in Int
    BY <1>1
  <2>2. ss \in 0 .. spm - 1 /\ s * z = ss * z + cs * (spm * z)
    <3>1. spm \in Nat \ {0} /\ s \in 0 .. spm /\ z \in Int /\ cs \in 0 .. 1 /\ (cs = 1 <=> s = spm)
      BY <1>1, <1>9, <1>10, <1>11, <2>1
    <3> QED BY <3>1, WrapsAround
  <2>3. mm \in 0 .. mph - 1 /\ m * y = mm * y + cm * (mph * y)
    <3>1. mph \in Nat \ {0} /\ m \in 0 .. mph /\ y \in Int /\ cm \in 0 .. 1 /\ (cm = 1 <=> m = mph)
      BY <1>1, <1>9, <1>10, <1>11, <2>1
    <3> QED BY <3>1, WrapsAround
  <2>4. hh \in 0 .. hpd - 1 /\ h * x = hh * x + ch * (hpd * x)
    <3>1. hpd \in Nat \ {0} /\ h \in 0 .. hpd /\ x \in Int /\ ch \in 0 .. 1 /\ (ch = 1 <=> h = hpd)
      BY <1>1, <1>9, <1>10, <1>11, <2>1
    <3> QED BY <3>1, WrapsAround
  <2> QED BY <1>2, <2>2, <2>3, <2>4
<1> HIDE DEF hh, mm, ss
<1>13. e = n.time + ch * d
  <2> DEFINE h1 == hh * x
             m1 == mm * y
             s1 == ss * z
             td == ch * d
             k == cm * x
             j == cs * y
             h00 == h0 * x
             m00 == m0 * y
             s00 == s0 * z
  <2>1. h0 \in Int /\ m0 \in Int /\ s0 \in Int /\ cs \in Int /\ cm \in Int /\ ch \in Int
        /\ hh \in Int /\ mm \in Int /\ ss \in Int
    BY <1>3, <1>9, <1>12
  <2>2. /\ h00 \in Int /\ m00 \in Int /\ s00 \in Int /\ h1 \in Int /\ m1 \in Int /\ s1 \in Int
        /\ td \in Int /\ k \in Int /\ j \in Int
    BY <1>1, <2>1, SMT
  <2>3. (h0 + 1) * x = h00 + x /\ (m0 + 1) * y = m00 + y /\ (s0 + 1) * z = s00 + z
        /\ (h0 + cm) * x = h00 + k /\ (m0 + cs) * y = m00 + j
    BY <1>1, <2>1, SMT
  <2>4. h * x = h1 + td /\ m * y = m1 + k /\ s * z = s1 + j
    BY <1>12
  <2>5. CASE unit = "hour"
    <3>1. h00 + x = h1 + td
      BY <1>9, <2>3, <2>4, <2>5
    <3>2. n.time = h1 + 0 + 0 /\ e = h00 + x
      BY <1>3, <1>6, <1>7, <1>8, <2>5 DEF hh
    <3> HIDE DEF h00, m00, s00, h1, td
    <3>3. e = n.time + td
      BY <2>2, <3>1, <3>2, SMT
    <3> QED BY <3>3 DEF td
  <2>6. CASE unit = "minute"
    <3>1. m00 + y = m1 + k /\ h00 + k = h1 + td
      BY <1>9, <2>3, <2>4, <2>6
    <3>2. n.time = h1 + m1 + 0 /\ e = h00 + m00 + y
      BY <1>3, <1>6, <1>7, <1>8, <2>6 DEF hh, mm
    <3> HIDE DEF h00, m00, s00, h1, m1, td, k
    <3>3. e = n.time + td
      BY <1>1, <2>2, <3>1, <3>2, SMT
    <3> QED BY <3>3 DEF td
  <2>7. CASE unit = "second"
    <3>1. s00 + z = s1 + j /\ m00 + j = m1 + k /\ h00 + k = h1 + td
      BY <1>9, <2>3, <2>4, <2>7
    <3>2. n.time = h1 + m1 + s1 /\ e = h00 + m00 + s00 + z
      BY <1>3, <1>6, <1>7, <1>8, <2>7 DEF hh, mm, ss
    <3> HIDE DEF h00, m00, s00, h1, m1, s1, td, k, j
    <3>3. e = n.time + td
      BY <1>1, <2>2, <3>1, <3>2, SMT
    <3> QED BY <3>3 DEF td
  <2> QED BY <1>7, <2>5, <2>6, <2>7
<1>14. n.time \in Nat /\ n.time <= d - z
  <2>1. hh \in Nat /\ mm \in Nat /\ ss \in Nat
    BY <1>12
  <2>2. hh * x \in Nat /\ mm * y \in Nat /\ ss * z \in Nat
    BY <1>1, <2>1, SMT
  <2>3. hh * x <= d - x /\ mm * y <= x - y /\ ss * z <= y - z
    <3> DEFINE hr == hpd - 1 - hh
               mr == mph - 1 - mm
               sr == spm - 1 - ss
    <3>1. hr \in Nat /\ mr \in Nat /\ sr \in Nat
      BY <1>1, <1>12, SMT
    <3>2. hr * x = hpd * x - x - hh * x /\ mr * y = mph * y - y - mm * y /\ sr * z = spm * z - z - ss * z
      BY <1>1, <2>1, SMT
    <3> HIDE DEF hr, mr, sr
    <3>3. hr * x \in Nat /\ mr * y \in Nat /\ sr * z \in Nat
      BY <1>1, <3>1, SMT
    <3> QED BY <1>1, <1>2, <2>2, <3>2, <3>3, SMT
  <2>4. n.time = hh * x + mx + sx
    BY <1>8 DEF hh
  <2>5. mx \in Nat /\ sx \in Nat /\ mx <= x - y /\ sx <= y - z
    <3>1. y <= x /\ z <= y
      BY <1>1, <2>2, <2>3, SMT
    <3>2. (mx = 0 \/ mx = mm * y) /\ (sx = 0 \/ sx = ss * z)
      BY DEF mm, ss
    <3> HIDE DEF mx, sx
    <3> QED BY <1>1, <2>2, <2>3, <3>1, <3>2, SMT
  <2> HIDE DEF mx, sx
  <2> DEFINE k == hh * x
  <2>6. k \in Nat /\ k <= d - x /\ n.time = k + mx + sx
    BY <2>2, <2>3, <2>4
  <2> HIDE DEF k
  <2> QED BY <1>1, <2>5, <2>6, SMT
<1>15. TimeStartOf(t, unit) \in Times /\ TimeEndOf(t, unit) \in Times
  BY <1>5, <1>6 DEF Times, d
<1>16. n.time \in Times
  <2>1. n.time \in 0 .. d - 1
    BY <1>1, <1>14, SMT
  <2> QED BY <2>1 DEF Times, d
<1>17. CASE h = hpd
  <2>1. n.next_day = TRUE /\ Truth(n.next_day) = ch
    BY <1>8, <1>10, <1>17 DEF Truth
  <2> QED BY <1>13, <1>15, <1>16, <2>1 DEF d, n, e
<1>18. CASE h # hpd
  <2>1. n.next_day = FALSE /\ Truth(n.next_day) = ch
    BY <1>8, <1>10, <1>18 DEF Truth
  <2> QED BY <1>13, <1>15, <1>16, <2>1 DEF d, n, e
<1> QED BY <1>17, <1>18

\* A datetime with the shape of the ones that are made, whose number is n.
Stands(p, n) == IsPlain(p) /\ p = Plain(p.date, p.time) /\ assume_utc(p) = n

\* A date and a time of day make a datetime.
LEMMA MakesPlain ==
    ASSUME NEW d, IsDate(d), NEW t \in Times
    PROVE  Stands(Plain(d, t), unix_days(d) * NanosPerDay + t) /\ OrNoPlain(d, t) = Plain(d, t)
<1>1. d # NoDate
  BY NoneIsNoDate
<1> QED BY <1>1 DEF Stands, IsPlain, Plain, assume_utc, OrNoPlain

\* The start and the end of a unit of fixed length, and the start of the next one.
LEMMA FixedBounds ==
    ASSUME NEW p, IsPlain(p), NEW unit \in FixedUnits
    PROVE  LET w == default_increment(unit)
               s == assume_utc(p) - (assume_utc(p) % w)
           IN  /\ Stands(start_of_unit(p, unit), s) /\ Stands(end_of_unit(p, unit), s + w - 1)
               /\ next_start_of_unit(p, unit) # NoPlain => Stands(next_start_of_unit(p, unit), s + w)
<1> DEFINE w == default_increment(unit)
           day == NanosPerDay
           n == assume_utc(p)
           u == unix_days(p.date)
           t == p.time
           ud == u * day
           next == next_start_of_unit(p, unit)
<1>1. PICK c \in Nat \ {0} : w \in Nat \ {0} /\ day = w * c
  BY FixedWidth
<1>2. /\ n \in Int /\ n % day = t /\ t \in Nat /\ t < day /\ u \in Int /\ t \in Times /\ day \in Nat \ {0}
      /\ IsDate(p.date)
  BY PlainIsInstant, ClockFacts DEF IsPlain
<1>3. n = ud + t /\ ud \in Int /\ (u + 1) * day = ud + day
  <2>1. n = ud + t
    BY DEF assume_utc
  <2> HIDE DEF u, day
  <2> QED BY <1>2, <2>1, SMT
<1>4. t \in Int /\ n % w = t % w
  <2> HIDE DEF w, n, t, day
  <2>1. n % day = w * ((n \div w) % c) + (n % w)
    BY <1>1, <1>2, DivTwice
  <2>2. n \div w \in Int /\ n % w \in Nat /\ n % w < w
    BY <1>1, <1>2, DivSplit
  <2>3. (n \div w) % c \in Int
    <3> DEFINE x == n \div w
    <3> HIDE DEF x
    <3>1. x \in Int
      BY <2>2 DEF x
    <3>2. x % c \in Int
      BY <3>1, DivSplit
    <3> QED BY <3>2 DEF x
  <2>4. t \in Int /\ t = w * ((n \div w) % c) + (n % w)
    BY <1>2, <2>1, SMT
  <2> QED BY <1>1, <2>2, <2>3, <2>4, DivUnique
<1>5. tomorrow(p.date) # NoDate => IsDate(tomorrow(p.date)) /\ unix_days(tomorrow(p.date)) = u + 1
  BY <1>2, TomorrowIsNext
<1>6. CASE unit = "day"
  <2>1. w = day /\ unit \notin TimeBoundaryUnit
    BY <1>6 DEF default_increment, TimeBoundaryUnit
  <2>2. 0 \in Times /\ day - 1 \in Times
    BY <1>2, SMT DEF Times
  <2>3. Stands(start_of_unit(p, unit), ud + 0) /\ Stands(end_of_unit(p, unit), ud + (day - 1))
    BY <1>2, <1>6, <2>1, <2>2, MakesPlain DEF start_of_unit, end_of_unit
  <2>4. next = OrNoPlain(tomorrow(p.date), 0)
    BY <1>6, <2>1 DEF next_start_of_unit
  <2>5. ASSUME next # NoPlain
        PROVE  Stands(next, ud + day)
    <3>1. tomorrow(p.date) # NoDate
      BY <2>4, <2>5 DEF OrNoPlain
    <3>2. Stands(next, (u + 1) * day + 0)
      BY <1>5, <2>2, <2>4, <3>1, MakesPlain
    <3>3. (u + 1) * day + 0 = ud + day
      <4> HIDE DEF ud, u, day
      <4> QED BY <1>2, <1>3, SMT
    <3> QED BY <3>2, <3>3
  <2>6. n - (n % w) = ud
    <3> HIDE DEF ud, t, n, w, day
    <3>1. n % w = t
      BY <1>2, <2>1
    <3> QED BY <1>2, <1>3, <3>1, SMT
  <2>7. ud + 0 = ud /\ ud + (day - 1) = ud + w - 1 /\ ud + day = ud + w
    <3>1. ud + 0 = ud /\ ud + (day - 1) = ud + day - 1
      <4> HIDE DEF ud, day
      <4> QED BY <1>2, <1>3, SMT
    <3> QED BY <2>1, <3>1
  <2> HIDE DEF ud, w, n, next, day
  <2> QED BY <2>3, <2>5, <2>6, <2>7 DEF w, n, next
<1>7. CASE unit \in TimeBoundaryUnit
  <2> DEFINE st == TimeStartOf(t, unit)
             et == TimeEndOf(t, unit)
             x == TimeNextStartOf(t, unit)
  <2>1. /\ x.next_day \in BOOLEAN /\ et + 1 = x.time + Truth(x.next_day) * day
        /\ x.time \in Times /\ st \in Times /\ et \in Times
    BY <1>2, <1>7, NextStartCarries
  <2>2. st = t - (t % w) /\ et = st + w - 1
    BY DEF TimeStartOf, TimeEndOf
  <2>3. /\ Stands(start_of_unit(p, unit), ud + st) /\ Stands(end_of_unit(p, unit), ud + et)
        /\ next = OrNoPlain(IF x.next_day THEN tomorrow(p.date) ELSE p.date, x.time)
    BY <1>2, <1>7, <2>1, MakesPlain DEF start_of_unit, end_of_unit, next_start_of_unit
  <2>4. ASSUME next # NoPlain
        PROVE  Stands(next, ud + (et + 1))
    <3>1. (u + 1) * day + x.time = ud + (x.time + 1 * day) /\ ud + x.time = ud + (x.time + 0 * day)
      <4>1. x.time \in Int
        BY <1>2, <2>1, SMT DEF Times
      <4> DEFINE v == (u + 1) * day
                 y == x.time
      <4> HIDE DEF v, y, ud, day, u
      <4>2. 1 * day = day /\ 0 * day = 0 /\ v = ud + day /\ y \in Int
        BY <1>2, <1>3, <4>1, SMT DEF v, y
      <4>3. v + y = ud + (y + day) /\ ud + y = ud + (y + 0)
        BY <1>2, <1>3, <4>2, SMT
      <4> QED BY <4>2, <4>3 DEF v, y
    <3>2. CASE x.next_day
      <4>1. tomorrow(p.date) # NoDate
        BY <2>3, <2>4, <3>2 DEF OrNoPlain
      <4>2. Stands(next, (u + 1) * day + x.time)
        BY <1>5, <2>1, <2>3, <3>2, <4>1, MakesPlain
      <4> QED BY <2>1, <3>1, <3>2, <4>2 DEF Truth
    <3>3. CASE ~x.next_day
      <4>1. Stands(next, ud + x.time)
        BY <1>2, <2>1, <2>3, <3>3, MakesPlain
      <4> QED BY <2>1, <3>1, <3>3, <4>1 DEF Truth
    <3> QED BY <3>2, <3>3
  <2>5. /\ ud + st = n - (n % w) /\ ud + et = n - (n % w) + w - 1
        /\ ud + (et + 1) = n - (n % w) + w
    <3> DEFINE r == n % w
    <3>1. r \in Int
      <4> HIDE DEF n, w
      <4> QED BY <1>1, <1>2, DivSplit
    <3>2. st = t - r /\ et = st + w - 1
      BY <1>4, <2>2
    <3> HIDE DEF st, et, r, ud, t, w, n
    <3>3. ud + st = n - r /\ ud + et = n - r + w - 1 /\ ud + (et + 1) = n - r + w
      BY <1>1, <1>3, <1>4, <3>1, <3>2, SMT
    <3> QED BY <3>3 DEF r
  <2> HIDE DEF ud, w, n, next, day, st, et
  <2> QED BY <2>3, <2>4, <2>5 DEF w, n, next
<1>8. unit = "day" \/ unit \in TimeBoundaryUnit
  BY DEF FixedUnits
<1> QED BY <1>6, <1>7, <1>8

\* What DateTimeUnitsTile says of a datetime and a unit.
UnitTiles(p, unit) ==
    LET s == start_of_unit(p, unit) e == end_of_unit(p, unit) n == next_start_of_unit(p, unit) IN
    /\ s # NoPlain => ~PlainLess(p, s)
    /\ e # NoPlain => ~PlainLess(e, p)
    /\ n # NoPlain => /\ PlainLess(p, n)
                      /\ start_of_unit(n, unit) = n
                      /\ PlainShift(e, 1) = n
                      /\ s # NoPlain => start_of_unit(e, unit) = s /\ end_of_unit(s, unit) = e

\* Datetimes of the same number are the same.
LEMMA StandsAlone ==
    ASSUME NEW p, NEW q, NEW n, Stands(p, n), Stands(q, n)
    PROVE  p = q
  BY SameInstant DEF Stands

\* The datetime of an instant, and the one a nanosecond before it.
LEMMA StepsToNext ==
    ASSUME NEW p, NEW q, NEW n \in Int, Stands(p, n), Stands(q, n + 1)
    PROVE  PlainShift(p, 1) = q
<1>1. assume_utc(p) + 1 \in Instants /\ IsPlain(p)
  BY PlainIsInstant DEF Stands
<1>2. PlainShift(p, 1) = to_utc_plain(n + 1)
  BY <1>1, NextNanosecond DEF Stands
<1>3. Stands(to_utc_plain(n + 1), n + 1)
  BY <1>1, InstantIsPlain DEF Stands
<1> QED BY <1>2, <1>3, StandsAlone

\* Units of a fixed length tile the time line.
LEMMA FixedUnitTiles ==
    ASSUME NEW p, IsPlain(p), NEW unit \in FixedUnits
    PROVE  UnitTiles(p, unit)
<1> DEFINE w == default_increment(unit)
           day == NanosPerDay
           m == assume_utc(p)
           x == m - (m % w)
           s == start_of_unit(p, unit)
           e == end_of_unit(p, unit)
           n == next_start_of_unit(p, unit)
<1>1. PICK c \in Nat \ {0} : w \in Nat \ {0} /\ day = w * c
  BY FixedWidth
<1>2. m \in Int /\ m \in Instants /\ day \in Nat \ {0} /\ UnixDaysMin \in Int /\ UnixDaysMax \in Int
      /\ Instants = UnixDaysMin * day .. (UnixDaysMax + 1) * day - 1
  BY PlainIsInstant, InstantDays, ClockFacts
<1> DEFINE a == c * UnixDaysMin
           b == c * (UnixDaysMax + 1)
<1>3. a \in Int /\ b \in Int /\ Instants = w * a .. w * b - 1
  <2> HIDE DEF w, day
  <2>1. a \in Int /\ b \in Int
    BY <1>2, SMT
  <2>2. w * a = UnixDaysMin * day /\ w * b = (UnixDaysMax + 1) * day
    <3> DEFINE y == UnixDaysMin
               z == UnixDaysMax + 1
    <3>1. y \in Int /\ z \in Int
      BY <1>2, SMT
    <3> HIDE DEF y, z
    <3>2. w * (c * y) = y * (w * c) /\ w * (c * z) = z * (w * c)
      BY <1>1, <3>1, SMT
    <3> QED BY <1>1, <3>2 DEF y, z
  <2> QED BY <1>2, <2>1, <2>2
<1>4. /\ x <= m /\ m <= x + w - 1 /\ x % w = 0 /\ (x + w) % w = 0
      /\ x - (x % w) = x /\ x + w - 1 - ((x + w - 1) % w) = x /\ x + w - ((x + w) % w) = x + w
  <2> HIDE DEF w, m, a, b
  <2> QED BY <1>1, <1>2, <1>3, CutTo
<1>5. Stands(s, x) /\ Stands(e, x + w - 1) /\ (n # NoPlain => Stands(n, x + w))
  BY FixedBounds
<1>6. x \in Int /\ x + w - 1 \in Int /\ w \in Int /\ x + w = (x + w - 1) + 1 /\ m < x + w
  <2>1. m % w \in Int
    <3> HIDE DEF m, w
    <3> QED BY <1>1, <1>2, DivSplit
  <2> DEFINE r == m % w
  <2>2. r \in Int /\ x = m - r
    BY <2>1
  <2> HIDE DEF r, m, w, x
  <2> QED BY <1>1, <1>2, <1>4, <2>2, SMT
<1>7. ~PlainLess(p, s) /\ ~PlainLess(e, p)
  <2>1. (PlainLess(p, s) <=> m < x) /\ (PlainLess(e, p) <=> x + w - 1 < m)
    BY <1>5, PlainOrder DEF Stands
  <2> HIDE DEF m, x, w, s, e
  <2> QED BY <1>2, <1>4, <1>6, <2>1, SMT
<1>8. ASSUME n # NoPlain
      PROVE  /\ PlainLess(p, n) /\ start_of_unit(n, unit) = n /\ PlainShift(e, 1) = n
             /\ start_of_unit(e, unit) = s /\ end_of_unit(s, unit) = e
  <2>1. Stands(n, x + w)
    BY <1>5, <1>8
  <2>2. PlainLess(p, n)
    BY <1>6, <2>1, PlainOrder DEF Stands
  <2>3. \A q : IsPlain(q) => /\ Stands(start_of_unit(q, unit), assume_utc(q) - (assume_utc(q) % w))
                             /\ Stands(end_of_unit(q, unit), assume_utc(q) - (assume_utc(q) % w) + w - 1)
    BY FixedBounds
  <2>4. /\ IsPlain(n) /\ assume_utc(n) = x + w /\ IsPlain(e) /\ assume_utc(e) = x + w - 1
        /\ IsPlain(s) /\ assume_utc(s) = x
    BY <1>5, <2>1 DEF Stands
  <2>5. /\ Stands(start_of_unit(n, unit), x + w) /\ Stands(start_of_unit(e, unit), x)
        /\ Stands(end_of_unit(s, unit), x + w - 1)
    <3> HIDE DEF n, e, s, x, w
    <3>1. Stands(start_of_unit(n, unit), (x + w) - ((x + w) % w))
      BY <2>3, <2>4
    <3>2. Stands(start_of_unit(e, unit), (x + w - 1) - ((x + w - 1) % w))
      BY <2>3, <2>4
    <3>3. Stands(end_of_unit(s, unit), x - (x % w) + w - 1)
      BY <2>3, <2>4
    <3>4. (x + w) - ((x + w) % w) = x + w /\ (x + w - 1) - ((x + w - 1) % w) = x /\ x - (x % w) = x
      <4> DEFINE y == (x + w - 1) % w
                 z == x + w - 1
      <4>1. y \in Int /\ z \in Int
        <5>1. z \in Int
          BY <1>6
        <5> HIDE DEF z
        <5> QED BY <1>1, <5>1, DivSplit DEF z
      <4>2. x + w - 1 - y = x
        BY <1>4
      <4> HIDE DEF y
      <4>3. z - y = x
        BY <1>6, <4>1, <4>2, SMT
      <4>4. (x + w) - 0 = x + w
        BY <1>6, SMT
      <4> QED BY <1>4, <4>3, <4>4 DEF y
    <3>5. Stands(start_of_unit(n, unit), x + w)
      BY <3>1, <3>4
    <3>6. Stands(start_of_unit(e, unit), x)
      BY <3>2, <3>4
    <3>7. Stands(end_of_unit(s, unit), x + w - 1)
      BY <3>3, <3>4
    <3> QED BY <3>5, <3>6, <3>7
  <2>6. PlainShift(e, 1) = n
    BY <1>5, <1>6, <2>1, StepsToNext
  <2> QED BY <1>5, <2>1, <2>2, <2>5, <2>6, StandsAlone
<1> QED BY <1>7, <1>8 DEF UnitTiles

\* What day the weeks of a unit begin with.
WeekFrom(unit) == IF unit = "week_mon" THEN 3 ELSE 4

\* The bounds of the week of a date lead back to a multiple of seven days.
LEMMA WeekOfDate ==
    ASSUME NEW d, IsDate(d), NEW unit \in {"week_mon", "week_sun"}
    PROVE  LET r == (unix_days(d) + WeekFrom(unit)) % 7 IN
           DateStartOf(d, unit) = shift_days(d, -r) /\ DateEndOf(d, unit) = shift_days(d, 6 - r)
<1> DEFINE u == unix_days(d)
           dow == day_of_week(u)
<1>1. u \in Int
  BY UnixDaysType
<1>2. dow = ((u + 3) % 7) + 1
  BY DEF day_of_week
<1>3. /\ unit = "week_mon" => DateStartOf(d, unit) = shift_days(d, 1 - dow)
                              /\ DateEndOf(d, unit) = shift_days(d, 7 - dow)
      /\ unit = "week_sun" => DateStartOf(d, unit) = shift_days(d, -(dow % 7))
                              /\ DateEndOf(d, unit) = shift_days(d, (6 - dow) % 7)
  BY DEF DateStartOf, DateEndOf
<1> HIDE DEF u, dow
<1>4. 1 - dow = -((u + 3) % 7) /\ 7 - dow = 6 - ((u + 3) % 7)
  BY <1>1, <1>2, SMT
<1>5. -(dow % 7) = -((u + 4) % 7) /\ (6 - dow) % 7 = 6 - ((u + 4) % 7)
  BY <1>1, <1>2, SMT
<1>6. CASE unit = "week_mon"
  BY <1>3, <1>4, <1>6 DEF WeekFrom, u
<1>7. CASE unit = "week_sun"
  BY <1>3, <1>5, <1>7 DEF WeekFrom, u
<1> QED BY <1>6, <1>7

\* What the boundaries of a unit of the calendar promise, for dates.
DateTiles(d, unit) ==
    LET s == DateStartOf(d, unit) e == DateEndOf(d, unit) IN
    /\ s # NoDate => IsDate(s) /\ ~DateLess(d, s)
    /\ e # NoDate => IsDate(e) /\ ~DateLess(e, d)
    /\ e # NoDate /\ tomorrow(e) # NoDate => DateStartOf(tomorrow(e), unit) = tomorrow(e)
    /\ e # NoDate /\ s # NoDate => DateStartOf(e, unit) = s /\ DateEndOf(s, unit) = e

\* Weeks tile the calendar.
LEMMA WeekTiles ==
    ASSUME NEW d, IsDate(d), NEW unit \in {"week_mon", "week_sun"}
    PROVE  DateTiles(d, unit)
<1> DEFINE u == unix_days(d)
           c == WeekFrom(unit)
           r == (u + c) % 7
           s == DateStartOf(d, unit)
           e == DateEndOf(d, unit)
           n == tomorrow(e)
<1>1. u \in Int /\ c \in Int
  BY UnixDaysType DEF WeekFrom
<1>2. s = shift_days(d, -r) /\ e = shift_days(d, 6 - r)
  BY WeekOfDate
<1>3. \A f : IsDate(f) => /\ DateStartOf(f, unit) = shift_days(f, -((unix_days(f) + c) % 7))
                          /\ DateEndOf(f, unit) = shift_days(f, 6 - ((unix_days(f) + c) % 7))
  BY WeekOfDate
<1>4. /\ r \in 0 .. 6 /\ -r \in Int /\ 6 - r \in Int
      /\ (u - r + c) % 7 = 0 /\ (u + (6 - r) + c) % 7 = 6 /\ (u + (6 - r) + 1 + c) % 7 = 0
  <2> HIDE DEF u, c
  <2> QED BY <1>1, SMT
<1> HIDE DEF u, c, r, s, e, n
<1>5. s # NoDate => IsDate(s) /\ unix_days(s) = u + (-r)
  BY <1>2, <1>4, ShiftDaysAdds DEF u
<1>6. e # NoDate => IsDate(e) /\ unix_days(e) = u + (6 - r)
  BY <1>2, <1>4, ShiftDaysAdds DEF u
<1>7. s # NoDate => ~DateLess(d, s)
  <2>1. s # NoDate => (DateLess(d, s) <=> u < u + (-r))
    BY <1>5, DateOrder DEF u
  <2> QED BY <1>1, <1>4, <2>1, SMT
<1>8. e # NoDate => ~DateLess(e, d)
  <2>1. e # NoDate => (DateLess(e, d) <=> u + (6 - r) < u)
    BY <1>6, DateOrder DEF u
  <2> QED BY <1>1, <1>4, <2>1, SMT
<1>9. ASSUME e # NoDate, n # NoDate
      PROVE  DateStartOf(n, unit) = n
  <2>1. IsDate(n) /\ unix_days(n) = u + (6 - r) + 1
    BY <1>6, <1>9, TomorrowIsNext DEF n
  <2>2. DateStartOf(n, unit) = shift_days(n, -0)
    BY <1>3, <1>4, <2>1
  <2> DEFINE v == unix_days(n)
             f == shift_days(n, -0)
  <2>3. v \in UnixDays /\ -0 \in Int /\ v \in Int
    BY <2>1, UnixDaysInRange, UnixDaysType
  <2>4. v + (-0) = v
    <3> HIDE DEF v
    <3> QED BY <2>3, SMT
  <2>5. IsDate(f) /\ unix_days(f) = v
    BY <2>1, <2>3, <2>4, ShiftDaysAdds
  <2> QED BY <2>1, <2>2, <2>5, SameNumberSameDate
<1>10. ASSUME e # NoDate, s # NoDate
       PROVE  DateStartOf(e, unit) = s /\ DateEndOf(s, unit) = e
  <2>1. IsDate(s) /\ unix_days(s) = u + (-r) /\ IsDate(e) /\ unix_days(e) = u + (6 - r)
    BY <1>5, <1>6, <1>10
  <2>2. unix_days(s) \in UnixDays /\ unix_days(e) \in UnixDays
    BY <2>1, UnixDaysInRange
  <2>3. u + (-r) = u - r /\ u + (6 - r) + (-6) = u + (-r) /\ u + (-r) + (6 - 0) = u + (6 - r)
    BY <1>1, <1>4, SMT
  <2>4. DateStartOf(e, unit) = shift_days(e, -6) /\ DateEndOf(s, unit) = shift_days(s, 6 - 0)
    BY <1>3, <1>4, <2>1, <2>3
  <2>5. -6 \in Int /\ 6 - 0 \in Int
    BY SMT
  <2>6. IsDate(shift_days(e, -6)) /\ unix_days(shift_days(e, -6)) = unix_days(s)
    BY <2>1, <2>2, <2>3, <2>5, ShiftDaysAdds
  <2>7. IsDate(shift_days(s, 6 - 0)) /\ unix_days(shift_days(s, 6 - 0)) = unix_days(e)
    BY <2>1, <2>2, <2>3, <2>5, ShiftDaysAdds
  <2> QED BY <2>1, <2>4, <2>6, <2>7, SameNumberSameDate
<1> QED BY <1>5, <1>6, <1>7, <1>8, <1>9, <1>10 DEF DateTiles, s, e, n

\* Months and years tile the calendar.
LEMMA MonthTiles ==
    ASSUME NEW d, IsDate(d), NEW unit \in {"month", "year"}
    PROVE  DateTiles(d, unit)
<1> DEFINE y == d.year
           m == d.month
           k == d.day
           x == IF unit = "month" THEN m ELSE 1
           z == IF unit = "month" THEN m ELSE 12
           l == days_in_month(y, z)
           s == Date(y, x, 1)
           e == Date(y, z, l)
<1>1. y \in Years /\ m \in Months /\ k \in 1 .. 31 /\ k <= days_in_month(y, m)
  BY PartsOfDate, InYears, SMT DEF IsDate, Months
<1>2. x \in Months /\ z \in Months /\ y \in Int /\ x <= m /\ m <= z
  BY <1>1, YearsRange, SMT DEF Months
<1>3. l \in 28 .. 31 /\ days_in_month(y, x) \in 28 .. 31 /\ (unit = "year" => l = 31)
  BY <1>2, MonthLength
<1>4. \A f : /\ DateStartOf(f, unit) = Date(f.year, IF unit = "month" THEN f.month ELSE 1, 1)
             /\ DateEndOf(f, unit) = IF unit = "month" THEN Date(f.year, f.month, days_in_month(f.year, f.month))
                                     ELSE Date(f.year, 12, 31)
  BY DEF DateStartOf, DateEndOf
<1>5. DateStartOf(d, unit) = s /\ DateEndOf(d, unit) = e
  BY <1>3, <1>4
<1>6. s.year = y /\ s.month = x /\ s.day = 1 /\ e.year = y /\ e.month = z /\ e.day = l
  BY DateFields
<1>7. (unit = "month" => x = m /\ z = m) /\ (unit = "year" => x = 1 /\ z = 12)
  OBVIOUS
<1> HIDE DEF y, m, k, x, z, l, s, e
<1>8. IsDate(s) /\ IsDate(e)
  <2>1. 1 \in 1 .. 31 /\ 1 <= days_in_month(y, x) /\ l \in 1 .. 31 /\ l <= l
    BY <1>3, SMT
  <2> QED BY <1>1, <1>2, <2>1, MakesDate DEF s, e, l
<1>9. ~DateLess(d, s) /\ ~DateLess(e, d)
  <2>1. m \in Int /\ x \in Int /\ z \in Int /\ k \in Int /\ l \in Int /\ 1 <= k
    BY <1>1, <1>2, <1>3, SMT DEF Months
  <2>2. m = z => k <= l
    BY <1>1 DEF l
  <2> QED BY <1>2, <1>6, <2>1, <2>2, SMT DEF DateLess, y, m, k
<1>10. DateStartOf(e, unit) = s /\ DateEndOf(s, unit) = e
  BY <1>3, <1>4, <1>6, <1>7 DEF s, e, l
<1>11. ASSUME tomorrow(e) # NoDate
       PROVE  DateStartOf(tomorrow(e), unit) = tomorrow(e)
  <2>1. l \in 1 .. 31 /\ l <= l
    BY <1>3, SMT
  <2>2. (z < 12 => tomorrow(e) = Date(y, z + 1, 1)) /\ (z = 12 => tomorrow(e) = NewDate(y + 1, 1, 1))
    BY <1>1, <1>2, <2>1, TomorrowCases DEF e, l
  <2>3. CASE z = 12
    <3>1. tomorrow(e) = Date(y + 1, 1, 1)
      BY <1>11, <2>2, <2>3 DEF NewDate
    <3>2. Date(y + 1, 1, 1).year = y + 1 /\ Date(y + 1, 1, 1).month = 1
      BY DateFields
    <3> QED BY <1>4, <3>1, <3>2
  <2>4. CASE z # 12
    <3>1. z < 12 /\ unit = "month"
      BY <1>2, <1>7, <2>4, SMT DEF Months
    <3>2. Date(y, z + 1, 1).year = y /\ Date(y, z + 1, 1).month = z + 1
      BY DateFields
    <3> QED BY <1>4, <2>2, <3>1, <3>2
  <2> QED BY <2>3, <2>4
<1> QED BY <1>5, <1>8, <1>9, <1>10, <1>11 DEF DateTiles

\* Units of the calendar tile the time line of datetimes.
LEMMA CalendarUnitTiles ==
    ASSUME NEW p, IsPlain(p), NEW unit \in DateBoundaryUnit
    PROVE  UnitTiles(p, unit)
<1> DEFINE day == NanosPerDay
           d == p.date
           ds == DateStartOf(d, unit)
           de == DateEndOf(d, unit)
           dn == tomorrow(de)
           s == start_of_unit(p, unit)
           e == end_of_unit(p, unit)
           n == next_start_of_unit(p, unit)
<1>1. IsDate(d) /\ day \in Nat \ {0} /\ p.time \in 0 .. day - 1
  BY ClockFacts DEF IsPlain, Times
<1>2. unit \notin TimeBoundaryUnit /\ unit # "day" /\ unit \in {"week_mon", "week_sun", "month", "year"}
  BY DEF DateBoundaryUnit, TimeBoundaryUnit
<1>3. \A q : /\ start_of_unit(q, unit) = OrNoPlain(DateStartOf(q.date, unit), 0)
             /\ end_of_unit(q, unit) = OrNoPlain(DateEndOf(q.date, unit), day - 1)
             /\ next_start_of_unit(q, unit) = OrNoPlain(DayAfter(DateEndOf(q.date, unit)), 0)
  BY <1>2 DEF start_of_unit, end_of_unit, next_start_of_unit, next_start_of
<1>4. 0 \in Times /\ day - 1 \in Times
  BY <1>1, SMT DEF Times
<1>5. DateTiles(d, unit)
  BY <1>1, <1>2, WeekTiles, MonthTiles
<1> HIDE DEF day, s, e, n
<1>6. ASSUME s # NoPlain
      PROVE  ds # NoDate /\ IsDate(ds) /\ s = Plain(ds, 0) /\ ~PlainLess(p, s)
  <2>1. ds # NoDate /\ s = Plain(ds, 0)
    BY <1>3, <1>6 DEF s, OrNoPlain
  <2>2. IsDate(ds) /\ ~DateLess(d, ds)
    BY <1>5, <2>1 DEF DateTiles
  <2>3. ~(p.time < 0)
    BY <1>1, SMT
  <2> QED BY <2>1, <2>2, <2>3 DEF PlainLess, Plain
<1>7. ASSUME e # NoPlain
      PROVE  de # NoDate /\ IsDate(de) /\ e = Plain(de, day - 1) /\ ~PlainLess(e, p)
  <2>1. de # NoDate /\ e = Plain(de, day - 1)
    BY <1>3, <1>7 DEF e, OrNoPlain
  <2>2. IsDate(de) /\ ~DateLess(de, d)
    BY <1>5, <2>1 DEF DateTiles
  <2>3. ~(day - 1 < p.time)
    BY <1>1, SMT
  <2> QED BY <2>1, <2>2, <2>3 DEF PlainLess, Plain
<1>8. ASSUME n # NoPlain
      PROVE  /\ PlainLess(p, n) /\ start_of_unit(n, unit) = n /\ PlainShift(e, 1) = n
             /\ s # NoPlain => start_of_unit(e, unit) = s /\ end_of_unit(s, unit) = e
  <2>1. DayAfter(de) # NoDate /\ n = Plain(DayAfter(de), 0)
    BY <1>3, <1>8 DEF n, OrNoPlain
  <2>2. de # NoDate /\ dn # NoDate /\ n = Plain(dn, 0)
    BY <2>1 DEF DayAfter
  <2>3. IsDate(de) /\ ~DateLess(de, d) /\ DateStartOf(dn, unit) = dn
    BY <1>5, <2>2 DEF DateTiles
  <2>4. IsDate(dn) /\ unix_days(dn) = unix_days(de) + 1
    BY <2>2, <2>3, TomorrowIsNext
  <2>5. e = Plain(de, day - 1)
    BY <1>3, <2>2 DEF e, OrNoPlain
  <2> DEFINE u == unix_days(de)
  <2>6. u \in Int /\ unix_days(d) \in Int
    BY <1>1, <2>3, UnixDaysType
  <2>7. PlainLess(p, n)
    <3>1. DateLess(de, d) <=> u < unix_days(d)
      BY <1>1, <2>3, DateOrder
    <3>2. DateLess(d, dn) <=> unix_days(d) < u + 1
      BY <1>1, <2>4, DateOrder
    <3> DEFINE v == unix_days(d)
    <3> HIDE DEF u, v
    <3>3. DateLess(d, dn)
      <4>1. ~(u < v) /\ (DateLess(d, dn) <=> v < u + 1) /\ u \in Int /\ v \in Int
        BY <2>3, <2>6, <3>1, <3>2 DEF v
      <4> QED BY <4>1, SMT
    <3> QED BY <2>2, <3>3 DEF PlainLess, Plain
  <2>8. start_of_unit(n, unit) = n
    <3>1. n.date = dn
      BY <2>2 DEF Plain
    <3> QED BY <1>3, <2>2, <2>3, <3>1 DEF OrNoPlain
  <2>9. PlainShift(e, 1) = n
    <3> DEFINE x == u * day + (day - 1)
    <3>1. Stands(e, x)
      BY <1>4, <2>3, <2>5, MakesPlain DEF day
    <3>2. Stands(n, (u + 1) * day + 0)
      BY <1>4, <2>2, <2>4, MakesPlain DEF day
    <3>3. x \in Int /\ (u + 1) * day + 0 = x + 1
      <4> HIDE DEF u
      <4>1. u * day \in Int /\ (u + 1) * day = u * day + day
        BY <1>1, <2>6, SMT
      <4> QED BY <1>1, <4>1, SMT
    <3> HIDE DEF x, e, n
    <3>4. Stands(n, x + 1)
      BY <3>2, <3>3
    <3> QED BY <3>1, <3>3, <3>4, StepsToNext
  <2>10. ASSUME s # NoPlain
         PROVE  start_of_unit(e, unit) = s /\ end_of_unit(s, unit) = e
    <3>1. ds # NoDate /\ s = Plain(ds, 0)
      BY <1>6, <2>10
    <3>2. DateStartOf(de, unit) = ds /\ DateEndOf(ds, unit) = de
      BY <1>5, <2>2, <3>1 DEF DateTiles
    <3>3. e.date = de /\ s.date = ds
      BY <2>5, <3>1 DEF Plain
    <3> QED BY <1>3, <2>2, <2>5, <3>1, <3>2, <3>3 DEF OrNoPlain
  <2> QED BY <2>7, <2>8, <2>9, <2>10
<1> QED BY <1>6, <1>7, <1>8 DEF UnitTiles, s, e, n

\* Every unit of a datetime tiles the time line.
LEMMA EveryUnitTiles ==
    ASSUME NEW p, IsPlain(p), NEW unit \in DateTimeBoundaryUnit
    PROVE  UnitTiles(p, unit)
<1>1. unit \in FixedUnits \/ unit \in DateBoundaryUnit
  BY DEF DateTimeBoundaryUnit, FixedUnits
<1> QED BY <1>1, FixedUnitTiles, CalendarUnitTiles

-----------------------------------------------------------------------------
(***************************************************************************)
(* What the calls return.                                                  *)
(***************************************************************************)

\* The number of the last date.
LEMMA LastNumber ==
    /\ unix_days(DateMax) = UnixDaysMax /\ UnixDaysMin \in Int /\ UnixDaysMax \in Int
    /\ \A n \in UnixDays : n \in Int /\ UnixDaysMin <= n /\ n <= UnixDaysMax
    /\ \A n \in Int : UnixDaysMin <= n /\ n <= UnixDaysMax => n \in UnixDays
<1>1. UnixDaysMin \in Int /\ UnixDaysMax \in Int
  BY SMT DEF UnixDaysMin, UnixDaysMax
<1>2. unix_days(DateMax) = UnixDaysMax
  BY SMT DEF unix_days, DateMax, Date, days_before, days_before_month, DaysBeforeMonth, Truth, is_leap,
             UnixDaysMin, UnixDaysMax
<1>3. /\ \A n \in UnixDays : n \in Int /\ UnixDaysMin <= n /\ n <= UnixDaysMax
      /\ \A n \in Int : UnixDaysMin <= n /\ n <= UnixDaysMax => n \in UnixDays
  BY <1>1, SMT DEF UnixDays
<1> QED BY <1>1, <1>2, <1>3

\* Differences of datetimes and of instants are far from the ends of the range of a TimeDelta.
LEMMA DifferencesFit ==
    ASSUME NEW n \in Instants, NEW m \in Instants
    PROVE  n - m \in Int /\ 2 - TimeDeltaMax <= n - m /\ n - m <= TimeDeltaMax - 2
<1> DEFINE h == NanosPerDay
           lo == UnixDaysMin
           hi == UnixDaysMax
<1>1. lo \in Int /\ hi \in Int /\ h \in Nat \ {0} /\ n \in Int /\ m \in Int
  BY LastNumber, ClockFacts, InstantIsInt
<1>2. lo * h <= n /\ n < (hi + 1) * h /\ lo * h <= m /\ m < (hi + 1) * h
  <2> DEFINE k == NanosPerSecond
             e == SecondsPerDay
  <2>1. k \in Nat \ {0} /\ e \in Nat \ {0} /\ h = e * k
    BY ClockFacts
  <2>2. EpochMin * k <= n /\ n < (EpochMax + 1) * k /\ EpochMin * k <= m /\ m < (EpochMax + 1) * k
    <3> DEFINE x == EpochMin * k
               y == (EpochMax + 1) * k
    <3>1. x \in Int /\ y \in Int
      <4>1. EpochMin \in Int /\ EpochMax \in Int
        BY EpochFacts
      <4> HIDE DEF k
      <4> QED BY <2>1, <4>1, SMT
    <3>2. Instants = x .. y - 1
      BY DEF Instants, NoInstant
    <3> HIDE DEF x, y
    <3>3. x <= n /\ n < y /\ x <= m /\ m < y
      BY <1>1, <3>1, <3>2, SMT
    <3> QED BY <3>3 DEF x, y
  <2> HIDE DEF h, k, e, lo, hi
  <2>3. (lo * e) * k = lo * (e * k) /\ (((hi + 1) * e - 1) + 1) * k = (hi + 1) * (e * k)
    BY <1>1, <2>1, SMT
  <2>4. EpochMin = lo * e /\ EpochMax = (hi + 1) * e - 1
    BY DEF EpochMin, EpochMax, lo, hi, e
  <2> QED BY <2>1, <2>2, <2>3, <2>4
<1>3. hi + 1 - lo <= 9999 * 366 - 2
  BY SMT DEF UnixDaysMin, UnixDaysMax
<1>4. TimeDeltaMax = 9999 * 366 * h
  BY DEF TimeDeltaMax
<1> HIDE DEF h, lo, hi
<1>5. lo * h \in Int /\ (hi + 1) * h \in Int /\ (hi + 1) * h - lo * h = (hi + 1 - lo) * h
  BY <1>1, SMT
<1>6. (hi + 1 - lo) * h <= (9999 * 366 - 2) * h
  <2> DEFINE w == hi + 1 - lo
             z == 9999 * 366 - 2
  <2>1. w \in Int /\ z \in Int /\ w <= z
    BY <1>1, <1>3, SMT
  <2> HIDE DEF w, z
  <2>2. w * h <= z * h
    BY <1>1, <2>1, SMT
  <2> QED BY <2>2 DEF w, z
<1>7. (9999 * 366 - 2) * h = 9999 * 366 * h - 2 * h /\ 2 * h >= 2
  BY <1>1, SMT
<1> DEFINE x == lo * h
           y == (hi + 1) * h
           t == 9999 * 366 * h
           v == (9999 * 366 - 2) * h
<1>8. x \in Int /\ y \in Int /\ t \in Int /\ v \in Int
  BY <1>1, SMT
<1>9. y - x <= v /\ v = t - 2 * h /\ x <= n /\ n < y /\ x <= m /\ m < y
  BY <1>2, <1>5, <1>6, <1>7
<1> HIDE DEF x, y, t, v
<1>10. n - m \in Int /\ 2 - t <= n - m /\ n - m <= t - 2
  BY <1>1, <1>7, <1>8, <1>9, SMT
<1> QED BY <1>4, <1>10 DEF t

\* The range of time deltas and the error are numbers.
LEMMA NanosTypes ==
    /\ TimeDeltaMax \in Nat /\ NoNanos \in Int /\ Panics \in Int /\ InvalidText \in Int
    /\ TimeDeltas \subseteq Int
<1>1. TimeDeltaMax \in Nat
  BY ClockFacts, SMT DEF TimeDeltaMax
<1>2. NoNanos \in Int
  BY <1>1, ClockFacts, SMT DEF NoNanos
<1>3. Panics \in Int /\ InvalidText \in Int
  BY <1>2, SMT DEF Panics, InvalidText
<1>4. TimeDeltas \subseteq Int
  BY <1>1, SMT DEF TimeDeltas
<1> QED BY <1>1, <1>2, <1>3, <1>4

\* The time deltas that exist: those of the range, and what comes out of rounding and negation.
LEMMA ObjectBounds ==
    /\ NoNanos \in Nat /\ TimeDeltaMax < NoNanos /\ NoNanos = TimeDeltaMax + NanosPerSecond
    /\ TimeDeltas \subseteq TimeDeltaObjects /\ NoNanos \notin TimeDeltaObjects /\ 0 \in TimeDeltas
    /\ TimeDeltaObjects \subseteq Int
    /\ \A n \in Int : n \in TimeDeltaObjects <=> -NoNanos < n /\ n < NoNanos
    /\ \A n \in Int : n \in TimeDeltas <=> -TimeDeltaMax <= n /\ n <= TimeDeltaMax
<1> DEFINE t == TimeDeltaMax
           m == NoNanos
<1>1. t \in Nat /\ m = t + NanosPerSecond /\ NanosPerSecond \in Nat \ {0}
  BY NanosTypes, ClockFacts DEF NoNanos
<1>2. TimeDeltas = -t .. t /\ TimeDeltaObjects = 1 - m .. m - 1
  BY DEF TimeDeltas, TimeDeltaObjects
<1> HIDE DEF t, m
<1>3. m \in Nat /\ t < m /\ 1 - m \in Int /\ m - 1 \in Int /\ -t \in Int
  BY <1>1, SMT
<1>4. -t .. t \subseteq 1 - m .. m - 1 /\ m \notin 1 - m .. m - 1 /\ 0 \in -t .. t /\ 1 - m .. m - 1 \subseteq Int
  BY <1>1, <1>3, SMT
<1>5. \A n \in Int : n \in 1 - m .. m - 1 <=> -m < n /\ n < m
  BY <1>3, SMT
<1>6. \A n \in Int : n \in -t .. t <=> -t <= n /\ n <= t
  BY <1>1, <1>3, SMT
<1> QED BY <1>1, <1>2, <1>3, <1>4, <1>5, <1>6 DEF t, m

\* The time deltas that exist, or the error.
TimeDeltaResults == TimeDeltaObjects \cup {NoNanos}

\* What is checked is a number of the range, or the error.
LEMMA FromNanosType ==
    ASSUME NEW x
    PROVE  from_nanos(x) \in TimeDeltas \cup {NoNanos} /\ from_nanos(x) \in TimeDeltaResults /\ from_nanos(x) \in Int
  BY NanosTypes, ObjectBounds DEF from_nanos, TimeDeltaResults

\* The negative of a time delta exists.
LEMMA NegateType ==
    ASSUME NEW n \in Int
    PROVE  /\ TimeDeltaAbs(n) \in Int /\ \A b \in BOOLEAN : NegateIf(n, b) \in Int
           /\ n \in TimeDeltaObjects => /\ -n \in TimeDeltaObjects /\ TimeDeltaAbs(n) \in TimeDeltaObjects
                                        /\ \A b \in BOOLEAN : NegateIf(n, b) \in TimeDeltaObjects
<1>1. -n \in Int
  BY SMT
<1>2. n \in TimeDeltaObjects => -n \in TimeDeltaObjects
  <2>1. -NoNanos < n /\ n < NoNanos => -NoNanos < -n /\ -n < NoNanos
    <3>1. NoNanos \in Int
      BY NanosTypes
    <3> QED BY <3>1, SMT
  <2> QED BY <1>1, <2>1, ObjectBounds
<1> QED BY <1>1, <1>2 DEF TimeDeltaAbs, NegateIf

\* The truncating quotient and remainder of the code: the remainder has the sign of the dividend.
LEMMA QuotType ==
    ASSUME NEW a \in Int, NEW b \in Int \ {0}
    PROVE  /\ Quot(a, b) \in Int /\ Distance(0, Quot(a, b)) <= Distance(0, a)
           /\ Rem(a, b) \in Int /\ Distance(0, Rem(a, b)) < Distance(0, b)
           /\ a >= 0 => Rem(a, b) >= 0
           /\ a <= 0 => Rem(a, b) <= 0
<1> DEFINE x == Distance(0, a)
           y == Distance(0, b)
           q == x \div y
           r == x % y
           z == Quot(a, b)
<1>1. x \in Nat /\ y \in Nat \ {0} /\ (a >= 0 => a = x) /\ (a < 0 => a = -x) /\ (b > 0 => b = y) /\ (b < 0 => b = -y)
  BY SMT DEF Distance
<1>2. z = IF (a < 0) = (b < 0) THEN q ELSE -q
  BY DEF Quot
<1>3. Rem(a, b) = a - z * b
  BY DEF Rem
<1> HIDE DEF x, y, z
<1>4. q \in Int /\ r \in Int /\ x = y * q + r /\ 0 <= r /\ r < y
  BY <1>1, DivSplit, SMT
<1> HIDE DEF q, r
<1> DEFINE w == y * q
<1>5. w \in Int /\ (q <= -1 => w <= -y) /\ (q >= 0 => q <= w)
  BY <1>1, <1>4, SMT
<1>6. 0 <= q /\ q <= x
  <2> HIDE DEF w
  <2> QED BY <1>1, <1>4, <1>5, SMT DEF w
<1>7. z \in Int /\ Distance(0, z) = q
  BY <1>2, <1>4, <1>6, SMT DEF Distance
<1>8. z * b \in Int /\ z * b = IF a < 0 THEN -w ELSE w
  <2>1. CASE b > 0
    <3>1. z = (IF a < 0 THEN -q ELSE q) /\ b = y
      BY <1>1, <1>2, <2>1, SMT
    <3> QED BY <1>1, <1>4, <3>1, SMT
  <2>2. CASE b < 0
    <3>1. z = (IF a < 0 THEN q ELSE -q) /\ b = -y
      BY <1>1, <1>2, <2>2, SMT
    <3>2. q * (-y) = -w /\ (-q) * (-y) = w
      BY <1>1, <1>4, SMT
    <3> QED BY <1>5, <3>1, <3>2, SMT
  <2> QED BY <2>1, <2>2, SMT
<1> DEFINE p == z * b
<1> HIDE DEF p, w
<1>9. Rem(a, b) = IF a < 0 THEN -r ELSE r
  <2>1. p = IF a < 0 THEN -w ELSE w
    BY <1>8 DEF p
  <2>2. Rem(a, b) = a - p /\ x = w + r
    BY <1>3, <1>4 DEF p, w
  <2> QED BY <1>1, <1>4, <1>5, <2>1, <2>2, SMT
<1>10. /\ Rem(a, b) \in Int /\ Distance(0, Rem(a, b)) = r
       /\ a >= 0 => Rem(a, b) >= 0
       /\ a <= 0 => Rem(a, b) <= 0
  <2>1. a = 0 => r = 0
    <3>1. a = 0 => x = 0
      BY <1>1, SMT
    <3> QED BY <1>4, <1>5, <1>6, <3>1, SMT DEF w
  <2> QED BY <1>4, <1>9, <2>1, SMT DEF Distance
<1> QED BY <1>4, <1>6, <1>7, <1>10 DEF x, y, z

\* A TimeDelta divided by a number is not longer than it was, and a remainder is shorter than
\* the divisor: both exist.
LEMMA DivisionType ==
    ASSUME NEW a \in Int, NEW b \in Int \ {0}
    PROVE  /\ TrueDiv(a, b) \in Int /\ mod(a, b) \in Int
           /\ a \in TimeDeltaObjects => TrueDiv(a, b) \in TimeDeltaObjects
           /\ b \in TimeDeltaObjects => mod(a, b) \in TimeDeltaObjects
<1> DEFINE x == Distance(0, a)
           y == Distance(0, b)
           q == (2 * x + y) \div (2 * y)
           z == Quot(a, b)
           r == Rem(a, b)
<1>0. \A n \in Int, m \in Int : m \in TimeDeltaObjects /\ Distance(0, n) <= Distance(0, m) => n \in TimeDeltaObjects
  <2> SUFFICES ASSUME NEW n \in Int, NEW m \in Int, m \in TimeDeltaObjects, Distance(0, n) <= Distance(0, m)
               PROVE  n \in TimeDeltaObjects
    OBVIOUS
  <2>1. -NoNanos < m /\ m < NoNanos /\ NoNanos \in Int
    BY ObjectBounds, NanosTypes
  <2>2. -NoNanos < n /\ n < NoNanos
    BY <2>1, SMT DEF Distance
  <2> QED BY <2>2, ObjectBounds
<1>1. /\ z \in Int /\ Distance(0, z) <= x /\ r \in Int /\ Distance(0, r) < y
      /\ (a >= 0 => r >= 0) /\ (a <= 0 => r <= 0)
  BY QuotType
<1>2. x \in Nat /\ y \in Nat \ {0} /\ 2 * x + y \in Int /\ 2 * y \in Nat \ {0}
  BY SMT DEF Distance
<1>3. q \in Int /\ 0 <= q /\ q <= x
  <2> DEFINE u == 2 * x + y
             v == 2 * y
  <2>1. 0 * v <= u /\ u <= (x + 1) * v - 1
    <3> HIDE DEF x, y
    <3>1. x * y \in Int /\ x <= x * y /\ (x + 1) * (2 * y) = 2 * (x * y) + 2 * y
      BY <1>2, SMT
    <3> DEFINE w == x * y
    <3> HIDE DEF w
    <3>2. w \in Int /\ x <= w /\ (x + 1) * (2 * y) = 2 * w + 2 * y
      BY <3>1 DEF w
    <3> QED BY <1>2, <3>2, SMT
  <2>2. u \in Int /\ v \in Nat \ {0} /\ 0 \in Int /\ x \in Int
    BY <1>2, SMT
  <2> HIDE DEF u, v, x
  <2>3. 0 * v \in Int /\ (x + 1) * v - 1 \in Int
    BY <2>2, SMT
  <2>4. u \in 0 * v .. (x + 1) * v - 1
    BY <2>1, <2>2, <2>3, SMT
  <2>5. u \div v \in 0 .. x
    BY <2>2, <2>4, QuotientIn
  <2>6. q = u \div v
    BY DEF u, v
  <2> QED BY <2>2, <2>5, <2>6, SMT
<1>4. TrueDiv(a, b) \in {z, q, -q}
  BY DEF TrueDiv
<1> HIDE DEF x, y, q, z, r
<1>5. TrueDiv(a, b) \in Int /\ Distance(0, TrueDiv(a, b)) <= x
  BY <1>1, <1>2, <1>3, <1>4, SMT DEF Distance
<1>6. mod(a, b) = r + (IF Signum(a) # Signum(b) /\ r # 0 THEN b ELSE 0)
  BY DEF mod, r
<1>7. mod(a, b) \in Int /\ Distance(0, mod(a, b)) <= y
  <2>1. y = Distance(0, b)
    BY DEF y
  <2>2. CASE Signum(a) # Signum(b) /\ r # 0
    <3>1. mod(a, b) = r + b
      BY <1>6, <2>2
    <3>2. (r > 0 /\ b < 0) \/ (r < 0 /\ b > 0)
      BY <1>1, <2>2, SMT DEF Signum
    <3> QED BY <1>1, <2>1, <3>1, <3>2, SMT DEF Distance
  <2>3. CASE ~(Signum(a) # Signum(b) /\ r # 0)
    <3>1. mod(a, b) = r + 0
      BY <1>6, <2>3
    <3> QED BY <1>1, <2>1, <3>1, SMT DEF Distance
  <2> QED BY <2>2, <2>3
<1> QED BY <1>0, <1>5, <1>7 DEF x, y

\* A number rounded to a multiple is a number.
LEMMA RoundType ==
    ASSUME NEW n \in Int, NEW inc \in Nat \ {0}, NEW mode
    PROVE  RoundMultiple(n, inc, mode) \in Int
<1> DEFINE q == n \div inc
           up == IF n % inc >= Threshold(q, inc, mode) THEN 1 ELSE 0
<1>1. q \in Int /\ up \in {0, 1}
  BY DivSplit
<1>2. RoundMultiple(n, inc, mode) = (q + up) * inc
  BY DEF RoundMultiple
<1> HIDE DEF q, up
<1> QED BY <1>1, <1>2, SMT

\* What rounding checks are the whole seconds: the result exists.
LEMMA SecondsFit ==
    ASSUME NEW r \in Int, Distance(0, secs(r)) <= secs(TimeDeltaMax)
    PROVE  r \in TimeDeltaObjects
<1> DEFINE k == NanosPerSecond
           t == TimeDeltaMax
           m == secs(t)
           s == secs(r)
<1>1. k \in Nat \ {0} /\ t \in Nat /\ NoNanos = t + k
  BY NanosTypes, ClockFacts, ObjectBounds
<1>2. m \in Int /\ t = k * m + subsec(t) /\ subsec(t) \in Nat
  BY <1>1, SecsSplit
<1>3. s \in Int /\ r = k * s + subsec(r) /\ subsec(r) \in Nat /\ subsec(r) < k
  BY SecsSplit
<1>4. -m <= s /\ s <= m
  <2>1. Distance(0, s) <= m
    OBVIOUS
  <2> HIDE DEF m, s
  <2> QED BY <1>2, <1>3, <2>1, SMT DEF Distance
<1> HIDE DEF k, t, m, s
<1>5. k * s <= k * m /\ -(k * m) <= k * s /\ k * s \in Int /\ k * m \in Int
  <2>1. m - s \in Nat /\ m + s \in Nat
    BY <1>2, <1>3, <1>4, SMT
  <2>2. k * (m - s) >= 0 /\ k * (m + s) >= 0
    BY <1>1, <2>1, SMT
  <2>3. k * (m - s) = k * m - k * s /\ k * (m + s) = k * m + k * s /\ k * s \in Int /\ k * m \in Int
    BY <1>1, <1>2, <1>3, SMT
  <2> DEFINE u == k * s
             v == k * m
  <2> HIDE DEF u, v
  <2>4. v - u >= 0 /\ v + u >= 0 /\ u \in Int /\ v \in Int
    BY <2>2, <2>3 DEF u, v
  <2> QED BY <2>4, SMT DEF u, v
<1> DEFINE u == k * s
           v == k * m
<1> HIDE DEF u, v
<1>6. u <= v /\ -v <= u /\ u \in Int /\ v \in Int /\ t = v + subsec(t) /\ r = u + subsec(r)
  BY <1>2, <1>3, <1>5 DEF u, v
<1>7. -NoNanos < r /\ r < NoNanos
  BY <1>1, <1>2, <1>3, <1>6, SMT
<1> QED BY <1>7, ObjectBounds

\* A TimeDelta that is rounded exists, unless the result is out of range.
LEMMA TimeDeltaRoundType ==
    ASSUME NEW n \in Int, NEW inc \in Nat \ {0}, NEW mode
    PROVE  /\ TimeDeltaRound(n, inc, mode) \in Int
           /\ TimeDeltaRound(n, inc, mode) \in TimeDeltaResults \cup {Panics}
<1>1. \A m : round_u128(n, inc, m) \in TimeDeltaResults
  BY RoundType, SecondsFit DEF round_u128, TimeDeltaResults
<1>2. ASSUME NEW m
      PROVE  RoundSubsec(n, inc, m) \in TimeDeltaResults \cup {Panics}
  <2> DEFINE a == secs(n)
             k == NanosPerSecond
             r == RoundMultiple(subsec(n), inc, m)
  <2>1. a \in Int /\ subsec(n) \in Int /\ k \in Int
    BY SecsSplit, ClockFacts
  <2>2. r \in Int
    BY <2>1, RoundType
  <2>3. RoundSubsec(n, inc, m) = IF Distance(0, secs(a * k + r)) <= secs(TimeDeltaMax) THEN a * k + r ELSE Panics
    BY DEF RoundSubsec
  <2> HIDE DEF a, k, r
  <2>4. a * k + r \in Int
    BY <2>1, <2>2, SMT
  <2> QED BY <2>3, <2>4, SecondsFit DEF TimeDeltaResults
<1>3. TimeDeltaRound(n, inc, mode) \in TimeDeltaResults \cup {Panics}
  BY <1>1, <1>2 DEF TimeDeltaRound
<1> QED BY <1>3, NanosTypes, ObjectBounds DEF TimeDeltaResults

\* The negative of a delta is a delta.
LEMMA NegatedDeltaType ==
    ASSUME NEW a \in Deltas3
    PROVE  DeltaNeg(a) \in Deltas3
<1>1. a.months \in Int /\ a.days \in Int /\ a.nanos \in Int
  BY DEF Deltas3
<1>2. -a.months \in Int /\ -a.days \in Int /\ -a.nanos \in Int
  BY <1>1, SMT
<1> QED BY <1>2 DEF DeltaNeg, Deltas3, DateTimeDelta

\* The months and days of a delta are limited alike in both directions.
LEMMA DeltaBounds ==
    /\ \A m \in DeltaMonths : m \in Int /\ -m \in DeltaMonths /\ Distance(0, m) \in DeltaMonths
    /\ \A d \in DeltaDays : d \in Int /\ -d \in DeltaDays /\ Distance(0, d) \in DeltaDays
    /\ 0 \in DeltaMonths /\ 0 \in DeltaDays
<1>1. ASSUME NEW k \in Nat, NEW m \in -k .. k
      PROVE  m \in Int /\ -m \in -k .. k /\ Distance(0, m) \in -k .. k /\ 0 \in -k .. k
  BY SMT DEF Distance
<1> DEFINE months == 9999 * 12
           days == UnixDaysMax - UnixDaysMin + 1
<1>2. months \in Nat /\ DeltaMonths = -months .. months
  BY SMT DEF DeltaMonths
<1>3. days \in Nat /\ DeltaDays = -days .. days
  <2>1. days \in Nat /\ UnixDaysMin - UnixDaysMax - 1 = -days
    BY SMT DEF UnixDaysMin, UnixDaysMax
  <2> QED BY <2>1 DEF DeltaDays
<1> HIDE DEF months, days
<1>4. 0 \in DeltaMonths /\ 0 \in DeltaDays
  BY <1>2, <1>3, SMT
<1> QED BY <1>1, <1>2, <1>3, <1>4

\* A delta that exists, or an error.
MaybeDelta(cls, d) == IsDelta(d) => d \in DeltaObjects(cls)

\* A delta exists if its parts are in range, its months and days have one sign, and a date
\* delta has no time.
LEMMA MakesDelta ==
    ASSUME NEW m \in DeltaMonths, NEW d \in DeltaDays, NEW n \in TimeDeltaObjects, NEW cls,
           cls = "date_delta" => n = 0
    PROVE  /\ same_sign(m, d) => DateTimeDelta(m, d, n) \in DeltaObjects(cls)
           /\ MaybeDelta(cls, NewDateTimeDelta(m, d, n))
           /\ MaybeDelta(cls, TooBig) /\ MaybeDelta(cls, MixedSign)
<1>1. same_sign(m, d) => DateTimeDelta(m, d, n) \in DeltaObjects(cls)
  BY DEF DeltaObjects, DateTimeDelta
<1>2. SameSign3(m, d, n) => same_sign(m, d)
  BY DEF SameSign3, same_sign
<1>3. MaybeDelta(cls, TooBig) /\ MaybeDelta(cls, MixedSign)
  BY DEF MaybeDelta, IsDelta
<1> QED BY <1>1, <1>2, <1>3 DEF NewDateTimeDelta, MaybeDelta

\* What a delta that exists consists of.
LEMMA DeltaHolds ==
    ASSUME NEW cls, NEW a \in DeltaObjects(cls)
    PROVE  /\ a \in Deltas3 /\ a.months \in DeltaMonths /\ a.days \in DeltaDays /\ a.nanos \in TimeDeltaObjects
           /\ a.months \in Int /\ a.days \in Int /\ a.nanos \in Int
           /\ same_sign(a.months, a.days) /\ (cls = "date_delta" => a.nanos = 0)
           /\ DateTimeDelta(a.months, a.days, a.nanos) = a
<1>1. /\ a \in [months : DeltaMonths, days : DeltaDays, nanos : TimeDeltaObjects]
      /\ same_sign(a.months, a.days) /\ (cls = "date_delta" => a.nanos = 0)
  BY DEF DeltaObjects
<1>2. DeltaMonths \subseteq Int /\ DeltaDays \subseteq Int /\ TimeDeltaObjects \subseteq Int
  BY DeltasAreInt, ObjectBounds
<1>3. a.months \in DeltaMonths /\ a.days \in DeltaDays /\ a.nanos \in TimeDeltaObjects
      /\ a = [months |-> a.months, days |-> a.days, nanos |-> a.nanos]
  BY <1>1
<1> QED BY <1>1, <1>2, <1>3 DEF Deltas3, DateTimeDelta

\* Negating zero gives zero.
LEMMA MinusZero ==
    ASSUME NEW n \in Int, n = 0
    PROVE  -n = 0
<1> DEFINE m == -n
<1>1. m \in Int /\ m >= 0 /\ m <= 0
  BY SMT
<1> HIDE DEF m
<1>2. m = 0
  BY <1>1, SMT
<1> QED BY <1>2 DEF m

\* The operations on deltas return deltas that exist, or an error.
LEMMA DeltasFit ==
    ASSUME NEW cls, NEW a \in DeltaObjects(cls), NEW b \in DeltaObjects(cls), NEW f \in Int
    PROVE  /\ DeltaNeg(a) \in DeltaObjects(cls) /\ DeltaAbs(a) \in DeltaObjects(cls)
           /\ MaybeDelta(cls, DeltaAdd(a, b)) /\ MaybeDelta(cls, DeltaMul(a, f))
           /\ MaybeDelta(cls, DeltaUnpickle(a))
<1> DEFINE m == a.months
           d == a.days
           n == a.nanos
<1>1. /\ m \in DeltaMonths /\ d \in DeltaDays /\ n \in TimeDeltaObjects /\ m \in Int /\ d \in Int /\ n \in Int
      /\ same_sign(m, d) /\ (cls = "date_delta" => n = 0) /\ a = DateTimeDelta(m, d, n)
  BY DeltaHolds
<1>2. /\ b.months \in Int /\ b.days \in Int /\ b.nanos \in Int /\ (cls = "date_delta" => b.nanos = 0)
  BY DeltaHolds
<1>3. MaybeDelta(cls, TooBig) /\ MaybeDelta(cls, MixedSign)
  BY DEF MaybeDelta, IsDelta
<1> HIDE DEF m, d, n
<1>4. /\ -m \in DeltaMonths /\ -d \in DeltaDays /\ -n \in TimeDeltaObjects
      /\ same_sign(-m, -d) /\ (cls = "date_delta" => -n = 0)
  <2>1. same_sign(-m, -d)
    BY <1>1, SMT DEF same_sign
  <2> QED BY <1>1, <2>1, MinusZero, DeltaBounds, NegateType
<1>5. DeltaNeg(a) \in DeltaObjects(cls)
  BY <1>4, MakesDelta DEF DeltaNeg, m, d, n
<1>6. DeltaAbs(a) \in DeltaObjects(cls)
  <2>1. Distance(0, m) \in DeltaMonths /\ Distance(0, d) \in DeltaDays /\ TimeDeltaAbs(n) \in TimeDeltaObjects
    BY <1>1, DeltaBounds, NegateType
  <2>2. same_sign(Distance(0, m), Distance(0, d))
    BY <1>1, SMT DEF same_sign, Distance
  <2>3. n = 0 => TimeDeltaAbs(n) = 0
    <3>1. n = 0 => -n = 0
      BY <1>1, MinusZero
    <3> QED BY <3>1 DEF TimeDeltaAbs
  <2>4. DateTimeDelta(Distance(0, m), Distance(0, d), TimeDeltaAbs(n)) \in DeltaObjects(cls)
    BY <1>1, <2>1, <2>2, <2>3, MakesDelta
  <2> QED BY <2>4 DEF DeltaAbs, m, d, n
<1>7. MaybeDelta(cls, DeltaAdd(a, b))
  <2> DEFINE x == a.months + b.months
             y == a.days + b.days
             z == a.nanos + b.nanos
  <2>1. cls = "date_delta" => z = 0
    BY <1>1, <1>2, SMT DEF n
  <2>2. TimeDeltaAdd(a.nanos, b.nanos) # NoNanos => z \in TimeDeltaObjects
    BY ObjectBounds DEF TimeDeltaAdd, from_nanos
  <2>3. DeltaAdd(a, b) \in {TooBig, MixedSign}
        \/ (x \in DeltaMonths /\ y \in DeltaDays /\ z \in TimeDeltaObjects /\ DeltaAdd(a, b) = NewDateTimeDelta(x, y, z))
    BY <2>2 DEF DeltaAdd
  <2> HIDE DEF x, y, z
  <2> QED BY <1>3, <2>1, <2>3, MakesDelta
<1>8. MaybeDelta(cls, DeltaMul(a, f))
  <2>1. DeltaMul(a, f) = TooBig
        \/ (m * f \in DeltaMonths /\ d * f \in DeltaDays /\ n * f \in TimeDeltas
            /\ DeltaMul(a, f) = DateTimeDelta(m * f, d * f, n * f))
    BY DEF DeltaMul, m, d, n
  <2>2. same_sign(m * f, d * f)
    <3>1. /\ m >= 0 /\ f >= 0 => m * f >= 0
          /\ m >= 0 /\ f <= 0 => m * f <= 0
          /\ m <= 0 /\ f >= 0 => m * f <= 0
          /\ m <= 0 /\ f <= 0 => m * f >= 0
      BY <1>1, SMT
    <3>2. /\ d >= 0 /\ f >= 0 => d * f >= 0
          /\ d >= 0 /\ f <= 0 => d * f <= 0
          /\ d <= 0 /\ f >= 0 => d * f <= 0
          /\ d <= 0 /\ f <= 0 => d * f >= 0
      BY <1>1, SMT
    <3>3. f >= 0 \/ f <= 0
      BY SMT
    <3> QED BY <1>1, <3>1, <3>2, <3>3 DEF same_sign
  <2>3. cls = "date_delta" => n * f = 0
    <3>1. 0 * f = 0
      BY SMT
    <3> QED BY <1>1, <3>1
  <2> QED BY <1>3, <2>1, <2>2, <2>3, MakesDelta, ObjectBounds DEF MaybeDelta
<1>9. MaybeDelta(cls, DeltaUnpickle(a))
  BY <1>1, <1>3, MakesDelta DEF DeltaUnpickle, m, d, n
<1> QED BY <1>5, <1>6, <1>7, <1>8, <1>9

\* Every set of natural numbers has a smallest one.
LEMMA SmallestIn ==
    ASSUME NEW S, S \subseteq Nat, S # {}
    PROVE  \E j \in S : \A k \in S : j <= k
<1>1. PICK r \in S : \A y \in S : ~(<<y, r>> \in OpToRel(<, Nat))
  BY WFMin, NatLessThanWellFounded, Zenon
<1>2. \A y \in S : ~(y < r)
  BY <1>1 DEF OpToRel
<1> QED
  BY <1>2

\* The sets of positions that a fold over n elements is defined on.
Upto(n) == SUBSET (1 .. n)

\* What FoldLeft takes f to be, for an operation given as a function.
Folds(f, n, base, seq, G) ==
    f = [s \in Upto(n) |-> IF s = {} THEN base ELSE G[<<f[s \ {Max(s)}], seq[Max(s)]>>]]

\* The last position of a set, and the positions before it.
LEMMA MaxOf ==
    ASSUME NEW n \in Nat, NEW s \in Upto(n), s # {}
    PROVE  Max(s) \in s /\ s \ {Max(s)} \in Upto(Max(s) - 1) /\ Max(s) \in 1 .. n
<1> DEFINE gaps == {n - j : j \in s}
<1>0. \A j \in s : j \in Nat /\ n - j \in Nat /\ j \in 1 .. n
  BY DEF Upto
<1>1. gaps \subseteq Nat /\ gaps # {}
  BY <1>0
<1>2. PICK d \in gaps : \A k \in gaps : d <= k
  BY <1>1, SmallestIn
<1>3. PICK m \in s : d = n - m
  BY <1>2
<1>4. ASSUME NEW k \in s PROVE m >= k
  <2>1. n - m <= n - k
    BY <1>2, <1>3
  <2> QED BY <2>1, <1>0
<1>5. Max(s) \in s /\ \A k \in s : Max(s) >= k
  BY <1>4 DEF Max
<1> HIDE DEF gaps
<1> DEFINE t == Max(s)
<1>6. t \in s /\ t \in 1 .. n /\ t \in Int
  BY <1>0, <1>5
<1>7. ASSUME NEW k \in s \ {t} PROVE k \in 1 .. t - 1
  BY <1>0, <1>5, <1>6
<1> QED BY <1>6, <1>7 DEF Upto

\* There is a function that a fold can be: of the lengths where there is none, the smallest
\* would have one, built from that of the length before.
LEMMA FoldExists ==
    ASSUME NEW T, NEW E, NEW G \in [T \X E -> T], NEW base \in T, NEW seq \in Seq(E), NEW n \in 0 .. Len(seq)
    PROVE  \E f \in [Upto(n) -> T] : Folds(f, n, base, seq, G)
<1> DEFINE Good(k) == \E f \in [Upto(k) -> T] : Folds(f, k, base, seq, G)
           Bad == {k \in 0 .. Len(seq) : ~Good(k)}
<1> SUFFICES Bad = {}
  OBVIOUS
<1> SUFFICES ASSUME Bad # {} PROVE FALSE
  OBVIOUS
<1>0. Len(seq) \in Nat /\ \A i \in 1 .. Len(seq) : seq[i] \in E
  OBVIOUS
<1>1. PICK m \in Bad : \A k \in Bad : m <= k
  <2>1. Bad \subseteq Nat
    BY <1>0
  <2> HIDE DEF Bad
  <2> QED BY <2>1, SmallestIn
<1>2. m \in 0 .. Len(seq) /\ ~Good(m)
  OBVIOUS
<1>3. CASE m = 0
  <2> DEFINE f == [s \in Upto(0) |-> base]
  <2>1. Upto(0) = {{}}
    BY SMT DEF Upto
  <2>2. f = [s \in Upto(0) |-> IF s = {} THEN base ELSE G[<<f[s \ {Max(s)}], seq[Max(s)]>>]]
    BY <2>1
  <2>3. f \in [Upto(0) -> T]
    OBVIOUS
  <2>4. Good(0)
    BY <2>2, <2>3 DEF Folds
  <2> QED BY <1>2, <1>3, <2>4
<1>4. CASE m # 0
  <2> DEFINE p == m - 1
  <2>1. p \in 0 .. Len(seq) /\ p + 1 = m /\ p < m /\ m \in 1 .. Len(seq) /\ p \in Nat /\ m \in Nat
    BY <1>0, <1>2, <1>4
  <2>2. Good(p)
    BY <1>1, <2>1
  <2> HIDE DEF p
  <2>3. PICK g \in [Upto(p) -> T] : Folds(g, p, base, seq, G)
    BY <2>2
  <2> DEFINE f == [s \in Upto(m) |-> IF m \in s THEN G[<<g[s \ {m}], seq[m]>>] ELSE g[s]]
  <2>4. \A s \in Upto(m) : s \ {m} \in Upto(p) /\ (m \notin s => s \in Upto(p))
    <3>1. \A k \in 1 .. m : k = m \/ k \in 1 .. p
      BY <2>1
    <3> QED BY <3>1 DEF Upto
  <2>5. f \in [Upto(m) -> T]
    <3> SUFFICES ASSUME NEW s \in Upto(m)
                 PROVE  (IF m \in s THEN G[<<g[s \ {m}], seq[m]>>] ELSE g[s]) \in T
      OBVIOUS
    <3>1. g[s \ {m}] \in T /\ seq[m] \in E
      BY <1>0, <2>1, <2>4
    <3> QED BY <2>4, <3>1
  <2>6. ASSUME NEW s \in Upto(m)
        PROVE  f[s] = IF s = {} THEN base ELSE G[<<f[s \ {Max(s)}], seq[Max(s)]>>]
    <3>1. CASE m \in s
      <4>1. Max(s) = m
        <5>1. Max(s) \in s /\ s \ {Max(s)} \in Upto(Max(s) - 1) /\ Max(s) \in 1 .. m
          BY <2>1, <3>1, MaxOf
        <5>2. m # Max(s) => m \in 1 .. Max(s) - 1
          BY <3>1, <5>1 DEF Upto
        <5> QED BY <2>1, <5>1, <5>2
      <4>2. s \ {m} \in Upto(m) /\ m \notin s \ {m}
        BY DEF Upto
      <4>3. f[s \ {m}] = g[s \ {m}]
        BY <4>2
      <4> QED BY <3>1, <4>1, <4>3
    <3>2. CASE m \notin s
      <4>1. s \in Upto(p) /\ f[s] = g[s]
        BY <2>4, <3>2
      <4>2. g[s] = IF s = {} THEN base ELSE G[<<g[s \ {Max(s)}], seq[Max(s)]>>]
        BY <2>3, <4>1 DEF Folds
      <4>3. s # {} => f[s \ {Max(s)}] = g[s \ {Max(s)}]
        <5>1. s \ {Max(s)} \in Upto(m) /\ m \notin s \ {Max(s)}
          BY <3>2 DEF Upto
        <5> QED BY <5>1
      <4> HIDE DEF f
      <4> QED BY <4>1, <4>2, <4>3
    <3> QED BY <3>1, <3>2
  <2>7. Folds(f, m, base, seq, G)
    <3> DEFINE F(h) == [s \in Upto(m) |-> IF s = {} THEN base ELSE G[<<h[s \ {Max(s)}], seq[Max(s)]>>]]
    <3>1. DOMAIN f = Upto(m) /\ f = [s \in Upto(m) |-> f[s]]
      OBVIOUS
    <3> HIDE DEF f
    <3>2. f = F(f)
      BY <2>6, <3>1
    <3> QED BY <3>2 DEF Folds
  <2>8. Good(m)
    BY <2>5, <2>7
  <2> QED BY <1>2, <2>8
<1> QED BY <1>3, <1>4

\* What the operations of the two folds over keyword arguments return, whatever they are given.
AddKwarg(n, kw) ==
    IF n = NoNanos \/ parse_py_number(kw.unit, kw.value) = NoNanos THEN NoNanos
    ELSE TimeDeltaAdd(n, parse_py_number(kw.unit, kw.value))
AddShift(s, kw) ==
    IF s = NoDateTimeShift \/ ShiftUnit(kw.unit, kw.value) = NoDateTimeShift
    THEN NoDateTimeShift ELSE ShiftAdd(s, ShiftUnit(kw.unit, kw.value))

\* The arguments of a call that takes units.
Units == [unit : Names(ExactUnit), value : Int]

\* What each step of a fold keeps, the fold has.
LEMMA FoldKeeps ==
    ASSUME NEW T, NEW n \in Nat, NEW f, f[{}] \in T,
           \A s \in Upto(n) : s # {} /\ f[s \ {Max(s)}] \in T => f[s] \in T
    PROVE  \A s \in Upto(n) : f[s] \in T
<1> DEFINE Bad == {k \in 0 .. n : \E s \in Upto(k) : f[s] \notin T}
<1> SUFFICES ASSUME Bad # {} PROVE FALSE
  <2>1. n \in 0 .. n
    OBVIOUS
  <2> QED BY <2>1
<1>1. PICK m \in Bad : \A k \in Bad : m <= k
  <2>1. Bad \subseteq Nat
    OBVIOUS
  <2> HIDE DEF Bad
  <2> QED BY <2>1, SmallestIn
<1>2. m \in 0 .. n /\ m \in Nat
  OBVIOUS
<1>3. PICK s \in Upto(m) : f[s] \notin T
  OBVIOUS
<1>4. s # {}
  BY <1>3
<1>5. Max(s) \in s /\ s \ {Max(s)} \in Upto(Max(s) - 1) /\ Max(s) \in 1 .. m
  BY <1>2, <1>4, MaxOf
<1> DEFINE j == Max(s) - 1
<1>6. j \in 0 .. n /\ ~(m <= j)
  <2> DEFINE x == Max(s)
  <2>1. x \in 1 .. m
    BY <1>5
  <2> HIDE DEF x
  <2>2. x - 1 \in 0 .. n /\ ~(m <= x - 1)
    BY <1>2, <2>1, SMT
  <2> QED BY <2>2 DEF x
<1>7. j \notin Bad
  <2> HIDE DEF Bad, j
  <2> QED BY <1>1, <1>6
<1>8. f[s \ {Max(s)}] \in T
  BY <1>5, <1>6, <1>7
<1>9. s \in Upto(n)
  BY <1>2, <1>3, SMT DEF Upto
<1> QED BY <1>3, <1>4, <1>8, <1>9

\* The values of one unit in a text that was read.
AddPart(sum, part, unit) == IF part.unit = unit THEN sum + part.value ELSE sum

\* What a text says of a unit is not negative, and is 0 where there is no text.
LEMMA PartsAddUp ==
    ASSUME NEW units, NEW seq \in Seq([unit : units, value : Nat]), NEW unit
    PROVE  PartValue(seq, unit) \in Nat /\ (seq = <<>> => PartValue(seq, unit) = 0)
<1> DEFINE E == [unit : units, value : Nat]
           n == Len(seq)
           G == [y \in Nat \X E |-> AddPart(y[1], y[2], unit)]
           F(f) == [s \in SUBSET DOMAIN seq |-> IF s = {} THEN 0 ELSE AddPart(f[s \ {Max(s)}], seq[Max(s)], unit)]
           iter == CHOOSE f : f = F(f)
<1>0. seq \in Seq(E)
  OBVIOUS
<1>1. n \in Nat /\ DOMAIN seq = 1 .. n /\ \A i \in 1 .. n : seq[i] \in E
  <2> HIDE DEF E
  <2> QED BY <1>0
<1>2. SUBSET DOMAIN seq = Upto(n)
  BY <1>1 DEF Upto
<1>3. PartValue(seq, unit) = iter[DOMAIN seq]
  BY DEF PartValue, FoldLeft, MapThenFoldSet, AddPart
<1>4. \A x \in Nat, y \in E : AddPart(x, y, unit) \in Nat
  <2>1. ASSUME NEW x \in Nat, NEW y \in E
        PROVE  AddPart(x, y, unit) \in Nat
    <3>1. y.value \in Nat
      OBVIOUS
    <3> QED BY <3>1, SMT DEF AddPart
  <2> QED BY <2>1
<1>5. G \in [Nat \X E -> Nat] /\ \A x \in Nat, y \in E : G[<<x, y>>] = AddPart(x, y, unit)
  <2> HIDE DEF E
  <2> QED BY <1>4
<1> HIDE DEF G, iter, E
<1>6. PICK f \in [Upto(n) -> Nat] : Folds(f, n, 0, seq, G)
  <2>1. 0 \in Nat /\ n \in 0 .. Len(seq) /\ seq \in Seq(E)
    BY <1>1 DEF E
  <2> QED BY <1>5, <2>1, FoldExists
<1>7. f = F(f)
  <2>1. ASSUME NEW s \in Upto(n), s # {}
        PROVE  G[<<f[s \ {Max(s)}], seq[Max(s)]>>] = AddPart(f[s \ {Max(s)}], seq[Max(s)], unit)
    <3>1. Max(s) \in 1 .. n /\ s \ {Max(s)} \in Upto(n)
      BY <1>1, <2>1, MaxOf DEF Upto
    <3>2. f[s \ {Max(s)}] \in Nat /\ seq[Max(s)] \in E
      BY <1>1, <1>6, <3>1
    <3> QED BY <1>5, <3>2
  <2>2. f = [s \in Upto(n) |-> IF s = {} THEN 0 ELSE G[<<f[s \ {Max(s)}], seq[Max(s)]>>]]
    BY <1>6 DEF Folds
  <2> QED BY <1>2, <2>1, <2>2
<1>8. iter = F(iter)
  BY <1>7 DEF iter
<1>9. \A s \in Upto(n) : iter[s] = IF s = {} THEN 0 ELSE AddPart(iter[s \ {Max(s)}], seq[Max(s)], unit)
  BY <1>2, <1>8
<1>10. iter[{}] = 0
  <2>1. {} \in Upto(n)
    BY DEF Upto
  <2> QED BY <1>9, <2>1
<1>11. \A s \in Upto(n) : iter[s] \in Nat
  <2>1. ASSUME NEW s \in Upto(n), s # {}, iter[s \ {Max(s)}] \in Nat
        PROVE  iter[s] \in Nat
    <3>1. seq[Max(s)] \in E
      BY <1>1, <2>1, MaxOf
    <3> QED BY <1>4, <1>9, <2>1, <3>1
  <2>2. iter[{}] \in Nat
    BY <1>10
  <2> HIDE DEF F
  <2> QED BY <1>1, <2>1, <2>2, FoldKeeps
<1>12. seq = <<>> => DOMAIN seq = {}
  OBVIOUS
<1>13. DOMAIN seq \in Upto(n)
  BY <1>1 DEF Upto
<1> QED BY <1>3, <1>10, <1>11, <1>12, <1>13

\* What a text reads back as is a delta that exists, or the error.
LEMMA ParsedDeltaType ==
    ASSUME NEW text, NEW cls, cls = "date_delta" => text.time = <<>>
    PROVE  MaybeDelta(cls, DeltaParse(text))
<1> DEFINE m == MonthsOf(text)
           d == DaysOf(text)
           n == NanosOf(text)
           Fits == /\ text.date \in Seq([unit : Names(CalendarUnit), value : Nat])
                   /\ m \in DeltaMonths /\ d \in DeltaDays /\ n \in TimeDeltas
<1>1. MaybeDelta(cls, TooBig)
  BY DEF MaybeDelta, IsDelta
<1>2. CASE Fits
  <2>1. m \in Nat /\ d \in Nat
    <3>1. \A unit : PartValue(text.date, unit) \in Nat
      BY <1>2, PartsAddUp
    <3> DEFINE y == PartValue(text.date, "years")
               o == PartValue(text.date, "months")
               w == PartValue(text.date, "weeks")
               e == PartValue(text.date, "days")
    <3>2. y \in Nat /\ o \in Nat /\ w \in Nat /\ e \in Nat
      BY <3>1
    <3>3. m = y * 12 + o /\ d = w * 7 + e
      BY DEF MonthsOf, DaysOf
    <3> HIDE DEF y, o, w, e, m, d
    <3> QED BY <3>2, <3>3, SMT
  <2>2. cls = "date_delta" => n = 0
    <3>1. SUFFICES ASSUME text.time = <<>> PROVE n = 0
      OBVIOUS
    <3>2. <<>> \in Seq([unit : {}, value : Nat])
      OBVIOUS
    <3>3. \A unit : PartValue(<<>>, unit) = 0
      BY <3>2, PartsAddUp
    <3>4. n = 0 * NanosPerHour + 0 * NanosPerMinute + 0
      BY <3>1, <3>3 DEF NanosOf
    <3>5. NanosPerHour \in Int /\ NanosPerMinute \in Int
      BY ClockFacts, SMT
    <3> HIDE DEF n
    <3> QED BY <3>4, <3>5, SMT
  <2>3. DateTimeDelta(m, d, n) \in DeltaObjects(cls)
    <3> HIDE DEF m, d, n
    <3>1. same_sign(m, d)
      BY <2>1, SMT DEF same_sign
    <3> QED BY <1>2, <2>2, <3>1, MakesDelta, ObjectBounds
  <2>4. DeltaNeg(DateTimeDelta(m, d, n)) \in DeltaObjects(cls)
    <3> DEFINE x == DateTimeDelta(m, d, n)
    <3>1. x \in DeltaObjects(cls) /\ 0 \in Int
      BY <2>3
    <3> HIDE DEF x
    <3>2. DeltaNeg(x) \in DeltaObjects(cls)
      BY <3>1, DeltasFit
    <3> QED BY <3>2 DEF x
  <2>5. DeltaParse(text) \in {DateTimeDelta(m, d, n), DeltaNeg(DateTimeDelta(m, d, n)), TooBig}
    BY DEF DeltaParse
  <2> HIDE DEF m, d, n
  <2> QED BY <1>1, <2>3, <2>4, <2>5 DEF MaybeDelta
<1>3. CASE ~Fits
  <2>1. DeltaParse(text) = TooBig
    BY <1>3 DEF DeltaParse
  <2> QED BY <1>1, <2>1
<1> QED BY <1>2, <1>3

\* What a text reads back as is a TimeDelta, or one of the errors.
LEMMA ParsedTimeDeltaType ==
    ASSUME NEW text
    PROVE  TimeDeltaParse(text) \notin {NoNanos, InvalidText} => TimeDeltaParse(text) \in TimeDeltaObjects
<1> DEFINE n == NanosOf(text)
<1>1. TimeDeltaParse(text) \in {NoNanos, InvalidText} \/ (n \in TimeDeltas /\ TimeDeltaParse(text) = NegateIf(n, text.neg))
  BY DEF TimeDeltaParse
<1>2. n \in TimeDeltas => n \in Int /\ n \in TimeDeltaObjects /\ -n \in TimeDeltaObjects
  <2> HIDE DEF n
  <2>1. n \in TimeDeltas => n \in Int /\ n \in TimeDeltaObjects
    BY NanosTypes, ObjectBounds
  <2> QED BY <2>1, NegateType
<1> HIDE DEF n
<1> QED BY <1>1, <1>2 DEF NegateIf

\* The units of a TimeDelta add up to a TimeDelta, or to the error.
LEMMA KwargsToNanos ==
    ASSUME NEW seq \in Seq(Units)
    PROVE  timedelta_from_kwargs(seq) \in TimeDeltaResults
<1> DEFINE n == Len(seq)
           G == [y \in Int \X Units |-> AddKwarg(y[1], y[2])]
           F(f) == [s \in SUBSET DOMAIN seq |-> IF s = {} THEN 0 ELSE AddKwarg(f[s \ {Max(s)}], seq[Max(s)])]
           iter == CHOOSE f : f = F(f)
<1>1. n \in Nat /\ DOMAIN seq = 1 .. n /\ \A i \in 1 .. n : seq[i] \in Units
  OBVIOUS
<1>2. SUBSET DOMAIN seq = Upto(n)
  BY <1>1 DEF Upto
<1>3. timedelta_from_kwargs(seq) = iter[DOMAIN seq]
  BY DEF timedelta_from_kwargs, FoldLeft, MapThenFoldSet, AddKwarg
<1>4. \A x, y : AddKwarg(x, y) \in Int
  BY NanosTypes, FromNanosType DEF AddKwarg, TimeDeltaAdd
<1>5. G \in [Int \X Units -> Int] /\ \A x \in Int, y \in Units : G[<<x, y>>] = AddKwarg(x, y)
  BY <1>4
<1> HIDE DEF G, iter
<1>6. PICK f \in [Upto(n) -> Int] : Folds(f, n, 0, seq, G)
  <2>1. 0 \in Int /\ n \in 0 .. Len(seq)
    BY <1>1
  <2> QED BY <1>5, <2>1, FoldExists
<1>7. f = F(f)
  <2>1. ASSUME NEW s \in Upto(n), s # {}
        PROVE  G[<<f[s \ {Max(s)}], seq[Max(s)]>>] = AddKwarg(f[s \ {Max(s)}], seq[Max(s)])
    <3>1. Max(s) \in 1 .. n /\ s \ {Max(s)} \in Upto(n)
      BY <1>1, <2>1, MaxOf DEF Upto
    <3>2. f[s \ {Max(s)}] \in Int /\ seq[Max(s)] \in Units
      BY <1>1, <1>6, <3>1
    <3> QED BY <1>5, <3>2
  <2>2. f = [s \in Upto(n) |-> IF s = {} THEN 0 ELSE G[<<f[s \ {Max(s)}], seq[Max(s)]>>]]
    BY <1>6 DEF Folds
  <2> QED BY <1>2, <2>1, <2>2
<1>8. iter = F(iter)
  BY <1>7 DEF iter
<1>9. \A s \in Upto(n) : iter[s] = IF s = {} THEN 0 ELSE AddKwarg(iter[s \ {Max(s)}], seq[Max(s)])
  BY <1>2, <1>8
<1> DEFINE all == DOMAIN seq
<1>10. all \in Upto(n)
  BY <1>2
<1> HIDE DEF all, F
<1>11. iter[all] = IF all = {} THEN 0 ELSE AddKwarg(iter[all \ {Max(all)}], seq[Max(all)])
  BY <1>9, <1>10
<1>12. \A x, y : AddKwarg(x, y) \in TimeDeltaResults
  BY FromNanosType DEF AddKwarg, TimeDeltaAdd, TimeDeltaResults
<1>13. 0 \in TimeDeltaResults
  BY ObjectBounds DEF TimeDeltaResults
<1>14. iter[all] \in TimeDeltaResults
  BY <1>11, <1>12, <1>13
<1> QED BY <1>3, <1>14 DEF all

\* A shift by one unit is a delta, and so is the sum of shifts, or the error.
LEMMA ShiftTypes ==
    /\ NoDateTimeShift \in Deltas3 /\ \A s, kw : AddShift(s, kw) \in Deltas3
<1>1. \A m \in Int, d \in Int, n \in Int : DateTimeDelta(m, d, n) \in Deltas3
  BY DEF Deltas3, DateTimeDelta
<1>2. NoShift.months \in Int /\ NoShift.days \in Int
  BY SMT DEF NoShift, IncrementMax, UnixDaysMin, UnixDaysMax
<1>3. NoDateTimeShift \in Deltas3
  BY <1>2 DEF NoDateTimeShift, Deltas3
<1>4. ASSUME NEW s, NEW t
      PROVE  ShiftAdd(s, t) \in Deltas3
  <2>1. CalendarShiftAdd(s, t) # NoShift => CalendarShiftAdd(s, t).months \in Int /\ CalendarShiftAdd(s, t).days \in Int
    BY DeltasAreInt DEF CalendarShiftAdd
  <2>2. TimeDeltaAdd(s.nanos, t.nanos) # NoNanos => s.nanos + t.nanos \in Int
    BY NanosTypes DEF TimeDeltaAdd, from_nanos
  <2> QED BY <1>1, <1>3, <2>1, <2>2 DEF ShiftAdd
<1> QED BY <1>3, <1>4 DEF AddShift

\* The units of a shift add up to a shift, or to the error.
LEMMA KwargsToShift ==
    ASSUME NEW seq \in Seq(Units)
    PROVE  parse_datetime_shift_kwargs(seq) \in Deltas3
<1> DEFINE n == Len(seq)
           base == DateTimeDelta(0, 0, 0)
           G == [y \in Deltas3 \X Units |-> AddShift(y[1], y[2])]
           F(f) == [s \in SUBSET DOMAIN seq |-> IF s = {} THEN base ELSE AddShift(f[s \ {Max(s)}], seq[Max(s)])]
           iter == CHOOSE f : f = F(f)
<1>0. base \in Deltas3
  BY DEF DateTimeDelta, Deltas3
<1>1. n \in Nat /\ DOMAIN seq = 1 .. n /\ \A i \in 1 .. n : seq[i] \in Units
  OBVIOUS
<1>2. SUBSET DOMAIN seq = Upto(n)
  BY <1>1 DEF Upto
<1>3. parse_datetime_shift_kwargs(seq) = iter[DOMAIN seq]
  BY DEF parse_datetime_shift_kwargs, FoldLeft, MapThenFoldSet, AddShift
<1>4. \A x, y : AddShift(x, y) \in Deltas3
  BY ShiftTypes
<1>5. G \in [Deltas3 \X Units -> Deltas3] /\ \A x \in Deltas3, y \in Units : G[<<x, y>>] = AddShift(x, y)
  BY <1>4
<1> HIDE DEF G, iter, base
<1>6. PICK f \in [Upto(n) -> Deltas3] : Folds(f, n, base, seq, G)
  <2>1. n \in 0 .. Len(seq)
    BY <1>1
  <2> QED BY <1>0, <1>5, <2>1, FoldExists
<1>7. f = F(f)
  <2>1. ASSUME NEW s \in Upto(n), s # {}
        PROVE  G[<<f[s \ {Max(s)}], seq[Max(s)]>>] = AddShift(f[s \ {Max(s)}], seq[Max(s)])
    <3>1. Max(s) \in 1 .. n /\ s \ {Max(s)} \in Upto(n)
      BY <1>1, <2>1, MaxOf DEF Upto
    <3>2. f[s \ {Max(s)}] \in Deltas3 /\ seq[Max(s)] \in Units
      BY <1>1, <1>6, <3>1
    <3> QED BY <1>5, <3>2
  <2>2. f = [s \in Upto(n) |-> IF s = {} THEN base ELSE G[<<f[s \ {Max(s)}], seq[Max(s)]>>]]
    BY <1>6 DEF Folds
  <2> QED BY <1>2, <2>1, <2>2
<1>8. iter = F(iter)
  BY <1>7 DEF iter
<1>9. \A s \in Upto(n) : iter[s] = IF s = {} THEN base ELSE AddShift(iter[s \ {Max(s)}], seq[Max(s)])
  BY <1>2, <1>8
<1> DEFINE all == DOMAIN seq
<1>10. all \in Upto(n)
  BY <1>2
<1> HIDE DEF all, F
<1>11. iter[all] = IF all = {} THEN base ELSE AddShift(iter[all \ {Max(all)}], seq[Max(all)])
  BY <1>9, <1>10
<1>12. iter[all] \in Deltas3
  BY <1>0, <1>4, <1>11
<1> QED BY <1>3, <1>12 DEF all

\* Results that may be an error.
MaybeInstant(n) == n = NoInstant \/ n \in Instants
MaybePlain(p) == p = NoPlain \/ IsPlain(p)
IsOffset(o) == IsPlain(o) /\ o.offset \in Offsets /\ o = Offset(o, o.offset)
MaybeOffset(o) == o = NoOffset \/ IsOffset(o)

\* An offset of a day or less is a number, and 0 is one.
LEMMA OffsetType ==
    ASSUME NEW f \in Offsets
    PROVE  f \in Int /\ -f \in Int /\ 0 \in Offsets
<1>1. SecondsPerDay \in Nat \ {0} /\ f \in 1 - SecondsPerDay .. SecondsPerDay - 1
  BY ClockFacts DEF Offsets
<1>2. 0 \in 1 - SecondsPerDay .. SecondsPerDay - 1 /\ f \in Int /\ -f \in Int
  BY <1>1, SMT
<1> QED BY <1>2 DEF Offsets

\* Time::new returns a time of the day, or None.
LEMMA NewTimeType ==
    ASSUME NEW h, NEW m, NEW s, NEW n
    PROVE  NewTime(h, m, s, n) = -1 \/ NewTime(h, m, s, n) \in Times
<1> DEFINE x == NanosPerHour
           y == NanosPerMinute
           z == NanosPerSecond
           hpd == HoursPerDay
           mph == MinutesPerHour
           spm == SecondsPerMinute
           d == NanosPerDay
           t == h * x + m * y + s * z + n
<1>1. /\ x \in Nat \ {0} /\ y \in Nat \ {0} /\ z \in Nat \ {0} /\ d \in Nat \ {0}
      /\ hpd \in Nat \ {0} /\ mph \in Nat \ {0} /\ spm \in Nat \ {0}
  BY ClockFacts
<1>2. d = hpd * x /\ x = mph * y /\ y = spm * z
  BY DEF NanosPerDay, NanosPerHour, NanosPerMinute
<1>3. \/ NewTime(h, m, s, n) = -1
      \/ /\ NewTime(h, m, s, n) = t
         /\ h \in 0 .. hpd - 1 /\ m \in 0 .. mph - 1 /\ s \in 0 .. spm - 1 /\ n \in 0 .. z - 1
  BY DEF NewTime
<1> HIDE DEF x, y, z, hpd, mph, spm, d
<1>4. ASSUME h \in 0 .. hpd - 1, m \in 0 .. mph - 1, s \in 0 .. spm - 1, n \in 0 .. z - 1
      PROVE  t \in 0 .. d - 1
  <2>1. h \in Nat /\ m \in Nat /\ s \in Nat /\ n \in Nat /\ n <= z - 1
    BY <1>1, <1>4, SMT
  <2> DEFINE hr == hpd - 1 - h
             mr == mph - 1 - m
             sr == spm - 1 - s
  <2>2. hr \in Nat /\ mr \in Nat /\ sr \in Nat
    BY <1>1, <1>4, SMT
  <2>3. hr * x = hpd * x - x - h * x /\ mr * y = mph * y - y - m * y /\ sr * z = spm * z - z - s * z
    BY <1>1, <2>1, SMT
  <2> HIDE DEF hr, mr, sr
  <2>4. /\ hr * x \in Nat /\ mr * y \in Nat /\ sr * z \in Nat
        /\ h * x \in Nat /\ m * y \in Nat /\ s * z \in Nat
    BY <1>1, <2>1, <2>2, SMT
  <2>5. h * x <= d - x /\ m * y <= x - y /\ s * z <= y - z
    BY <1>1, <1>2, <2>3, <2>4, SMT
  <2> DEFINE h1 == h * x
             m1 == m * y
             s1 == s * z
  <2>6. h1 \in Nat /\ m1 \in Nat /\ s1 \in Nat /\ h1 <= d - x /\ m1 <= x - y /\ s1 <= y - z /\ t = h1 + m1 + s1 + n
    BY <2>4, <2>5
  <2> HIDE DEF h1, m1, s1, t
  <2> QED BY <1>1, <2>1, <2>6, SMT
<1> HIDE DEF t
<1> QED BY <1>3, <1>4 DEF Times, d

\* The fields of a datetime make a datetime, or None.
LEMMA IntoPlainType ==
    ASSUME NEW c
    PROVE  MaybePlain(into_plain(c))
<1> DEFINE d == NewDate(c.year, c.month, c.day)
           t == NewTime(c.hour, c.minute, c.second, c.nanosecond)
<1>1. (d = NoDate \/ IsDate(d)) /\ (t = -1 \/ t \in Times)
  BY NewDateReturns, NewTimeType DEF Returns
<1>2. into_plain(c) = IF d = NoDate \/ t = -1 THEN NoPlain ELSE Plain(d, t)
  BY DEF into_plain
<1> HIDE DEF d, t
<1>3. IsDate(d) /\ t \in Times => IsPlain(Plain(d, t))
  BY DEF IsPlain, Plain
<1> QED BY <1>1, <1>2, <1>3 DEF MaybePlain

\* Rounding a time of the day wraps around at midnight.
LEMMA TimeRoundType ==
    ASSUME NEW t \in Int, NEW inc \in Nat \ {0}, NEW mode
    PROVE  TimeRound(t, inc, mode).time \in Times
<1> DEFINE n == RoundMultiple(t, inc, to_abs_trunc(mode, FALSE))
           day == NanosPerDay
<1>1. n \in Int /\ day \in Nat \ {0}
  BY RoundType, ClockFacts
<1>2. TimeRound(t, inc, mode).time = n % day
  BY DEF TimeRound
<1> HIDE DEF n, day
<1>3. n % day \in 0 .. day - 1
  <2>1. n % day \in Nat /\ n % day < day
    BY <1>1, DivSplit
  <2> DEFINE r == n % day
  <2> HIDE DEF r
  <2>2. r \in Nat /\ r < day
    BY <2>1 DEF r
  <2>3. r \in 0 .. day - 1
    BY <1>1, <2>2, SMT
  <2> QED BY <2>3 DEF r
<1> QED BY <1>2, <1>3 DEF Times, day

\* Whole seconds of the range are an instant of the range.
LEMMA SecondsInstant ==
    ASSUME NEW s \in EpochMin .. EpochMax
    PROVE  s * NanosPerSecond \in Instants /\ s \in Int
<1> DEFINE k == NanosPerSecond
<1>1. s \in Int /\ k \in Nat \ {0}
  BY EpochFacts, ClockFacts, SMT
<1> HIDE DEF k
<1>2. s * k \in Int /\ s * k = k * s + 0 /\ 0 \in Nat /\ 0 < k
  BY <1>1, SMT
<1>3. (s * k) \div k = s
  BY <1>1, <1>2, DivUnique
<1> QED BY <1>1, <1>2, <1>3, InstantRange DEF secs, k

\* The timestamps that are in range make an instant.
LEMMA TimestampType ==
    ASSUME NEW t \in Int
    PROVE  /\ MaybeInstant(from_timestamp(t)) /\ MaybeInstant(from_timestamp_millis(t))
           /\ MaybeInstant(from_timestamp_nanos(t))
<1>1. MaybeInstant(from_timestamp(t))
  BY SecondsInstant DEF from_timestamp, MaybeInstant
<1>2. MaybeInstant(from_timestamp_nanos(t))
  BY InstantRange DEF from_timestamp_nanos, MaybeInstant
<1>3. ASSUME t \div MillisPerSecond \in EpochMin .. EpochMax
      PROVE  t * NanosPerMilli \in Instants
  <2> DEFINE x == NanosPerMilli
             mps == MillisPerSecond
             n == t * x
  <2>1. x \in Nat \ {0} /\ mps \in Nat \ {0} /\ NanosPerSecond = mps * x
    BY ClockFacts DEF NanosPerSecond
  <2> HIDE DEF x, mps
  <2>2. n \in Int /\ n = x * t + 0 /\ 0 \in Nat /\ 0 < x /\ mps * x = x * mps
    BY <2>1, SMT
  <2> HIDE DEF n
  <2>3. n \div x = t
    BY <2>1, <2>2, DivUnique
  <2>4. n \div (x * mps) = t \div mps
    BY <2>1, <2>2, <2>3, DivTwice
  <2>5. secs(n) = t \div mps
    BY <2>1, <2>2, <2>4 DEF secs
  <2> QED BY <1>3, <2>2, <2>5, InstantRange DEF mps, n, x
<1>4. MaybeInstant(from_timestamp_millis(t))
  BY <1>3 DEF from_timestamp_millis, MaybeInstant
<1> QED BY <1>1, <1>2, <1>4

\* An instant shifted by nanoseconds or an offset is an instant, or None.
LEMMA ShiftedInstantType ==
    ASSUME NEW n \in Int, NEW d \in Int
    PROVE  /\ MaybeInstant(InstantShift(n, d)) /\ MaybeInstant(InstantShiftByOffset(n, d))
           /\ secs(n) + d \in EpochMin .. EpochMax => InstantShiftByOffset(n, d) \in Instants
<1>1. MaybeInstant(InstantShift(n, d))
  BY ShiftInstantAdds DEF MaybeInstant
<1>2. ASSUME secs(n) + d \in EpochMin .. EpochMax
      PROVE  n + d * NanosPerSecond \in Instants
  <2> DEFINE k == NanosPerSecond
             a == secs(n)
             b == subsec(n)
             m == n + d * k
  <2>1. a \in Int /\ b \in Nat /\ b < k /\ n = k * a + b /\ k \in Nat \ {0}
    BY SecsSplit, ClockFacts
  <2>2. a + d \in EpochMin .. EpochMax
    BY <1>2
  <2> HIDE DEF k, a, b
  <2>3. a + d \in Int /\ k * (a + d) = k * a + d * k /\ k * a \in Int /\ d * k \in Int
    BY <2>1, SMT
  <2>4. m \in Int /\ m = k * (a + d) + b
    BY <2>1, <2>3, SMT
  <2> HIDE DEF m
  <2>5. m \div k = a + d
    BY <2>1, <2>3, <2>4, DivUnique
  <2>6. secs(m) \in EpochMin .. EpochMax
    BY <2>2, <2>5 DEF secs, k
  <2> QED BY <2>4, <2>6, InstantRange DEF m, k
<1>3. /\ MaybeInstant(InstantShiftByOffset(n, d))
      /\ secs(n) + d \in EpochMin .. EpochMax => InstantShiftByOffset(n, d) \in Instants
  BY <1>2 DEF InstantShiftByOffset, MaybeInstant
<1> QED BY <1>1, <1>3

\* Rounding an instant gives an instant, or None.
LEMMA RoundedInstantType ==
    ASSUME NEW n \in Int, NEW inc \in Nat \ {0}, NEW mode
    PROVE  MaybeInstant(InstantRound(n, inc, mode))
<1> DEFINE r == TimeDeltaRound(n, inc, mode)
<1>1. r \in Int
  BY TimeDeltaRoundType
<1> HIDE DEF r
<1>2. secs(r) \in EpochMin .. EpochMax => r \in Instants
  BY <1>1, InstantRange
<1>3. MaybeInstant(InstantOrNone(r))
  BY <1>2 DEF InstantOrNone, MaybeInstant
<1> QED BY <1>3 DEF InstantRound, r

\* The UTC datetime of an instant, if there is one.
LEMMA PlainOrNoneType ==
    ASSUME NEW n, MaybeInstant(n)
    PROVE  MaybePlain(PlainOrNone(n))
  BY InstantIsPlain DEF MaybeInstant, MaybePlain, PlainOrNone

\* A datetime moved by nanoseconds is a datetime, or None.
LEMMA PlainShiftType ==
    ASSUME NEW p, IsPlain(p), NEW n \in Int
    PROVE  MaybePlain(PlainShift(p, n))
<1>1. assume_utc(p) \in Int
  BY PlainIsInstant
<1> QED BY <1>1, ShiftedInstantType, PlainOrNoneType DEF PlainShift

\* A date, or None, and a time of the day.
LEMMA OrNoPlainType ==
    ASSUME NEW d, Returns(d), NEW t \in Times
    PROVE  MaybePlain(OrNoPlain(d, t))
  BY MakesPlain DEF Returns, OrNoPlain, MaybePlain, Stands

\* A datetime moved by a shift is a datetime, or None.
LEMMA PlainShiftByType ==
    ASSUME NEW p, IsPlain(p), NEW s \in Deltas3
    PROVE  MaybePlain(PlainShiftBy(p, s))
<1> DEFINE d == ShiftDate(p.date, s.months, s.days)
           q == OrNoPlain(d, p.time)
<1>1. s.months \in Int /\ s.days \in Int /\ s.nanos \in Int /\ IsDate(p.date) /\ p.time \in Times
  BY DEF Deltas3, IsPlain
<1>2. Returns(d)
  BY <1>1, ShiftReturns
<1>3. MaybePlain(q)
  BY <1>1, <1>2, OrNoPlainType
<1>4. MaybePlain(PlainShiftOn(q, s.nanos))
  <2> HIDE DEF q
  <2>1. IsPlain(q) => MaybePlain(PlainShift(q, s.nanos))
    BY <1>1, PlainShiftType
  <2> QED BY <1>3, <2>1 DEF PlainShiftOn, MaybePlain
<1>5. PlainShiftBy(p, s) = NoPlain \/ PlainShiftBy(p, s) = PlainShiftOn(q, s.nanos)
  BY DEF PlainShiftBy
<1> HIDE DEF q
<1> QED BY <1>4, <1>5 DEF MaybePlain

\* The start and the end of a unit are datetimes, or None.
LEMMA BoundaryType ==
    ASSUME NEW p, IsPlain(p), NEW unit \in DateTimeBoundaryUnit
    PROVE  MaybePlain(start_of_unit(p, unit)) /\ MaybePlain(end_of_unit(p, unit))
<1>1. CASE unit \in FixedUnits
  BY <1>1, FixedBounds DEF Stands, MaybePlain
<1>2. CASE unit \in DateBoundaryUnit
  <2>1. Returns(DateStartOf(p.date, unit)) /\ Returns(DateEndOf(p.date, unit))
    BY <1>2, BoundaryReturns DEF IsPlain
  <2>2. 0 \in Times /\ NanosPerDay - 1 \in Times
    BY ClockFacts, SMT DEF Times
  <2>3. unit \notin TimeBoundaryUnit /\ unit # "day"
    BY <1>2 DEF DateBoundaryUnit, TimeBoundaryUnit
  <2> QED BY <2>1, <2>2, <2>3, OrNoPlainType DEF start_of_unit, end_of_unit
<1> QED BY <1>1, <1>2 DEF DateTimeBoundaryUnit, FixedUnits

\* Rounding a datetime gives a datetime, or None after the last day.
LEMMA RoundedPlainType ==
    ASSUME NEW p, IsPlain(p), NEW inc \in Nat \ {0}, NEW mode
    PROVE  MaybePlain(PlainRound(p, inc, mode))
<1> DEFINE r == TimeRound(p.time, inc, mode)
<1>1. IsDate(p.date) /\ p.time \in Int
  BY PlainIsInstant DEF IsPlain
<1>2. r.time \in Times
  BY <1>1, TimeRoundType
<1>3. Returns(tomorrow(p.date)) /\ Returns(p.date)
  BY <1>1, TomorrowIsNext DEF Returns
<1> HIDE DEF r
<1>4. PlainRound(p, inc, mode) \in {OrNoPlain(tomorrow(p.date), r.time), OrNoPlain(p.date, r.time)}
  BY DEF PlainRound, r
<1> QED BY <1>2, <1>3, <1>4, OrNoPlainType

\* A datetime with an offset, if its instant is in range.
LEMMA AssumeOffsetType ==
    ASSUME NEW p, MaybePlain(p), NEW f \in Offsets
    PROVE  MaybeOffset(assume_offset(p, f)) /\ (IsPlain(p) => IsOffset(Offset(p, f)))
<1>1. IsPlain(p) => IsOffset(Offset(p, f))
  BY DEF IsPlain, IsOffset, Offset
<1> QED BY <1>1 DEF assume_offset, MaybePlain, MaybeOffset

\* An instant seen under an offset, if its local time is in range.
LEMMA ToOffsetType ==
    ASSUME NEW n \in Instants, NEW f \in Offsets
    PROVE  MaybeOffset(to_offset(n, f))
<1> DEFINE local == InstantShiftByOffset(n, f)
<1>1. MaybeInstant(local)
  BY InstantIsInt, OffsetType, ShiftedInstantType
<1>2. to_offset(n, f) = IF local = NoInstant THEN NoOffset ELSE Offset(to_utc_plain(local), f)
  BY DEF to_offset
<1> HIDE DEF local
<1>3. local # NoInstant => IsPlain(to_utc_plain(local))
  BY <1>1, InstantIsPlain DEF MaybeInstant
<1>4. local # NoInstant => IsOffset(Offset(to_utc_plain(local), f))
  BY <1>3, AssumeOffsetType DEF MaybePlain
<1> QED BY <1>2, <1>4 DEF MaybeOffset

\* The arguments of round make an increment, or 0, which is an error.
LEMMA RoundCallTypes ==
    ASSUME NEW c \in RoundCalls
    PROVE  /\ RoundArgs(c.arg).nanos # 0 => RoundArgs(c.arg).nanos \in Nat \ {0}
           /\ RoundDeltaArgs(c.arg) # 0 => RoundDeltaArgs(c.arg) \in Nat \ {0}
<1> DEFINE a == c.arg
           n == default_increment(a.unit) * a.increment
<1>1. /\ a.increment \in Int /\ a.nanos \in Int
      /\ a.kind \in {"none", "delta"} \/ (a.kind = "unit" /\ a.unit \in Names(RoundUnit))
  BY ArgumentsAssumption
<1>2. /\ NanosPerDay \in Nat \ {0} /\ NanosPerHour \in Nat \ {0} /\ NanosPerMinute \in Nat \ {0}
      /\ NanosPerSecond \in Nat \ {0} /\ NanosPerMilli \in Nat \ {0} /\ NanosPerMicro \in Nat \ {0}
  BY ClockFacts, ClockAssumption, PositiveProduct DEF NanosPerMilli
<1>3. ASSUME a.kind = "unit"
      PROVE  n \in Int
  <2>1. a.unit \in {"day", "hour", "minute", "second", "millisecond", "microsecond", "nanosecond"}
    BY <1>1, <1>3 DEF Names, RoundUnit
  <2> DEFINE i == default_increment(a.unit)
             inc == a.increment
  <2>2. i \in Int
    <3> HIDE DEF a
    <3> QED BY <1>2, <2>1, SMT DEF default_increment
  <2>3. inc \in Int
    BY <1>1
  <2> HIDE DEF a, i, inc
  <2>4. i * inc \in Int
    BY <2>2, <2>3, SMT
  <2> QED BY <2>4 DEF i, inc, a
<1> HIDE DEF a, n
<1>4. \A x \in Int : Divides(x) => x \in Nat \ {0}
  BY DEF Divides
<1>5. RoundArgs(a).nanos # 0 => RoundArgs(a).nanos \in Nat \ {0}
  <2>1. CASE a.kind = "none"
    BY <1>2, <2>1 DEF RoundArgs
  <2>2. CASE a.kind = "delta"
    BY <1>1, <1>4, <2>2 DEF RoundArgs
  <2>3. CASE a.kind = "unit" /\ a.unit = "day"
    BY <1>2, <2>3 DEF RoundArgs
  <2>4. CASE a.kind = "unit" /\ a.unit # "day"
    <3>1. a.unit \in Names(RoundUnit) \ {"day"}
      BY <1>1, <2>4
    <3>2. RoundArgs(a) = [day |-> FALSE, nanos |-> IF Divides(n) THEN n ELSE 0]
      BY <2>4, <3>1 DEF RoundArgs, n
    <3> QED BY <1>3, <1>4, <2>4, <3>2
  <2> QED BY <1>1, <2>1, <2>2, <2>3, <2>4
<1>6. RoundDeltaArgs(a) # 0 => RoundDeltaArgs(a) \in Nat \ {0}
  <2>1. CASE a.kind = "none"
    BY <1>2, <2>1, SMT DEF RoundDeltaArgs
  <2>2. CASE a.kind = "delta"
    BY <1>1, <2>2, SMT DEF RoundDeltaArgs
  <2>3. CASE a.kind = "unit"
    <3>1. RoundDeltaArgs(a) = IF n > 0 THEN n ELSE 0
      BY <2>3 DEF RoundDeltaArgs, n
    <3> QED BY <1>3, <2>3, <3>1, SMT
  <2> QED BY <1>1, <2>1, <2>2, <2>3
<1> QED BY <1>5, <1>6 DEF a

\* The difference of two instants is a TimeDelta.
LEMMA DifferenceType ==
    ASSUME NEW n \in Instants, NEW m \in Instants
    PROVE  n - m \in TimeDeltaResults
<1> DEFINE x == n - m
<1>1. x \in Int /\ 2 - TimeDeltaMax <= x /\ x <= TimeDeltaMax - 2 /\ TimeDeltaMax \in Int
  BY DifferencesFit, NanosTypes
<1> HIDE DEF x
<1>2. -TimeDeltaMax <= x /\ x <= TimeDeltaMax
  BY <1>1, SMT
<1>3. x \in TimeDeltas
  BY <1>1, <1>2, ObjectBounds
<1> QED BY <1>3, ObjectBounds DEF TimeDeltaResults, x

\* The constructors of deltas check the ranges and the signs.
LEMMA NewDeltaTypes ==
    ASSUME NEW m \in Int, NEW d \in Int, NEW n \in Int
    PROVE  /\ MaybeDelta("datetime_delta", DateTimeDeltaFromKwargs(m, d, n))
           /\ m \in DeltaMonths /\ d \in DeltaDays => MaybeDelta("date_delta", NewDateTimeDelta(m, d, 0))
           /\ MaybeDelta("date_delta", TooBig)
<1>1. \A cls : MaybeDelta(cls, TooBig) /\ MaybeDelta(cls, MixedSign)
  BY DEF MaybeDelta, IsDelta
<1>2. "datetime_delta" # "date_delta"
  OBVIOUS
<1>3. 0 \in TimeDeltaObjects
  BY ObjectBounds
<1> QED BY <1>1, <1>2, <1>3, MakesDelta, ObjectBounds DEF DateTimeDeltaFromKwargs, MaybeDelta

\* A datetime with other fields is a datetime, or None.
LEMMA ReplacedPlainType ==
    ASSUME NEW p, NEW kwargs
    PROVE  MaybePlain(PlainReplace(p, kwargs))
  BY IntoPlainType DEF PlainReplace

-----------------------------------------------------------------------------
(***************************************************************************)
(* Every object that a sequence of calls leads to is in the range of its   *)
(* class.                                                                  *)
(***************************************************************************)
ObjectsInRange == InRange(obj) /\ InRange(other)

\* The objects that hold a value of the range of their class.
LEMMA ObjectTypes ==
    /\ \A n \in TimeDeltaObjects : InRange(OfNanos("time_delta", n))
    /\ \A t \in Times : InRange(OfNanos("time", t))
    /\ \A n \in Instants : InRange(OfNanos("instant", n))
    /\ \A cls \in {"date_delta", "datetime_delta"} : \A d \in DeltaObjects(cls) : InRange(OfDelta(cls, d))
    /\ \A p : IsPlain(p) => InRange(OfPlain(p))
    /\ \A o : IsOffset(o) => InRange(OfOffset(o))
<1>1. /\ \A n \in TimeDeltaObjects : InRange(OfNanos("time_delta", n))
      /\ \A t \in Times : InRange(OfNanos("time", t))
      /\ \A n \in Instants : InRange(OfNanos("instant", n))
  BY DEF InRange, OfNanos, Object
<1>2. \A cls \in {"date_delta", "datetime_delta"} : \A d \in DeltaObjects(cls) : InRange(OfDelta(cls, d))
  BY DEF InRange, OfDelta, Object
<1>3. \A o : IsOffset(o) => InRange(OfOffset(o))
  BY DEF InRange, OfOffset, Object, IsOffset
<1>4. ASSUME NEW p, IsPlain(p)
      PROVE  InRange(OfPlain(p))
  <2> DEFINE q == Offset(p, 0)
  <2>1. 0 \in Offsets
    <3>1. SecondsPerDay \in Nat \ {0}
      BY ClockFacts
    <3> QED BY <3>1, SMT DEF Offsets
  <2>2. IsOffset(q)
    BY <1>4, <2>1, AssumeOffsetType DEF MaybePlain
  <2> QED BY <2>2 DEF InRange, OfPlain, Object, IsOffset
<1> QED BY <1>1, <1>2, <1>3, <1>4

\* What an object in the range of its class holds.
LEMMA ObjectHolds ==
    ASSUME NEW o, InRange(o)
    PROVE  /\ o.cls = "time_delta" => o.nanos \in TimeDeltaObjects /\ o.nanos \in Int
           /\ o.cls = "time" => o.nanos \in Times
           /\ o.cls = "instant" => o.nanos \in Instants /\ o.nanos \in Int
           /\ o.cls \in {"date_delta", "datetime_delta"} =>
                /\ o.delta \in DeltaObjects(o.cls) /\ o.delta \in Deltas3
                /\ o.delta.months \in Int /\ o.delta.days \in Int /\ o.delta.nanos \in Int
           /\ o.cls \in {"plain", "offset"} =>
                IsOffset(o.dt) /\ IsPlain(to_plain(o.dt)) /\ o.dt.offset \in Offsets
<1>1. o.cls = "instant" => o.nanos \in Int
  BY InstantIsInt DEF InRange
<1>2. o.cls \in {"plain", "offset"} => IsOffset(o.dt) /\ IsPlain(to_plain(o.dt)) /\ o.dt.offset \in Offsets
  BY DEF InRange, IsOffset, IsPlain, to_plain, Plain
<1>3. o.cls = "time_delta" => o.nanos \in TimeDeltaObjects /\ o.nanos \in Int
  BY ObjectBounds DEF InRange
<1>4. o.cls \in {"date_delta", "datetime_delta"} =>
        /\ o.delta \in DeltaObjects(o.cls) /\ o.delta \in Deltas3
        /\ o.delta.months \in Int /\ o.delta.days \in Int /\ o.delta.nanos \in Int
  BY DeltaHolds DEF InRange
<1> QED BY <1>1, <1>2, <1>3, <1>4 DEF InRange

\* A call that gives an object in range keeps the objects in range.
LEMMA GiveKeeps ==
    ASSUME ObjectsInRange, NEW ok, NEW new, ok => InRange(new), Give(ok, new)
    PROVE  ObjectsInRange'
<1>1. CASE ok
  BY <1>1 DEF ObjectsInRange, Give
<1>2. CASE ~ok
  BY <1>2 DEF ObjectsInRange, Give
<1> QED BY <1>1, <1>2

\* So does a call that gives a number, a delta, an instant or a datetime, or that panics.
LEMMA CallKeeps ==
    ASSUME ObjectsInRange
    PROVE  /\ \A n \in TimeDeltaResults : GiveNanos(n) => ObjectsInRange'
           /\ HasDelta => \A d : MaybeDelta(obj.cls, d) /\ GiveDelta(d) => ObjectsInRange'
           /\ \A n : MaybeInstant(n) /\ GiveInstant(n) => ObjectsInRange'
           /\ \A p : MaybePlain(p) /\ GivePlain(p) => ObjectsInRange'
           /\ \A o : MaybeOffset(o) /\ GiveOffset(o) => ObjectsInRange'
           /\ Panic => ObjectsInRange'
<1>1. ASSUME NEW n \in TimeDeltaResults, GiveNanos(n)
      PROVE  ObjectsInRange'
  BY <1>1, ObjectTypes, GiveKeeps DEF GiveNanos, TimeDeltaResults
<1>2. ASSUME HasDelta, NEW d, MaybeDelta(obj.cls, d), GiveDelta(d)
      PROVE  ObjectsInRange'
  BY <1>2, ObjectTypes, GiveKeeps DEF GiveDelta, HasDelta, MaybeDelta
<1>3. ASSUME NEW n, MaybeInstant(n), GiveInstant(n)
      PROVE  ObjectsInRange'
  BY <1>3, ObjectTypes, GiveKeeps DEF GiveInstant, MaybeInstant
<1>4. ASSUME NEW p, MaybePlain(p), GivePlain(p)
      PROVE  ObjectsInRange'
  BY <1>4, ObjectTypes, GiveKeeps DEF GivePlain, MaybePlain
<1>5. ASSUME NEW o, MaybeOffset(o), GiveOffset(o)
      PROVE  ObjectsInRange'
  BY <1>5, ObjectTypes, GiveKeeps DEF GiveOffset, MaybeOffset
<1>6. Panic => ObjectsInRange'
  BY DEF Panic, ObjectsInRange
<1> QED BY <1>1, <1>2, <1>3, <1>4, <1>5, <1>6

\* The arguments of the calls are numbers, deltas and units.
LEMMA ArgumentTypes ==
    /\ \A f \in Factors : f \in Int
    /\ \A f \in OffsetArgs : f \in Int
    /\ \A t \in Timestamps : t \in Int
    /\ \A d \in DeltaArgs : d \in Deltas3 /\ d.months \in Int /\ d.days \in Int /\ d.nanos \in Int
    /\ \A kwargs \in Kwargs : kwargs \in Seq(Units)
  BY ArgumentsAssumption DEF Units, Deltas3

\* The calls of the delta classes keep the objects in range.
LEMMA DeltaCallsKeep ==
    ASSUME ObjectsInRange, DeltaCalls
    PROVE  ObjectsInRange'
<1> USE ArgumentTypes
<1> DEFINE n == obj.nanos
           m == other.nanos
           d == obj.delta
           e == other.delta
<1>1. /\ Is("time_delta") => n \in TimeDeltaObjects /\ n \in Int /\ -n \in Int
      /\ Pair("time_delta") => n \in Int /\ m \in TimeDeltaObjects /\ m \in Int /\ -m \in Int
      /\ HasDelta => d \in DeltaObjects(obj.cls)
      /\ HasDelta /\ other.cls = obj.cls => e \in DeltaObjects(obj.cls)
      /\ Is("date_delta") \/ Is("datetime_delta") => HasDelta
  <2>1. /\ Is("time_delta") => n \in TimeDeltaObjects /\ n \in Int
        /\ Pair("time_delta") => n \in Int /\ m \in TimeDeltaObjects /\ m \in Int
        /\ HasDelta => d \in DeltaObjects(obj.cls)
        /\ HasDelta /\ other.cls = obj.cls => e \in DeltaObjects(obj.cls)
    BY ObjectHolds DEF ObjectsInRange, Is, Pair, HasDelta
  <2> HIDE DEF n, m, d, e
  <2>2. (n \in Int => -n \in Int) /\ (m \in Int => -m \in Int)
    BY SMT
  <2> QED BY <2>1, <2>2 DEF Is, HasDelta
<1>2. \A x \in Int, y \in Int : TimeDeltaAdd(x, y) \in TimeDeltaResults /\ TimeDeltaMul(x, y) \in TimeDeltaResults
  BY FromNanosType DEF TimeDeltaAdd, TimeDeltaMul
<1>3. ASSUME TimeDeltaNew PROVE ObjectsInRange'
  BY <1>3, KwargsToNanos, CallKeeps DEF TimeDeltaNew
<1>4. ASSUME TimeDeltaPlus PROVE ObjectsInRange'
  BY <1>1, <1>2, <1>4, CallKeeps DEF TimeDeltaPlus
<1>5. ASSUME TimeDeltaMinus PROVE ObjectsInRange'
  BY <1>1, <1>2, <1>5, CallKeeps DEF TimeDeltaMinus
<1>6. ASSUME TimeDeltaNegAbs PROVE ObjectsInRange'
  <2>1. NegateIf(n, TRUE) \in TimeDeltaResults /\ TimeDeltaAbs(n) \in TimeDeltaResults
    BY <1>1, <1>6, NegateType DEF TimeDeltaNegAbs, TimeDeltaResults
  <2> QED BY <1>6, <2>1, CallKeeps DEF TimeDeltaNegAbs
<1>7. ASSUME TimeDeltaTimes PROVE ObjectsInRange'
  BY <1>1, <1>2, <1>7, CallKeeps DEF TimeDeltaTimes
<1>8. ASSUME TimeDeltaDivide PROVE ObjectsInRange'
  <2>1. PICK f \in Factors : Give(f # 0, OfNanos("time_delta", TrueDiv(n, f)))
    BY <1>8 DEF TimeDeltaDivide
  <2>2. f # 0 => TrueDiv(n, f) \in TimeDeltaObjects
    BY <1>1, <1>8, DivisionType DEF TimeDeltaDivide
  <2> QED BY <2>1, <2>2, ObjectTypes, GiveKeeps
<1>9. ASSUME TimeDeltaModulo PROVE ObjectsInRange'
  <2>1. Give(m # 0, OfNanos("time_delta", mod(n, m)))
    BY <1>9 DEF TimeDeltaModulo
  <2>2. m # 0 => mod(n, m) \in TimeDeltaObjects
    BY <1>1, <1>9, DivisionType DEF TimeDeltaModulo
  <2> QED BY <2>1, <2>2, ObjectTypes, GiveKeeps
<1>10. ASSUME RoundTimeDelta PROVE ObjectsInRange'
  <2> DEFINE Rounded(c) == IF RoundDeltaArgs(c.arg) = 0 THEN NoNanos ELSE TimeDeltaRound(n, RoundDeltaArgs(c.arg), c.mode)
  <2>1. PICK c \in RoundCalls : Panic \/ (Rounded(c) # Panics /\ GiveNanos(Rounded(c)))
    BY <1>10 DEF RoundTimeDelta
  <2>2. Rounded(c) # Panics => Rounded(c) \in TimeDeltaResults
    BY <1>1, <1>10, RoundCallTypes, TimeDeltaRoundType DEF RoundTimeDelta, TimeDeltaResults
  <2> HIDE DEF Rounded
  <2> QED BY <2>1, <2>2, CallKeeps
<1>11. ASSUME date_part PROVE ObjectsInRange'
  <2>1. [d EXCEPT !.nanos = 0] \in DeltaObjects("date_delta")
    <3>1. d \in DeltaObjects("datetime_delta")
      BY <1>1, <1>11 DEF date_part, Is
    <3>2. 0 \in TimeDeltaObjects
      BY ObjectBounds
    <3> QED BY <3>1, <3>2 DEF DeltaObjects
  <2> QED BY <1>11, <2>1, ObjectTypes, GiveKeeps DEF date_part
<1>12. ASSUME time_part PROVE ObjectsInRange'
  <2>1. d.nanos \in TimeDeltaObjects
    BY <1>1, <1>12, DeltaHolds DEF time_part
  <2> QED BY <1>12, <2>1, ObjectTypes, GiveKeeps DEF time_part
<1>13. ASSUME DeltaNew PROVE ObjectsInRange'
  <2>1. PICK x \in DeltaArgs : GiveDelta(DateTimeDeltaFromKwargs(x.months, x.days, x.nanos))
    BY <1>13 DEF DeltaNew
  <2>2. MaybeDelta(obj.cls, DateTimeDeltaFromKwargs(x.months, x.days, x.nanos))
    BY <1>13, NewDeltaTypes DEF DeltaNew, Is
  <2> QED BY <1>1, <1>13, <2>1, <2>2, CallKeeps DEF DeltaNew
<1>14. ASSUME DeltaPlus PROVE ObjectsInRange'
  <2>1. MaybeDelta(obj.cls, DeltaAdd(d, e))
    <3>1. 0 \in Int /\ d \in DeltaObjects(obj.cls) /\ e \in DeltaObjects(obj.cls)
      BY <1>1, <1>14 DEF DeltaPlus
    <3> QED BY <3>1, DeltasFit
  <2> QED BY <1>14, <2>1, CallKeeps DEF DeltaPlus
<1>15. ASSUME DeltaMinus PROVE ObjectsInRange'
  <2>1. MaybeDelta(obj.cls, DeltaAdd(d, DeltaNeg(e)))
    <3>1. 0 \in Int /\ d \in DeltaObjects(obj.cls) /\ e \in DeltaObjects(obj.cls)
      BY <1>1, <1>15 DEF DeltaMinus
    <3>2. DeltaNeg(e) \in DeltaObjects(obj.cls)
      BY <3>1, DeltasFit
    <3> QED BY <3>1, <3>2, DeltasFit
  <2> QED BY <1>15, <2>1, CallKeeps DEF DeltaMinus
<1>16. ASSUME DeltaTimes \/ DateDeltaTimes PROVE ObjectsInRange'
  <2>1. PICK f \in Factors : HasDelta /\ GiveDelta(DeltaMul(d, f))
    BY <1>1, <1>16 DEF DeltaTimes, DateDeltaTimes
  <2>2. MaybeDelta(obj.cls, DeltaMul(d, f))
    <3>1. f \in Int /\ d \in DeltaObjects(obj.cls)
      BY <1>1, <2>1
    <3> QED BY <3>1, DeltasFit
  <2> QED BY <2>1, <2>2, CallKeeps
<1>17. ASSUME DeltaNegAbs PROVE ObjectsInRange'
  <2>1. DeltaNeg(d) \in DeltaObjects(obj.cls) /\ DeltaAbs(d) \in DeltaObjects(obj.cls)
    <3>1. 0 \in Int /\ d \in DeltaObjects(obj.cls)
      BY <1>1, <1>17 DEF DeltaNegAbs
    <3> QED BY <3>1, DeltasFit
  <2> QED BY <1>17, <2>1, CallKeeps DEF DeltaNegAbs, MaybeDelta
<1>18. ASSUME DateDeltaNew PROVE ObjectsInRange'
  <2> DEFINE r(x) == IF x.months \in DeltaMonths /\ x.days \in DeltaDays
                     THEN NewDateTimeDelta(x.months, x.days, 0) ELSE TooBig
  <2>1. PICK x \in DeltaArgs : GiveDelta(r(x))
    BY <1>18 DEF DateDeltaNew
  <2>2. MaybeDelta(obj.cls, r(x))
    BY <1>18, NewDeltaTypes DEF DateDeltaNew, Is
  <2> HIDE DEF r
  <2> QED BY <1>1, <1>18, <2>1, <2>2, CallKeeps DEF DateDeltaNew
<1>19. ASSUME DateDeltaWithTime PROVE ObjectsInRange'
  <2> DEFINE Sum(x, b) == NewDateTimeDelta(d.months, d.days, NegateIf(x.nanos, b))
  <2>1. PICK x \in DeltaArgs, b \in BOOLEAN :
            x.nanos \in TimeDeltaObjects /\ Give(IsDelta(Sum(x, b)), OfDelta("datetime_delta", Sum(x, b)))
    BY <1>19 DEF DateDeltaWithTime
  <2>2. MaybeDelta("datetime_delta", Sum(x, b))
    <3>1. NegateIf(x.nanos, b) \in TimeDeltaObjects
      BY <2>1, NegateType
    <3>2. d.months \in DeltaMonths /\ d.days \in DeltaDays
      BY <1>1, <1>19, DeltaHolds DEF DateDeltaWithTime
    <3>3. "datetime_delta" # "date_delta"
      OBVIOUS
    <3> QED BY <3>1, <3>2, <3>3, MakesDelta
  <2> HIDE DEF Sum
  <2> QED BY <2>1, <2>2, ObjectTypes, GiveKeeps DEF MaybeDelta
<1>20. ASSUME TimeDeltaReread PROVE ObjectsInRange'
  <2> DEFINE x == TimeDeltaParse(TimeDeltaText(n))
  <2>1. Give(x \notin {NoNanos, InvalidText}, OfNanos("time_delta", x))
    BY <1>20 DEF TimeDeltaReread
  <2>2. x \notin {NoNanos, InvalidText} => x \in TimeDeltaObjects
    BY ParsedTimeDeltaType
  <2> HIDE DEF x
  <2> QED BY <2>1, <2>2, ObjectTypes, GiveKeeps
<1>21. ASSUME DateDeltaReread \/ DeltaReread PROVE ObjectsInRange'
  <2>1. HasDelta /\ (GiveDelta(DeltaParse(DeltaText(d))) \/ GiveDelta(DeltaUnpickle(d)))
    BY <1>1, <1>21 DEF DateDeltaReread, DeltaReread
  <2>2. d \in DeltaObjects(obj.cls)
    BY <1>1, <2>1
  <2>3. MaybeDelta(obj.cls, DeltaParse(DeltaText(d)))
    <3>1. obj.cls = "date_delta" => DeltaText(d).time = <<>>
      <4>1. obj.cls = "date_delta" => d.nanos = 0 /\ DeltaNeg(d).nanos = 0
        <5>1. obj.cls = "date_delta" => d.nanos = 0
          BY <2>2, DeltaHolds
        <5>2. obj.cls = "date_delta" => DeltaNeg(d).nanos = 0
          <6>1. DeltaNeg(d) \in DeltaObjects(obj.cls)
            <7>1. 0 \in Int
              OBVIOUS
            <7> QED BY <2>2, <7>1, DeltasFit
          <6> QED BY <6>1, DeltaHolds
        <5> QED BY <5>1, <5>2
      <4> HIDE DEF d
      <4> QED BY <4>1 DEF DeltaText
    <3> QED BY <3>1, ParsedDeltaType
  <2>4. MaybeDelta(obj.cls, DeltaUnpickle(d))
    <3>1. 0 \in Int
      OBVIOUS
    <3> QED BY <2>2, <3>1, DeltasFit
  <2> QED BY <2>1, <2>3, <2>4, CallKeeps
<1> QED
  BY <1>3, <1>4, <1>5, <1>6, <1>7, <1>8, <1>9, <1>10, <1>11, <1>12, <1>13, <1>14, <1>15, <1>16, <1>17, <1>18,
     <1>19, <1>20, <1>21 DEF DeltaCalls

\* The calls of Time and Instant keep the objects in range.
LEMMA InstantCallsKeep ==
    ASSUME ObjectsInRange, InstantCalls
    PROVE  ObjectsInRange'
<1> USE ArgumentTypes
<1> DEFINE n == obj.nanos
           m == other.nanos
<1>1. /\ Is("time") => n \in Times
      /\ Is("instant") => n \in Instants /\ n \in Int
      /\ Pair("instant") => n - m \in TimeDeltaResults
  <2>1. /\ Is("time") => n \in Times
        /\ Is("instant") => n \in Instants /\ n \in Int
        /\ Pair("instant") => n \in Instants /\ m \in Instants
    BY ObjectHolds DEF ObjectsInRange, Is, Pair
  <2> QED BY <2>1, DifferenceType
<1>2. ASSUME TimeNew PROVE ObjectsInRange'
  <2> DEFINE t(c) == NewTime(c.hour, c.minute, c.second, c.nanosecond)
  <2>1. PICK c \in Components : Give(t(c) # -1, OfNanos("time", t(c)))
    BY <1>2 DEF TimeNew
  <2>2. t(c) # -1 => t(c) \in Times
    BY NewTimeType
  <2> HIDE DEF t
  <2> QED BY <2>1, <2>2, ObjectTypes, GiveKeeps
<1>3. ASSUME ReplaceTime PROVE ObjectsInRange'
  <2> DEFINE p(kwargs) == PlainReplace(Plain(DateMin, n), kwargs)
  <2>1. PICK kwargs \in Replacements : Give(p(kwargs) # NoPlain, OfNanos("time", p(kwargs).time))
    BY <1>3 DEF ReplaceTime
  <2>2. MaybePlain(p(kwargs))
    BY ReplacedPlainType
  <2> HIDE DEF p
  <2>3. p(kwargs) # NoPlain => p(kwargs).time \in Times
    BY <2>2 DEF MaybePlain, IsPlain
  <2> QED BY <2>1, <2>3, ObjectTypes, GiveKeeps
<1>4. ASSUME RoundTime PROVE ObjectsInRange'
  <2> DEFINE inc(c) == RoundArgs(c.arg)
             t(c) == TimeRound(n, inc(c).nanos, c.mode).time
  <2>1. PICK c \in RoundCalls : Give(~inc(c).day /\ inc(c).nanos # 0, OfNanos("time", t(c)))
    BY <1>4 DEF RoundTime
  <2>2. n \in Int
    <3>1. n \in 0 .. NanosPerDay - 1 /\ NanosPerDay \in Nat \ {0}
      BY <1>1, <1>4, ClockFacts DEF RoundTime, Times
    <3> QED BY <3>1, SMT
  <2>3. inc(c).nanos # 0 => t(c) \in Times
    BY <2>2, RoundCallTypes, TimeRoundType
  <2> HIDE DEF inc, t
  <2> QED BY <2>1, <2>3, ObjectTypes, GiveKeeps
<1>5. ASSUME from_utc PROVE ObjectsInRange'
  <2> DEFINE p(c) == into_plain(c)
             i(c) == IF p(c) = NoPlain THEN NoInstant ELSE assume_utc(p(c))
  <2>1. PICK c \in Components : GiveInstant(i(c))
    BY <1>5 DEF from_utc
  <2>2. MaybePlain(p(c))
    BY IntoPlainType
  <2> HIDE DEF p
  <2>3. MaybeInstant(i(c))
    BY <2>2, PlainIsInstant DEF MaybePlain, MaybeInstant
  <2> HIDE DEF i
  <2> QED BY <2>1, <2>3, CallKeeps
<1>6. ASSUME from_timestamps PROVE ObjectsInRange'
  BY <1>6, TimestampType, CallKeeps DEF from_timestamps
<1>7. ASSUME ShiftInstant PROVE ObjectsInRange'
  BY <1>1, <1>7, ShiftedInstantType, CallKeeps DEF ShiftInstant
<1>8. ASSUME RoundInstant PROVE ObjectsInRange'
  <2>1. PICK c \in RoundCalls :
            \/ Give(FALSE, obj)
            \/ RoundArgs(c.arg).nanos # 0 /\ GiveInstant(InstantRound(n, RoundArgs(c.arg).nanos, c.mode))
    BY <1>8 DEF RoundInstant
  <2>2. CASE Give(FALSE, obj)
    BY <2>2, GiveKeeps
  <2>3. CASE RoundArgs(c.arg).nanos # 0 /\ GiveInstant(InstantRound(n, RoundArgs(c.arg).nanos, c.mode))
    <3>1. MaybeInstant(InstantRound(n, RoundArgs(c.arg).nanos, c.mode))
      <4>1. RoundArgs(c.arg).nanos \in Nat \ {0} /\ n \in Int
        BY <1>1, <1>8, <2>3, RoundCallTypes DEF RoundInstant
      <4> QED BY <4>1, RoundedInstantType
    <3> QED BY <2>3, <3>1, CallKeeps
  <2> QED BY <2>1, <2>2, <2>3
<1>9. ASSUME InstantDifference PROVE ObjectsInRange'
  BY <1>1, <1>9, CallKeeps DEF InstantDifference
<1>10. ASSUME to_fixed_offset PROVE ObjectsInRange'
  <2> DEFINE o(f) == IF f \in Offsets THEN to_offset(n, f) ELSE NoOffset
  <2>1. PICK f \in OffsetArgs : GiveOffset(o(f))
    BY <1>10 DEF to_fixed_offset, GiveOffset
  <2>2. MaybeOffset(o(f))
    BY <1>1, <1>10, ToOffsetType DEF to_fixed_offset, MaybeOffset
  <2> HIDE DEF o
  <2> QED BY <2>1, <2>2, CallKeeps
<1> QED
  BY <1>2, <1>3, <1>4, <1>5, <1>6, <1>7, <1>8, <1>9, <1>10 DEF InstantCalls

\* The calls of PlainDateTime keep the objects in range.
LEMMA PlainCallsKeep ==
    ASSUME ObjectsInRange, Is("plain"),
           \/ PlainNew \/ ShiftPlain \/ ReplacePlain \/ ReplacePlainPart \/ PlainBoundary \/ RoundPlain
           \/ AssumeUtc \/ AssumeFixedOffset \/ PlainDifference
    PROVE  ObjectsInRange'
<1> USE ArgumentTypes
<1>1. IsPlain(plain)
  BY ObjectHolds DEF ObjectsInRange, Is, plain
<1>2. other.cls = "plain" => IsPlain(to_plain(other.dt)) /\ IsPlain(other.dt)
  BY ObjectHolds DEF ObjectsInRange, IsOffset
<1> HIDE DEF plain
<1>3. ASSUME PlainNew PROVE ObjectsInRange'
  BY <1>3, IntoPlainType, CallKeeps DEF PlainNew
<1>4. ASSUME ShiftPlain PROVE ObjectsInRange'
  <2>1. \A s \in Deltas3 : MaybePlain(PlainShiftBy(plain, s))
    BY <1>1, PlainShiftByType
  <2>2. ASSUME NEW d \in DeltaArgs, NEW negate \in BOOLEAN
        PROVE  MaybePlain(shift_operator(plain, d, negate))
    <3>1. DeltaNeg(d) \in Deltas3
      BY NegatedDeltaType
    <3> QED BY <2>1, <3>1 DEF shift_operator
  <2>3. \A kwargs \in Kwargs : MaybePlain(PlainShiftBy(plain, parse_datetime_shift_kwargs(kwargs)))
    BY <2>1, KwargsToShift
  <2> QED BY <1>4, <2>2, <2>3, CallKeeps DEF ShiftPlain
<1>5. ASSUME ReplacePlain PROVE ObjectsInRange'
  BY <1>5, ReplacedPlainType, CallKeeps DEF ReplacePlain
<1>6. ASSUME ReplacePlainPart PROVE ObjectsInRange'
  <2>1. MaybePlain(Plain(other.dt.date, plain.time)) /\ MaybePlain(Plain(plain.date, other.dt.time))
    BY <1>1, <1>2, <1>6 DEF ReplacePlainPart, Pair, IsPlain, MaybePlain, Plain
  <2> QED BY <1>6, <2>1, CallKeeps DEF ReplacePlainPart
<1>7. ASSUME PlainBoundary PROVE ObjectsInRange'
  BY <1>1, <1>7, BoundaryType, CallKeeps DEF PlainBoundary
<1>8. ASSUME RoundPlain PROVE ObjectsInRange'
  <2>1. PICK c \in RoundCalls :
            \/ Give(FALSE, obj)
            \/ RoundArgs(c.arg).nanos # 0 /\ GivePlain(PlainRound(plain, RoundArgs(c.arg).nanos, c.mode))
    BY <1>8 DEF RoundPlain
  <2>2. CASE Give(FALSE, obj)
    BY <2>2, GiveKeeps
  <2>3. CASE RoundArgs(c.arg).nanos # 0 /\ GivePlain(PlainRound(plain, RoundArgs(c.arg).nanos, c.mode))
    <3>1. MaybePlain(PlainRound(plain, RoundArgs(c.arg).nanos, c.mode))
      BY <1>1, <2>3, RoundCallTypes, RoundedPlainType
    <3> QED BY <2>3, <3>1, CallKeeps
  <2> QED BY <2>1, <2>2, <2>3
<1>9. ASSUME AssumeUtc PROVE ObjectsInRange'
  BY <1>1, <1>9, PlainIsInstant, CallKeeps DEF AssumeUtc, MaybeInstant
<1>10. ASSUME AssumeFixedOffset PROVE ObjectsInRange'
  <2>1. PICK f \in OffsetArgs : GiveOffset(IF f \in Offsets THEN assume_offset(plain, f) ELSE NoOffset)
    BY <1>10 DEF AssumeFixedOffset
  <2>2. MaybeOffset(IF f \in Offsets THEN assume_offset(plain, f) ELSE NoOffset)
    BY <1>1, AssumeOffsetType DEF MaybePlain, MaybeOffset
  <2> QED BY <2>1, <2>2, CallKeeps
<1>11. ASSUME PlainDifference PROVE ObjectsInRange'
  <2> DEFINE x == assume_utc(plain)
             y == assume_utc(to_plain(other.dt))
  <2>1. GiveNanos(x - y)
    BY <1>11 DEF PlainDifference
  <2>2. x \in Instants /\ y \in Instants
    BY <1>1, <1>2, <1>11, PlainIsInstant DEF PlainDifference, Pair
  <2>3. x - y \in TimeDeltaResults
    BY <2>2, DifferenceType
  <2> QED BY <2>1, <2>3, CallKeeps
<1> QED BY <1>3, <1>4, <1>5, <1>6, <1>7, <1>8, <1>9, <1>10, <1>11

\* The instant of an OffsetDateTime, unless it is out of range.
LEMMA ToInstantType ==
    ASSUME NEW o, IsOffset(o)
    PROVE  /\ MaybeInstant(to_instant(o)) /\ (to_instant(o) # NoInstant => to_instant(o) \in Int)
           /\ IsPlain(to_plain(o))
<1>1. IsPlain(to_plain(o))
  BY DEF IsOffset, IsPlain, to_plain, Plain
<1>2. assume_utc(to_plain(o)) \in Int /\ -o.offset \in Int
  BY <1>1, PlainIsInstant, OffsetType DEF IsOffset
<1>3. MaybeInstant(to_instant(o))
  BY <1>2, ShiftedInstantType DEF to_instant
<1> QED BY <1>1, <1>3, InstantIsInt DEF MaybeInstant

\* The calls of OffsetDateTime keep the objects in range.
LEMMA OffsetCallsKeep ==
    ASSUME ObjectsInRange, Is("offset"),
           \/ OffsetNew \/ OffsetFromTimestamp \/ ReplaceOffsetDate \/ ReplaceOffsetTime \/ ShiftOffset
           \/ ReplaceOffset \/ OffsetBoundary \/ RoundOffset \/ ToPlain \/ ToInstant \/ OffsetDifference
    PROVE  ObjectsInRange'
<1> USE ArgumentTypes
<1> DEFINE o == obj.dt
           e == other.dt
           f == o.offset
<1>1. IsOffset(o) /\ IsPlain(to_plain(o)) /\ f \in Offsets /\ IsPlain(o)
  BY ObjectHolds DEF ObjectsInRange, Is, IsOffset
<1>2. other.cls = "offset" => IsOffset(e) /\ IsPlain(e)
  BY ObjectHolds DEF ObjectsInRange, IsOffset
<1>3. \A p : MaybePlain(p) => MaybeOffset(assume_offset(p, f))
  BY <1>1, AssumeOffsetType
<1>4. ASSUME OffsetNew PROVE ObjectsInRange'
  <2>1. PICK c \in Components, g \in OffsetArgs :
            GiveOffset(IF g \in Offsets THEN assume_offset(into_plain(c), g) ELSE NoOffset)
    BY <1>4 DEF OffsetNew
  <2>2. MaybeOffset(IF g \in Offsets THEN assume_offset(into_plain(c), g) ELSE NoOffset)
    BY IntoPlainType, AssumeOffsetType DEF MaybeOffset
  <2> QED BY <2>1, <2>2, CallKeeps
<1>5. ASSUME OffsetFromTimestamp PROVE ObjectsInRange'
  <2>1. PICK t \in Timestamps, g \in OffsetArgs :
            \E n \in {from_timestamp(t), from_timestamp_millis(t), from_timestamp_nanos(t)} :
                GiveOffset(IF n = NoInstant \/ g \notin Offsets THEN NoOffset ELSE to_offset(n, g))
    BY <1>5 DEF OffsetFromTimestamp
  <2>2. PICK n : MaybeInstant(n) /\ GiveOffset(IF n = NoInstant \/ g \notin Offsets THEN NoOffset ELSE to_offset(n, g))
    BY <2>1, TimestampType
  <2>3. MaybeOffset(IF n = NoInstant \/ g \notin Offsets THEN NoOffset ELSE to_offset(n, g))
    BY <2>2, ToOffsetType DEF MaybeInstant, MaybeOffset
  <2> QED BY <2>2, <2>3, CallKeeps
<1>6. ASSUME ReplaceOffsetDate PROVE ObjectsInRange'
  <2>1. IsPlain(Plain(e.date, o.time))
    BY <1>1, <1>2, <1>6 DEF ReplaceOffsetDate, Pair, IsPlain, Plain
  <2> QED BY <1>3, <1>6, <2>1, CallKeeps DEF ReplaceOffsetDate, MaybePlain
<1>7. ASSUME ReplaceOffsetTime PROVE ObjectsInRange'
  <2>1. IsPlain(Plain(o.date, e.time))
    BY <1>1, <1>2, <1>7 DEF ReplaceOffsetTime, Pair, IsPlain, Plain
  <2> QED BY <1>3, <1>7, <2>1, CallKeeps DEF ReplaceOffsetTime, MaybePlain
<1>8. ASSUME ShiftOffset PROVE ObjectsInRange'
  <2>1. \A s \in Deltas3 : MaybeOffset(OffsetShiftBy(o, s))
    BY <1>1, <1>3, PlainShiftByType DEF OffsetShiftBy
  <2>2. \A d \in DeltaArgs : MaybeOffset(OffsetShiftBy(o, d)) /\ MaybeOffset(OffsetShiftBy(o, DeltaNeg(d)))
    <3>1. ASSUME NEW d \in DeltaArgs PROVE DeltaNeg(d) \in Deltas3
      BY NegatedDeltaType
    <3> QED BY <2>1, <3>1
  <2>3. \A kwargs \in Kwargs : MaybeOffset(OffsetShiftBy(o, parse_datetime_shift_kwargs(kwargs)))
    BY <2>1, KwargsToShift
  <2>4. ASSUME NEW d \in DeltaArgs, NEW negate \in BOOLEAN
        PROVE  MaybeOffset(offset_operator(o, d.nanos, negate))
    <3>1. NegateIf(d.nanos, negate) \in Int
      BY NegateType
    <3>2. MaybePlain(PlainShift(to_plain(o), NegateIf(d.nanos, negate)))
      BY <1>1, <3>1, PlainShiftType
    <3> QED BY <1>3, <3>2 DEF offset_operator
  <2> HIDE DEF o
  <2> QED BY <1>8, <2>2, <2>3, <2>4, CallKeeps DEF ShiftOffset, o
<1>9. ASSUME ReplaceOffset PROVE ObjectsInRange'
  <2>1. PICK kwargs \in Replacements, g \in OffsetArgs \cup {f} :
            GiveOffset(IF g \in Offsets THEN OffsetReplace(o, kwargs, g) ELSE NoOffset)
    BY <1>9 DEF ReplaceOffset
  <2>2. MaybeOffset(IF g \in Offsets THEN OffsetReplace(o, kwargs, g) ELSE NoOffset)
    BY ReplacedPlainType, AssumeOffsetType DEF OffsetReplace, MaybeOffset
  <2> QED BY <2>1, <2>2, CallKeeps
<1>10. ASSUME OffsetBoundary PROVE ObjectsInRange'
  <2>1. PICK unit \in DateTimeBoundaryUnit : GiveOffset(OffsetStartOf(o, unit)) \/ GiveOffset(OffsetEndOf(o, unit))
    BY <1>10 DEF OffsetBoundary
  <2>2. MaybeOffset(OffsetStartOf(o, unit)) /\ MaybeOffset(OffsetEndOf(o, unit))
    BY <1>1, <1>3, BoundaryType DEF OffsetStartOf, OffsetEndOf
  <2> QED BY <2>1, <2>2, CallKeeps
<1>11. ASSUME RoundOffset PROVE ObjectsInRange'
  <2>1. PICK c \in RoundCalls :
            \/ Give(FALSE, obj)
            \/ RoundArgs(c.arg).nanos # 0 /\ GiveOffset(OffsetRound(o, RoundArgs(c.arg).nanos, c.mode))
    BY <1>11 DEF RoundOffset
  <2>2. CASE Give(FALSE, obj)
    BY <2>2, GiveKeeps
  <2>3. CASE RoundArgs(c.arg).nanos # 0 /\ GiveOffset(OffsetRound(o, RoundArgs(c.arg).nanos, c.mode))
    <3> DEFINE p == PlainRound(to_plain(o), RoundArgs(c.arg).nanos, c.mode)
    <3>1. MaybePlain(p)
      BY <1>1, <2>3, RoundCallTypes, RoundedPlainType
    <3>2. OffsetRound(o, RoundArgs(c.arg).nanos, c.mode) = IF p = NoPlain THEN NoOffset ELSE Offset(p, f)
      BY DEF OffsetRound
    <3> HIDE DEF p
    <3>3. MaybeOffset(OffsetRound(o, RoundArgs(c.arg).nanos, c.mode))
      BY <1>1, <3>1, <3>2, AssumeOffsetType DEF MaybePlain, MaybeOffset
    <3> QED BY <2>3, <3>3, CallKeeps
  <2> QED BY <2>1, <2>2, <2>3
<1>12. ASSUME ToPlain PROVE ObjectsInRange'
  BY <1>1, <1>12, CallKeeps DEF ToPlain, plain, MaybePlain
<1>13. ASSUME ToInstant PROVE ObjectsInRange'
  BY <1>1, <1>13, ToInstantType, CallKeeps DEF ToInstant
<1>14. ASSUME OffsetDifference PROVE ObjectsInRange'
  <2> DEFINE x == to_instant(o)
             y == to_instant(e)
  <2>1. Panic \/ (x # NoInstant /\ y # NoInstant /\ GiveNanos(x - y))
    BY <1>14 DEF OffsetDifference
  <2>2. (x # NoInstant => x \in Instants) /\ (y # NoInstant => y \in Instants)
    BY <1>1, <1>2, <1>14, ToInstantType DEF OffsetDifference, Pair, MaybeInstant
  <2>3. x \in Instants /\ y \in Instants => x - y \in TimeDeltaResults
    BY DifferenceType
  <2> HIDE DEF x, y
  <2> QED BY <2>1, <2>2, <2>3, CallKeeps
<1> QED
  BY <1>4, <1>5, <1>6, <1>7, <1>8, <1>9, <1>10, <1>11, <1>12, <1>13, <1>14

\* Every object that a sequence of calls leads to is in the range of its class: a TimeDelta is
\* less than a second beyond its range, the months and days of a delta are in theirs and have one
\* sign (the invariant of src/domain/date_delta.rs), a DateDelta has no time, a time lies within
\* the day, an instant within the range, a date exists, an offset is below a day.
THEOREM ValuesStayInRange == Spec => []ObjectsInRange
<1>1. Init => ObjectsInRange
  BY ArgumentsAssumption DEF Init, ObjectsInRange
<1>2. ObjectsInRange /\ [Next]_vars => ObjectsInRange'
  <2> SUFFICES ASSUME ObjectsInRange, [Next]_vars PROVE ObjectsInRange'
    OBVIOUS
  <2>1. CASE DeltaCalls
    BY <2>1, DeltaCallsKeep
  <2>2. CASE InstantCalls
    BY <2>2, InstantCallsKeep
  <2>3. CASE DateTimeCalls
    <3>1. \/ /\ Is("plain")
             /\ \/ PlainNew \/ ShiftPlain \/ ReplacePlain \/ ReplacePlainPart \/ PlainBoundary \/ RoundPlain
                \/ AssumeUtc \/ AssumeFixedOffset \/ PlainDifference
          \/ /\ Is("offset")
             /\ \/ OffsetNew \/ OffsetFromTimestamp \/ ReplaceOffsetDate \/ ReplaceOffsetTime \/ ShiftOffset
                \/ ReplaceOffset \/ OffsetBoundary \/ RoundOffset \/ ToPlain \/ ToInstant \/ OffsetDifference
      <4>1. /\ PlainNew \/ ShiftPlain \/ ReplacePlain \/ PlainBoundary \/ RoundPlain \/ AssumeUtc
               \/ AssumeFixedOffset => Is("plain")
            /\ ReplacePlainPart \/ PlainDifference => Is("plain")
        BY DEF PlainNew, ShiftPlain, ReplacePlain, PlainBoundary, RoundPlain, AssumeUtc, AssumeFixedOffset,
               ReplacePlainPart, PlainDifference, Pair, Is
      <4>2. /\ OffsetNew \/ OffsetFromTimestamp \/ ShiftOffset \/ ReplaceOffset \/ OffsetBoundary \/ RoundOffset
               \/ ToPlain \/ ToInstant => Is("offset")
            /\ ReplaceOffsetDate \/ ReplaceOffsetTime \/ OffsetDifference => Is("offset")
        BY DEF OffsetNew, OffsetFromTimestamp, ShiftOffset, ReplaceOffset, OffsetBoundary, RoundOffset, ToPlain,
               ToInstant, ReplaceOffsetDate, ReplaceOffsetTime, OffsetDifference, Pair, Is
      <4> QED BY <2>3, <4>1, <4>2 DEF DateTimeCalls
    <3> QED BY <3>1, PlainCallsKeep, OffsetCallsKeep
  <2>4. CASE UNCHANGED vars
    BY <2>4 DEF vars, ObjectsInRange
  <2> QED BY <2>1, <2>2, <2>3, <2>4 DEF Next
<1> QED BY <1>1, <1>2, PTL DEF Spec

\* The seconds of a datetime and of its instant.
LEMMA SecondsOfPlain ==
    ASSUME NEW p, IsPlain(p)
    PROVE  LocalSeconds(p) = secs(assume_utc(p)) /\ p # NoPlain
<1> DEFINE k == NanosPerSecond
           e == SecondsPerDay
           u == unix_days(p.date)
           t == p.time
           s == secs(t)
           m == subsec(t)
<1>1. k \in Nat \ {0} /\ e \in Nat \ {0} /\ NanosPerDay = e * k
  BY ClockFacts
<1>2. u \in Int /\ t \in Int
  BY PlainIsInstant
<1>3. s \in Int /\ m \in Nat /\ m < k /\ t = k * s + m
  BY <1>2, SecsSplit
<1>4. assume_utc(p) = u * (e * k) + t
  BY <1>1 DEF assume_utc
<1>5. LocalSeconds(p) = u * e + s
  BY DEF LocalSeconds
<1> DEFINE q == u * e + s
           x == u * (e * k) + t
<1> HIDE DEF k, e, u, t, s, m
<1>6. q \in Int /\ x \in Int /\ x = k * q + m
  BY <1>1, <1>2, <1>3, SMT
<1>7. x \div k = q
  <2>1. 0 < k /\ k \in Int
    BY <1>1, SMT
  <2> HIDE DEF q, x
  <2> QED BY <1>3, <1>6, <2>1, DivUnique
<1>8. p # NoPlain
  <2>1. p.date # NoDate
    BY NoneIsNoDate DEF IsPlain
  <2> QED BY <2>1 DEF NoPlain, Plain
<1> QED BY <1>4, <1>5, <1>7, <1>8 DEF secs, k


-----------------------------------------------------------------------------
(***************************************************************************)
(* The instant of an OffsetDateTime.                                       *)
(***************************************************************************)
InstantFits(o) == o.cls = "offset" => to_instant(o.dt) # NoInstant

\* A call that makes no OffsetDateTime whose instant is out of range
Sound == obj' = obj \/ InstantFits(obj')

\* What assume_offset gives has an instant: it is checked.
LEMMA AssumedInstant ==
    ASSUME NEW p, MaybePlain(p), NEW f \in Offsets
    PROVE  assume_offset(p, f) # NoOffset => to_instant(assume_offset(p, f)) # NoInstant
<1> SUFFICES ASSUME assume_offset(p, f) # NoOffset
             PROVE  to_instant(assume_offset(p, f)) # NoInstant
  OBVIOUS
<1> DEFINE o == Offset(p, f)
           q == to_plain(o)
           t == assume_utc(q)
<1>1. p # NoPlain /\ OffsetInRange(p, f) /\ assume_offset(p, f) = o
  BY DEF assume_offset
<1>2. IsPlain(p)
  BY <1>1 DEF MaybePlain
<1>3. IsPlain(q) /\ q.date = p.date /\ q.time = p.time /\ o.offset = f
  BY <1>2 DEF to_plain, Offset, Plain, IsPlain
<1>4. t \in Int /\ secs(t) = LocalSeconds(q)
  BY <1>3, PlainIsInstant, SecondsOfPlain
<1>5. LocalSeconds(q) = LocalSeconds(p)
  BY <1>3 DEF LocalSeconds
<1>6. f \in Int /\ -f \in Int
  BY OffsetType
<1>7. secs(t) - f \in EpochMin .. EpochMax
  BY <1>1, <1>4, <1>5 DEF OffsetInRange
<1>8. secs(t) + (-f) \in EpochMin .. EpochMax
  <2> DEFINE x == secs(t)
  <2>1. x \in Int
    BY <1>4, SecsSplit
  <2> HIDE DEF x, t
  <2>2. x + (-f) = x - f
    BY <1>6, <2>1, SMT
  <2> QED BY <1>7, <2>2 DEF x
<1> HIDE DEF t
<1>9. InstantShiftByOffset(t, -f) \in Instants
  BY <1>4, <1>6, <1>8, ShiftedInstantType
<1>10. to_instant(o) = InstantShiftByOffset(t, -f)
  BY <1>3 DEF to_instant, t
<1> QED BY <1>1, <1>9, <1>10, InstantIsInt

\* What to_offset gives has the instant that it comes from.
LEMMA ToOffsetInstant ==
    ASSUME NEW n \in Instants, NEW f \in Offsets
    PROVE  to_offset(n, f) # NoOffset => to_instant(to_offset(n, f)) # NoInstant
<1> SUFFICES ASSUME to_offset(n, f) # NoOffset
             PROVE  to_instant(to_offset(n, f)) # NoInstant
  OBVIOUS
<1> DEFINE k == NanosPerSecond
           local == InstantShiftByOffset(n, f)
           o == Offset(to_utc_plain(local), f)
<1>1. n \in Int /\ secs(n) \in EpochMin .. EpochMax
  BY InstantIsInt
<1>2. f \in Int /\ -f \in Int /\ k \in Nat \ {0}
  BY OffsetType, ClockFacts
<1>3. local # NoInstant /\ to_offset(n, f) = o
  BY DEF to_offset
<1>4. local \in Instants /\ local = n + f * k
  BY <1>1, <1>2, <1>3, ShiftedInstantType DEF MaybeInstant, InstantShiftByOffset
<1> HIDE DEF local, k
<1>5. local \in Int
  BY <1>4, InstantIsInt
<1>6. assume_utc(to_plain(o)) = local /\ o.offset = f
  <2>1. to_plain(o) = to_utc_plain(local) /\ o.offset = f
    BY <1>4, InstantIsPlain DEF to_plain, Offset, Plain
  <2> QED BY <1>4, <2>1, InstantIsPlain
<1>7. secs(local) + (-f) = secs(n)
  <2> DEFINE a == secs(n)
             b == subsec(n)
  <2>1. a \in Int /\ b \in Nat /\ b < k /\ n = k * a + b
    BY <1>1, SecsSplit DEF k
  <2> HIDE DEF a, b
  <2>2. a + f \in Int /\ k * (a + f) = k * a + f * k /\ k * a \in Int /\ f * k \in Int
    BY <1>2, <2>1, SMT
  <2>3. local = k * (a + f) + b
    BY <1>1, <1>4, <2>1, <2>2, SMT
  <2>4. local \div k = a + f
    BY <1>2, <1>5, <2>1, <2>2, <2>3, DivUnique
  <2>5. (a + f) + (-f) = a
    BY <1>2, <2>1, SMT
  <2> QED BY <2>4, <2>5 DEF secs, a, k
<1>8. to_instant(o) = InstantShiftByOffset(local, -f)
  BY <1>6 DEF to_instant
<1>9. InstantShiftByOffset(local, -f) \in Instants
  BY <1>1, <1>2, <1>5, <1>7, ShiftedInstantType
<1> QED BY <1>3, <1>8, <1>9, InstantIsInt

\* Calls that give an object of another class make no such OffsetDateTime.
LEMMA GivesSound ==
    /\ \A ok, new : Give(ok, new) /\ (ok => new.cls # "offset") => Sound
    /\ \A n : GiveNanos(n) \/ GiveInstant(n) => Sound
    /\ \A d : HasDelta /\ GiveDelta(d) => Sound
    /\ \A p : GivePlain(p) => Sound
    /\ \A o : GiveOffset(o) /\ (o # NoOffset => to_instant(o) # NoInstant) => Sound
    /\ Panic => Sound
<1>1. ASSUME NEW ok, NEW new, Give(ok, new), ok => new.cls # "offset"
      PROVE  Sound
  BY <1>1 DEF Give, Sound, InstantFits
<1>2. /\ \A cls, n : OfNanos(cls, n).cls = cls
      /\ \A cls, d : OfDelta(cls, d).cls = cls
      /\ \A p : OfPlain(p).cls = "plain"
      /\ \A o : OfOffset(o).dt = o
  BY DEF OfNanos, OfDelta, OfPlain, OfOffset, Object
<1>3. "time_delta" # "offset" /\ "instant" # "offset" /\ "plain" # "offset"
  OBVIOUS
<1>4. \A n : GiveNanos(n) \/ GiveInstant(n) => Sound
  BY <1>1, <1>2, <1>3 DEF GiveNanos, GiveInstant
<1>5. \A d : HasDelta /\ GiveDelta(d) => Sound
  <2>1. HasDelta => obj.cls # "offset"
    BY DEF HasDelta
  <2> QED BY <1>1, <1>2, <2>1 DEF GiveDelta
<1>6. \A p : GivePlain(p) => Sound
  BY <1>1, <1>2, <1>3 DEF GivePlain
<1>7. ASSUME NEW o, GiveOffset(o), o # NoOffset => to_instant(o) # NoInstant
      PROVE  Sound
  BY <1>2, <1>7 DEF GiveOffset, Give, Sound, InstantFits
<1>8. Panic => Sound
  BY DEF Panic, Sound
<1> QED BY <1>1, <1>4, <1>5, <1>6, <1>7, <1>8

\* The calls of the delta classes, of Time and of Instant
LEMMA OtherCallsSound ==
    ASSUME ObjectsInRange, DeltaCalls \/ InstantCalls
    PROVE  Sound
<1>1. \A cls, n : OfNanos(cls, n).cls = cls
  BY DEF OfNanos, Object
<1>2. \A cls, d : OfDelta(cls, d).cls = cls
  BY DEF OfDelta, Object
<1>3. ASSUME TimeDeltaNew \/ TimeDeltaPlus \/ TimeDeltaMinus \/ TimeDeltaNegAbs \/ TimeDeltaTimes \/ RoundTimeDelta
      PROVE  Sound
  BY <1>3, GivesSound
  DEF TimeDeltaNew, TimeDeltaPlus, TimeDeltaMinus, TimeDeltaNegAbs, TimeDeltaTimes, RoundTimeDelta
<1>4. ASSUME TimeDeltaDivide \/ TimeDeltaModulo \/ time_part \/ TimeDeltaReread \/ TimeNew \/ ReplaceTime \/ RoundTime
      PROVE  Sound
  <2>1. \E ok, n : Give(ok, OfNanos("time_delta", n)) \/ Give(ok, OfNanos("time", n))
    BY <1>4 DEF TimeDeltaDivide, TimeDeltaModulo, time_part, TimeDeltaReread, TimeNew, ReplaceTime, RoundTime
  <2>2. \A n : OfNanos("time_delta", n).cls # "offset" /\ OfNanos("time", n).cls # "offset"
    BY <1>1
  <2> QED BY <2>1, <2>2, GivesSound
<1>5. ASSUME date_part \/ DateDeltaWithTime
      PROVE  Sound
  <2>1. \E ok, d : Give(ok, OfDelta("date_delta", d)) \/ Give(ok, OfDelta("datetime_delta", d))
    BY <1>5 DEF date_part, DateDeltaWithTime
  <2>2. \A d : OfDelta("date_delta", d).cls # "offset" /\ OfDelta("datetime_delta", d).cls # "offset"
    BY <1>2
  <2> QED BY <2>1, <2>2, GivesSound
<1>6. ASSUME DeltaNew \/ DeltaPlus \/ DeltaMinus \/ DeltaTimes \/ DeltaNegAbs \/ DateDeltaNew \/ DateDeltaTimes
             \/ DateDeltaReread \/ DeltaReread
      PROVE  Sound
  <2>1. HasDelta /\ \E d : GiveDelta(d)
    BY <1>6 DEF DeltaNew, DeltaPlus, DeltaMinus, DeltaTimes, DeltaNegAbs, DateDeltaNew, DateDeltaTimes,
                DateDeltaReread, DeltaReread, HasDelta, Is
  <2> QED BY <2>1, GivesSound
<1>7. ASSUME from_utc \/ from_timestamps \/ ShiftInstant \/ RoundInstant \/ InstantDifference
      PROVE  Sound
  <2>1. (\E n : GiveNanos(n) \/ GiveInstant(n)) \/ Give(FALSE, obj)
    BY <1>7 DEF from_utc, from_timestamps, ShiftInstant, RoundInstant, InstantDifference
  <2> QED BY <2>1, GivesSound
<1>8. ASSUME to_fixed_offset
      PROVE  Sound
  <2> DEFINE o(f) == IF f \in Offsets THEN to_offset(obj.nanos, f) ELSE NoOffset
  <2>1. PICK f \in OffsetArgs : GiveOffset(o(f))
    BY <1>8 DEF to_fixed_offset, GiveOffset
  <2>2. obj.nanos \in Instants
    BY <1>8, ObjectHolds DEF ObjectsInRange, to_fixed_offset, Is
  <2>3. o(f) # NoOffset => to_instant(o(f)) # NoInstant
    BY <2>2, ToOffsetInstant
  <2> HIDE DEF o
  <2> QED BY <2>1, <2>3, GivesSound
<1> QED BY <1>3, <1>4, <1>5, <1>6, <1>7, <1>8 DEF DeltaCalls, InstantCalls

\* The calls of PlainDateTime and OffsetDateTime, without round
LEMMA DateTimeCallsSound ==
    ASSUME ObjectsInRange, DateTimeCalls, ~RoundOffset
    PROVE  Sound
<1> USE ArgumentTypes
<1>1. \A p, f : MaybePlain(p) /\ f \in Offsets =>
            (assume_offset(p, f) # NoOffset => to_instant(assume_offset(p, f)) # NoInstant)
  BY AssumedInstant
<1>2. Is("plain") => IsPlain(plain) /\ MaybePlain(plain)
  BY ObjectHolds DEF ObjectsInRange, Is, plain, MaybePlain
<1>3. Is("offset") => IsPlain(obj.dt) /\ IsPlain(plain) /\ obj.dt.offset \in Offsets
  BY ObjectHolds DEF ObjectsInRange, Is, IsOffset, plain
<1>4. Pair("offset") => Is("offset") /\ IsPlain(other.dt)
  BY ObjectHolds DEF ObjectsInRange, Pair, Is, IsOffset
<1>5. ASSUME PlainNew \/ ReplacePlainPart \/ ShiftPlain \/ ReplacePlain \/ PlainBoundary \/ RoundPlain \/ ToPlain
      PROVE  Sound
  <2>1. (\E p : GivePlain(p)) \/ Give(FALSE, obj)
    BY <1>5 DEF PlainNew, ReplacePlainPart, ShiftPlain, ReplacePlain, PlainBoundary, RoundPlain, ToPlain
  <2> QED BY <2>1, GivesSound
<1>6. ASSUME AssumeUtc \/ PlainDifference \/ ToInstant \/ OffsetDifference
      PROVE  Sound
  <2>1. (\E n : GiveNanos(n) \/ GiveInstant(n)) \/ Panic
    BY <1>6 DEF AssumeUtc, PlainDifference, ToInstant, OffsetDifference
  <2> QED BY <2>1, GivesSound
<1>7. ASSUME AssumeFixedOffset
      PROVE  Sound
  <2>1. PICK f \in OffsetArgs : GiveOffset(IF f \in Offsets THEN assume_offset(plain, f) ELSE NoOffset)
    BY <1>7 DEF AssumeFixedOffset
  <2>2. MaybePlain(plain)
    BY <1>2, <1>7 DEF AssumeFixedOffset
  <2> HIDE DEF plain
  <2> QED BY <1>1, <2>1, <2>2, GivesSound
<1>8. ASSUME OffsetNew
      PROVE  Sound
  <2>1. PICK c \in Components, f \in OffsetArgs :
            GiveOffset(IF f \in Offsets THEN assume_offset(into_plain(c), f) ELSE NoOffset)
    BY <1>8 DEF OffsetNew
  <2> QED BY <1>1, <2>1, IntoPlainType, GivesSound
<1>9. ASSUME OffsetFromTimestamp
      PROVE  Sound
  <2>1. PICK t \in Timestamps, g \in OffsetArgs :
            \E n \in {from_timestamp(t), from_timestamp_millis(t), from_timestamp_nanos(t)} :
                GiveOffset(IF n = NoInstant \/ g \notin Offsets THEN NoOffset ELSE to_offset(n, g))
    BY <1>9 DEF OffsetFromTimestamp
  <2>2. PICK n : MaybeInstant(n) /\ GiveOffset(IF n = NoInstant \/ g \notin Offsets THEN NoOffset ELSE to_offset(n, g))
    BY <2>1, TimestampType
  <2> QED BY <2>2, ToOffsetInstant, GivesSound DEF MaybeInstant
<1>10. ASSUME ReplaceOffsetDate \/ ReplaceOffsetTime
       PROVE  Sound
  <2>1. Pair("offset")
    BY <1>10 DEF ReplaceOffsetDate, ReplaceOffsetTime
  <2>2. MaybePlain(Plain(other.dt.date, obj.dt.time)) /\ MaybePlain(Plain(obj.dt.date, other.dt.time))
    BY <1>3, <1>4, <2>1 DEF IsPlain, Plain, MaybePlain
  <2>3. obj.dt.offset \in Offsets
    BY <1>3, <1>4, <2>1
  <2> QED BY <1>1, <1>10, <2>2, <2>3, GivesSound DEF ReplaceOffsetDate, ReplaceOffsetTime
<1>11. ASSUME ShiftOffset
       PROVE  Sound
  <2> DEFINE o == obj.dt
             p == to_plain(o)
  <2>1. IsPlain(p) /\ o.offset \in Offsets
    BY <1>3, <1>11 DEF ShiftOffset, plain
  <2>2. \A s \in Deltas3 : OffsetShiftBy(o, s) # NoOffset => to_instant(OffsetShiftBy(o, s)) # NoInstant
    BY <1>1, <2>1, PlainShiftByType DEF OffsetShiftBy
  <2>3. \A n \in Int : assume_offset(PlainShift(p, n), o.offset) # NoOffset
                        => to_instant(assume_offset(PlainShift(p, n), o.offset)) # NoInstant
    BY <1>1, <2>1, PlainShiftType
  <2>4. \A d \in DeltaArgs : d \in Deltas3 /\ DeltaNeg(d) \in Deltas3
    BY NegatedDeltaType
  <2>5. \A d \in DeltaArgs, negate \in BOOLEAN : NegateIf(d.nanos, negate) \in Int
    BY NegateType
  <2>6. \A kwargs \in Kwargs : parse_datetime_shift_kwargs(kwargs) \in Deltas3
    BY KwargsToShift
  <2>7. (\E s \in Deltas3 : GiveOffset(OffsetShiftBy(o, s)))
        \/ (\E n \in Int : GiveOffset(assume_offset(PlainShift(p, n), o.offset)))
    BY <1>11, <2>4, <2>5, <2>6 DEF ShiftOffset, offset_operator
  <2> HIDE DEF o, p
  <2> QED BY <2>2, <2>3, <2>7, GivesSound
<1>12. ASSUME ReplaceOffset
       PROVE  Sound
  <2>1. PICK kwargs \in Replacements, g \in OffsetArgs \cup {obj.dt.offset} :
            GiveOffset(IF g \in Offsets THEN OffsetReplace(obj.dt, kwargs, g) ELSE NoOffset)
    BY <1>12 DEF ReplaceOffset
  <2>2. g \in Offsets /\ OffsetReplace(obj.dt, kwargs, g) # NoOffset
            => to_instant(OffsetReplace(obj.dt, kwargs, g)) # NoInstant
    BY <1>1, ReplacedPlainType DEF OffsetReplace
  <2> QED BY <2>1, <2>2, GivesSound
<1>13. ASSUME OffsetBoundary
       PROVE  Sound
  <2>1. PICK unit \in DateTimeBoundaryUnit : GiveOffset(OffsetStartOf(obj.dt, unit)) \/ GiveOffset(OffsetEndOf(obj.dt, unit))
    BY <1>13 DEF OffsetBoundary
  <2>2. IsPlain(to_plain(obj.dt)) /\ obj.dt.offset \in Offsets
    BY <1>3, <1>13 DEF OffsetBoundary, plain
  <2>3. /\ OffsetStartOf(obj.dt, unit) # NoOffset => to_instant(OffsetStartOf(obj.dt, unit)) # NoInstant
        /\ OffsetEndOf(obj.dt, unit) # NoOffset => to_instant(OffsetEndOf(obj.dt, unit)) # NoInstant
    BY <1>1, <2>2, BoundaryType DEF OffsetStartOf, OffsetEndOf
  <2> QED BY <2>1, <2>3, GivesSound
<1> QED
  BY <1>5, <1>6, <1>7, <1>8, <1>9, <1>10, <1>11, <1>12, <1>13 DEF DateTimeCalls

\* The instant of an OffsetDateTime is in range, too: every call that makes one checks it, but
\* round (OffsetDateTime.round of src/classes/offset_datetime.rs), after which the methods that
\* need the instant panic.
THEOREM OnlyRoundLosesInstants == Spec => [][RoundOffset \/ Sound]_vars
<1>1. ObjectsInRange /\ [Next]_vars => [RoundOffset \/ Sound]_vars
  BY OtherCallsSound, DateTimeCallsSound DEF Next
<1> QED BY <1>1, ValuesStayInRange, PTL DEF Spec

-----------------------------------------------------------------------------
(***************************************************************************)
(* What the runs check of instants and units, for every scale and every    *)
(* argument.                                                               *)
(***************************************************************************)

\* An instant is shifted exactly or refused, a timestamp in milliseconds is rounded down, and a
\* datetime and its instant determine each other: Instant::shift, from_timestamp_millis,
\* PlainDateTime.assume_utc and OffsetDateTime.to_instant.
THEOREM InstantsAlwaysAdd == Spec => []InstantsAddExactly
<1>1. ObjectsInRange => InstantsAddExactly
  <2> SUFFICES ASSUME ObjectsInRange PROVE InstantsAddExactly
    OBVIOUS
  <2> DEFINE n == obj.nanos
             o == obj.dt
  <2>1. ASSUME Is("instant"), NEW d \in DeltaArgs
        PROVE  InstantShift(n, d.nanos) =
                    IF n + d.nanos \in Instants
                       /\ (secs(n + d.nanos) > EpochMin \/ secs(n) + secs(d.nanos) = EpochMin)
                    THEN n + d.nanos ELSE NoInstant
    <3>1. n \in Int /\ d.nanos \in Int
      BY <2>1, ObjectHolds, ArgumentTypes DEF ObjectsInRange, Is
    <3> HIDE DEF n
    <3> QED BY <3>1, ShiftInstantAdds
  <2>2. Is("instant") => from_timestamp_millis(timestamp_millis(n)) = n - (n % NanosPerMilli)
    BY ObjectHolds, MillisRoundDown DEF ObjectsInRange, Is
  <2>3. Is("plain") => to_utc_plain(assume_utc(plain)) = plain
    <3>1. Is("plain") => IsPlain(plain)
      BY ObjectHolds DEF ObjectsInRange, Is, plain
    <3>2. plain = Plain(plain.date, plain.time)
      BY DEF plain, to_plain, Plain
    <3> HIDE DEF plain
    <3> QED BY <3>1, <3>2, PlainIsInstant
  <2>4. Is("offset") /\ to_instant(o) # NoInstant => to_offset(to_instant(o), o.offset) = o
    BY ObjectHolds, OffsetComesBack DEF ObjectsInRange, Is, IsOffset
  <2> QED BY <2>1, <2>2, <2>3, <2>4 DEF InstantsAddExactly
<1> QED BY <1>1, ValuesStayInRange, PTL

\* The units of a datetime tile: each datetime lies between the start and the end of its unit,
\* and the next unit starts a nanosecond after the end, also across midnight and the new year.
THEOREM DateTimeUnitsAlwaysTile == Spec => []DateTimeUnitsTile
<1>1. ObjectsInRange => DateTimeUnitsTile
  <2> SUFFICES ASSUME ObjectsInRange, Is("plain"), NEW unit \in DateTimeBoundaryUnit PROVE UnitTiles(plain, unit)
    BY DEF DateTimeUnitsTile, UnitTiles
  <2>1. IsPlain(plain) /\ plain = Plain(plain.date, plain.time)
    BY ObjectHolds DEF ObjectsInRange, Is, plain, to_plain, Plain
  <2> QED BY <2>1, EveryUnitTiles
<1> QED BY <1>1, ValuesStayInRange, PTL

-----------------------------------------------------------------------------
(***************************************************************************)
(* Differences in exact units.                                             *)
(***************************************************************************)

\* The number of a day and what the time adds to it.
LEMMA DaysAndTime ==
    ASSUME NEW h \in Nat \ {0}, NEW u \in Int, NEW v \in Int, NEW s \in Nat, NEW t \in Nat, s < h, t < h
    PROVE  /\ u * h + s \in Int /\ v * h + t \in Int
           /\ u < v => u * h + s < v * h + t
           /\ u = v => (u * h + s <= v * h + t <=> s <= t)
           /\ u * h + s <= v * h + t => u <= v
<1> DEFINE w == v - u
<1>1. w \in Int /\ v * h = u * h + w * h /\ u * h \in Int /\ w * h \in Int
  BY SMT
<1>2. (w >= 1 => w * h >= h) /\ (w <= -1 => w * h <= -h) /\ (w = 0 => w * h = 0)
  BY <1>1, SMT
<1> HIDE DEF w
<1>3. (u < v <=> w >= 1) /\ (u > v <=> w <= -1) /\ (u = v <=> w = 0)
  BY SMT DEF w
<1> QED BY <1>1, <1>2, <1>3, SMT

\* Later instants have later seconds.
LEMMA SecsOrder ==
    ASSUME NEW n \in Int, NEW m \in Int, n <= m
    PROVE  secs(n) <= secs(m)
<1> DEFINE k == NanosPerSecond
           x == secs(n)
           y == secs(m)
           s == subsec(n)
           t == subsec(m)
<1>1. /\ k \in Nat \ {0} /\ x \in Int /\ y \in Int /\ s \in Nat /\ t \in Nat /\ s < k /\ t < k
      /\ n = k * x + s /\ m = k * y + t
  BY SecsSplit, ClockFacts
<1> HIDE DEF k, x, y, s, t
<1>2. x * k = k * x /\ y * k = k * y
  BY <1>1, SMT
<1>3. x * k + s <= y * k + t
  BY <1>1, <1>2
<1>4. x <= y
  BY <1>1, <1>3, DaysAndTime
<1> QED BY <1>4 DEF x, y

\* Multiples of multiples, and sums of multiples.
LEMMA MultipleOf ==
    ASSUME NEW a, NEW b, NEW g \in Int, Multiple(a, b), Multiple(b, g)
    PROVE  Multiple(a, g)
<1>1. PICK p \in Int : a = b * p
  BY DEF Multiple
<1>2. PICK q \in Int : b = g * q
  BY DEF Multiple
<1>3. a = g * (q * p) /\ q * p \in Int
  BY <1>1, <1>2, SMT
<1> QED BY <1>3 DEF Multiple

LEMMA MultipleLess ==
    ASSUME NEW a, NEW b, NEW q \in Int, NEW g \in Int, Multiple(a, g), Multiple(b, g)
    PROVE  Multiple(a - q * b, g)
<1>1. PICK x \in Int : a = g * x
  BY DEF Multiple
<1>2. PICK y \in Int : b = g * y
  BY DEF Multiple
<1>3. q * b = g * (q * y) /\ q * y \in Int /\ g * (q * y) \in Int /\ g * x \in Int
  BY <1>2, SMT
<1>4. a - q * b = g * (x - q * y) /\ x - q * y \in Int
  BY <1>1, <1>3, SMT
<1> QED BY <1>4 DEF Multiple

\* Below one step there is only zero.
LEMMA MultipleZero ==
    ASSUME NEW g \in Nat \ {0}, NEW a \in Int, Multiple(a, g), -g < a, a < g
    PROVE  a = 0
<1>1. PICK x \in Int : a = g * x
  BY DEF Multiple
<1>2. x >= 1 => g * x >= g
  BY SMT
<1>3. x <= -1 => g * x <= -g
  BY SMT
<1>4. x = 0 => a = 0
  BY <1>1, SMT
<1>5. x >= 1 \/ x <= -1 \/ x = 0
  BY <1>1
<1> QED BY <1>1, <1>2, <1>3, <1>4, <1>5

\* Rust's division truncates: quotient and remainder have the sign of the dividend.
LEMMA QuotSplit ==
    ASSUME NEW a \in Int, NEW b \in Nat \ {0}
    PROVE  /\ Quot(a, b) \in Int /\ Rem(a, b) \in Int /\ a = Quot(a, b) * b + Rem(a, b)
           /\ a >= 0 => Quot(a, b) >= 0 /\ 0 <= Rem(a, b) /\ Rem(a, b) < b
           /\ a <= 0 => Quot(a, b) <= 0 /\ Rem(a, b) <= 0 /\ -b < Rem(a, b)
<1> DEFINE x == Distance(0, a)
           q == x \div b
           r == x % b
           z == Quot(a, b)
<1>1. x \in Nat /\ Distance(0, b) = b /\ (a >= 0 => x = a) /\ (a < 0 => x = -a)
  BY SMT DEF Distance
<1>2. z = IF a < 0 THEN -q ELSE q
  <2>1. ~(b < 0)
    BY SMT
  <2> HIDE DEF x
  <2> QED BY <1>1, <2>1 DEF Quot, x
<1> HIDE DEF x
<1>3. x = b * q + r /\ q \in Int /\ r \in Nat /\ r < b
  BY <1>1, DivSplit
<1>4. q >= 0
  <2> HIDE DEF q, r
  <2>1. q <= -1 => b * q <= -b
    BY <1>3, SMT
  <2>2. b * q \in Int
    BY <1>3, SMT
  <2> QED BY <1>1, <1>3, <2>1, <2>2, SMT
<1>5. Rem(a, b) = a - z * b
  BY DEF Rem
<1> HIDE DEF q, r, z
<1>6. z \in Int /\ z * b = IF a < 0 THEN -(b * q) ELSE b * q
  BY <1>2, <1>3, SMT
<1>7. b * q \in Int /\ z * b \in Int
  BY <1>3, <1>6, SMT
<1> DEFINE w == z * b
<1>8. Rem(a, b) = IF a < 0 THEN -r ELSE r
  <2> DEFINE v == b * q
  <2> HIDE DEF v, w
  <2> QED BY <1>1, <1>3, <1>5, <1>6, <1>7, SMT DEF v, w
<1>9. a = w + Rem(a, b) /\ Rem(a, b) \in Int
  <2>1. Rem(a, b) \in Int
    BY <1>3, <1>8, SMT
  <2> HIDE DEF w
  <2> QED BY <1>5, <1>7, <2>1, SMT DEF w
<1> HIDE DEF w
<1>10. a >= 0 => z >= 0 /\ 0 <= Rem(a, b) /\ Rem(a, b) < b
  BY <1>2, <1>3, <1>4, <1>8, SMT
<1>11. a <= 0 => z <= 0 /\ Rem(a, b) <= 0 /\ -b < Rem(a, b)
  <2>1. a = 0 => z = 0 /\ Rem(a, b) = 0
    <3>1. a = 0 => q = 0 /\ r = 0
      <4>1. q >= 1 => b * q >= b
        BY <1>3, SMT
      <4> QED BY <1>1, <1>3, <1>4, <1>7, <4>1, SMT
    <3> QED BY <1>2, <1>8, <3>1
  <2> QED BY <1>2, <1>3, <1>4, <1>8, <2>1, SMT
<1> QED BY <1>6, <1>9, <1>10, <1>11 DEF z, w

\* The smallest unit of a set is the last one in the order that the set has.
LEMMA LastOf ==
    ASSUME NEW order, NEW n \in Nat, DOMAIN order = 1 .. n, NEW units, NEW k \in 1 .. n, order[k] \in units,
           \A j \in 1 .. n : order[j] \in units => j <= k
    PROVE  smallest(order, units) = order[k]
<1> DEFINE S == {i \in 1 .. n : order[i] \in units}
<1>1. smallest(order, units) = order[Max(S)]
  BY DEF smallest
<1>2. k \in S /\ S \subseteq Int /\ \A j \in S : j <= k
  OBVIOUS
<1> HIDE DEF S
<1>3. \E x \in S : \A y \in S : x >= y
  BY <1>2
<1>4. Max(S) \in S /\ \A y \in S : Max(S) >= y
  BY <1>3 DEF Max
<1> DEFINE x == Max(S)
<1> HIDE DEF x
<1>5. x \in Int /\ k \in Int /\ x >= k /\ x <= k
  BY <1>2, <1>4 DEF x
<1>6. x = k
  BY <1>5, SMT
<1> QED BY <1>1, <1>6 DEF x

\* The units of in_exact_units, and those of a difference that are not calendar units.
ExactSix == {"weeks", "days", "hours", "minutes", "seconds", "nanoseconds"}
ExactFour == {"hours", "minutes", "seconds", "nanoseconds"}

LEMMA SmallestExact ==
    ASSUME NEW units \in SUBSET ExactSix, units # {}, NEW last, last = smallest(ExactUnit, units)
    PROVE  /\ last \in units
           /\ last = "weeks" => units \subseteq {"weeks"}
           /\ last = "days" => units \subseteq {"weeks", "days"}
           /\ last = "hours" => units \subseteq {"weeks", "days", "hours"}
           /\ last = "minutes" => units \subseteq {"weeks", "days", "hours", "minutes"}
           /\ last = "seconds" => units \subseteq {"weeks", "days", "hours", "minutes", "seconds"}
<1>1. /\ DOMAIN ExactUnit = 1 .. 8 /\ 8 \in Nat
      /\ ExactUnit[1] = "weeks" /\ ExactUnit[2] = "days" /\ ExactUnit[3] = "hours" /\ ExactUnit[4] = "minutes"
      /\ ExactUnit[5] = "seconds" /\ ExactUnit[6] = "milliseconds" /\ ExactUnit[7] = "microseconds"
      /\ ExactUnit[8] = "nanoseconds"
  BY SMT DEF ExactUnit
<1>2. ASSUME NEW k \in 1 .. 8, ExactUnit[k] \in units, \A j \in 1 .. 8 : ExactUnit[j] \in units => j <= k
      PROVE  last = ExactUnit[k]
  BY <1>1, <1>2, LastOf
<1>3. "milliseconds" \notin units /\ "microseconds" \notin units
  BY DEF ExactSix
<1>4. \A j \in 1 .. 8 : j \in {1, 2, 3, 4, 5, 6, 7, 8}
  BY SMT
<1>5. CASE "nanoseconds" \in units
  BY <1>1, <1>2, <1>4, <1>5
<1>6. CASE "nanoseconds" \notin units /\ "seconds" \in units
  <2>1. last = "seconds"
    BY <1>1, <1>2, <1>3, <1>4, <1>6
  <2> QED BY <1>6, <2>1 DEF ExactSix
<1>7. CASE units \cap {"nanoseconds", "seconds"} = {} /\ "minutes" \in units
  <2>1. last = "minutes"
    BY <1>1, <1>2, <1>3, <1>4, <1>7
  <2> QED BY <1>7, <2>1 DEF ExactSix
<1>8. CASE units \cap {"nanoseconds", "seconds", "minutes"} = {} /\ "hours" \in units
  <2>1. last = "hours"
    BY <1>1, <1>2, <1>3, <1>4, <1>8
  <2> QED BY <1>8, <2>1 DEF ExactSix
<1>9. CASE units \cap {"nanoseconds", "seconds", "minutes", "hours"} = {} /\ "days" \in units
  <2>1. last = "days"
    BY <1>1, <1>2, <1>3, <1>4, <1>9
  <2> QED BY <1>9, <2>1 DEF ExactSix
<1>10. CASE units \cap {"nanoseconds", "seconds", "minutes", "hours", "days"} = {}
  <2>1. units = {"weeks"}
    BY <1>10 DEF ExactSix
  <2>2. last = "weeks"
    BY <1>1, <1>2, <1>3, <1>4, <2>1
  <2> QED BY <2>1, <2>2
<1> QED BY <1>5, <1>6, <1>7, <1>8, <1>9, <1>10

\* Each exact unit is a whole number of each smaller one.
LEMMA UnitNanos ==
    /\ \A u \in ExactSix : in_nanos(u) \in Nat \ {0}
    /\ Multiple(in_nanos("weeks"), in_nanos("days")) /\ Multiple(in_nanos("days"), in_nanos("hours"))
    /\ Multiple(in_nanos("hours"), in_nanos("minutes")) /\ Multiple(in_nanos("minutes"), in_nanos("seconds"))
    /\ in_nanos("nanoseconds") = 1 /\ in_nanos("seconds") = NanosPerSecond
    /\ \A u \in ExactSix : Multiple(in_nanos(u), 1) /\ Multiple(in_nanos(u), in_nanos(u))
<1>1. /\ in_nanos("weeks") = 7 * NanosPerDay /\ in_nanos("days") = NanosPerDay
      /\ in_nanos("hours") = NanosPerHour /\ in_nanos("minutes") = NanosPerMinute
      /\ in_nanos("seconds") = NanosPerSecond /\ in_nanos("nanoseconds") = 1
  BY DEF in_nanos
<1>2. 7 * NanosPerDay \in Nat \ {0}
  BY ClockFacts, SMT
<1>3. \A u \in ExactSix : in_nanos(u) \in Nat \ {0}
  BY <1>1, <1>2, ClockFacts DEF ExactSix
<1>4. \A u \in ExactSix : Multiple(in_nanos(u), 1) /\ Multiple(in_nanos(u), in_nanos(u))
  <2> TAKE u \in ExactSix
  <2> DEFINE v == in_nanos(u)
  <2>1. v \in Int
    BY <1>3
  <2> HIDE DEF v
  <2>2. v = 1 * v /\ v = v * 1
    BY <2>1, SMT
  <2> QED BY <2>1, <2>2 DEF Multiple, v
<1>5. ASSUME NEW a \in Int, NEW b \in Int PROVE Multiple(b * a, a)
  <2>1. b * a = a * b
    BY SMT
  <2> QED BY <2>1 DEF Multiple
<1>6. /\ NanosPerDay = HoursPerDay * NanosPerHour /\ NanosPerHour = MinutesPerHour * NanosPerMinute
      /\ NanosPerMinute = SecondsPerMinute * NanosPerSecond
  BY DEF NanosPerDay, NanosPerHour, NanosPerMinute
<1>7. /\ NanosPerDay \in Int /\ NanosPerHour \in Int /\ NanosPerMinute \in Int /\ NanosPerSecond \in Int
      /\ HoursPerDay \in Int /\ MinutesPerHour \in Int /\ SecondsPerMinute \in Int /\ 7 \in Int
  BY ClockFacts
<1> QED BY <1>1, <1>3, <1>4, <1>5, <1>6, <1>7

\* So the units of a set are whole numbers of its smallest.
LEMMA CoarserUnits ==
    ASSUME NEW units \in SUBSET ExactSix, units # {}, NEW last, last = smallest(ExactUnit, units), NEW u \in units
    PROVE  last \in units /\ Multiple(in_nanos(u), in_nanos(last))
<1> DEFINE M(a, b) == Multiple(in_nanos(a), in_nanos(b))
<1>1. /\ M("weeks", "days") /\ M("days", "hours") /\ M("hours", "minutes") /\ M("minutes", "seconds")
      /\ \A a \in ExactSix : M(a, "nanoseconds") /\ M(a, a) /\ in_nanos(a) \in Int
  BY UnitNanos
<1>2. \A a, b, c \in ExactSix : M(a, b) /\ M(b, c) => M(a, c)
  BY <1>1, MultipleOf
<1> HIDE DEF M
<1>3. {"weeks", "days", "hours", "minutes", "seconds", "nanoseconds"} = ExactSix
  BY DEF ExactSix
<1>4. /\ M("weeks", "hours") /\ M("weeks", "minutes") /\ M("weeks", "seconds") /\ M("days", "minutes")
      /\ M("days", "seconds") /\ M("hours", "seconds")
  BY <1>1, <1>2, <1>3
<1>5. last \in units /\ u \in ExactSix
  BY SmallestExact
<1>6. last \in {"weeks", "days", "hours", "minutes", "seconds", "nanoseconds"}
  BY <1>3, <1>5
<1>7. CASE last = "nanoseconds"
  BY <1>1, <1>5, <1>7 DEF M
<1>8. CASE last = "seconds"
  <2>1. u \in {"weeks", "days", "hours", "minutes", "seconds"}
    BY <1>8, SmallestExact
  <2> QED BY <1>1, <1>4, <1>5, <1>8, <2>1 DEF M
<1>9. CASE last = "minutes"
  <2>1. u \in {"weeks", "days", "hours", "minutes"}
    BY <1>9, SmallestExact
  <2> QED BY <1>1, <1>4, <1>5, <1>9, <2>1 DEF M
<1>10. CASE last = "hours"
  <2>1. u \in {"weeks", "days", "hours"}
    BY <1>10, SmallestExact
  <2> QED BY <1>1, <1>4, <1>5, <1>10, <2>1 DEF M
<1>11. CASE last = "days"
  <2>1. u \in {"weeks", "days"}
    BY <1>11, SmallestExact
  <2> QED BY <1>1, <1>4, <1>5, <1>11, <2>1 DEF M
<1>12. CASE last = "weeks"
  <2>1. u = "weeks"
    BY <1>12, SmallestExact
  <2> QED BY <1>1, <1>5, <1>12, <2>1 DEF M
<1> QED BY <1>6, <1>7, <1>8, <1>9, <1>10, <1>11, <1>12

\* What a number of one unit, that was not there, adds to the sum.
LEMMA SumOfUnit ==
    ASSUME NEW units \in SUBSET ExactSix, NEW value \in [units -> Int], NEW unit \in units, value[unit] = 0,
           NEW n \in Int
    PROVE  /\ ExactSum(value) \in Int
           /\ ExactSum([value EXCEPT ![unit] = n]) = ExactSum(value) + n * in_nanos(unit)
<1> SUFFICES ASSUME NEW next, next = [value EXCEPT ![unit] = n]
             PROVE  ExactSum(value) \in Int /\ ExactSum(next) = ExactSum(value) + n * in_nanos(unit)
  OBVIOUS
<1> DEFINE F(v, u) == FieldOr0(v, u) * in_nanos(u)
           w == F(value, "weeks")
           d == F(value, "days")
           h == F(value, "hours")
           m == F(value, "minutes")
           s == F(value, "seconds")
           k == FieldOr0(value, "nanoseconds")
           z == n * in_nanos(unit)
<1>1. /\ ExactSum(value) = w + d + h + m + s + k
      /\ ExactSum(next) = F(next, "weeks") + F(next, "days") + F(next, "hours") + F(next, "minutes")
                          + F(next, "seconds") + FieldOr0(next, "nanoseconds")
  BY DEF ExactSum
<1>2. \A u \in ExactSix : F(value, u) \in Int
  <2> TAKE u \in ExactSix
  <2> DEFINE a == FieldOr0(value, u)
             b == in_nanos(u)
  <2>1. a \in Int /\ b \in Int
    BY FieldType, UnitNanos
  <2> HIDE DEF a, b
  <2>2. a * b \in Int
    BY <2>1, SMT
  <2> QED BY <2>2 DEF a, b
<1>3. /\ w \in Int /\ d \in Int /\ h \in Int /\ m \in Int /\ s \in Int /\ k \in Int /\ z \in Int
  <2>1. z \in Int
    <3> DEFINE b == in_nanos(unit)
    <3>1. b \in Int
      BY UnitNanos
    <3> HIDE DEF b
    <3>2. n * b \in Int
      BY <3>1, SMT
    <3> QED BY <3>2 DEF b
  <2>2. k \in Int
    BY FieldType
  <2> QED BY <1>2, <2>1, <2>2 DEF ExactSix
<1>4. /\ \A u : u # unit => FieldOr0(next, u) = FieldOr0(value, u)
      /\ FieldOr0(next, unit) = n /\ FieldOr0(value, unit) = 0
  <2>1. /\ \A u : u # unit => FieldOr0(next, u) = FieldOr0(value, u)
        /\ FieldOr0(next, unit) = n
    BY SMT DEF FieldOr0
  <2>2. FieldOr0(value, unit) = value[unit]
    BY FieldType
  <2> QED BY <2>1, <2>2
<1>5. /\ \A u : u # unit => F(next, u) = F(value, u)
      /\ F(next, unit) = z
  BY <1>4
<1>6. F(value, unit) = 0
  <2> DEFINE b == in_nanos(unit)
  <2>1. b \in Int
    BY UnitNanos
  <2> HIDE DEF b
  <2>2. 0 * b = 0
    BY <2>1, SMT
  <2> QED BY <1>4, <2>2 DEF b
<1> HIDE DEF F
<1>7. CASE unit = "weeks"
  <2>1. ExactSum(next) = z + d + h + m + s + k /\ w = 0
    BY <1>1, <1>4, <1>5, <1>6, <1>7
  <2> HIDE DEF w, d, h, m, s, k, z
  <2> QED BY <1>1, <1>3, <2>1, SMT DEF z
<1>8. CASE unit = "days"
  <2>1. ExactSum(next) = w + z + h + m + s + k /\ d = 0
    BY <1>1, <1>4, <1>5, <1>6, <1>8
  <2> HIDE DEF w, d, h, m, s, k, z
  <2> QED BY <1>1, <1>3, <2>1, SMT DEF z
<1>9. CASE unit = "hours"
  <2>1. ExactSum(next) = w + d + z + m + s + k /\ h = 0
    BY <1>1, <1>4, <1>5, <1>6, <1>9
  <2> HIDE DEF w, d, h, m, s, k, z
  <2> QED BY <1>1, <1>3, <2>1, SMT DEF z
<1>10. CASE unit = "minutes"
  <2>1. ExactSum(next) = w + d + h + z + s + k /\ m = 0
    BY <1>1, <1>4, <1>5, <1>6, <1>10
  <2> HIDE DEF w, d, h, m, s, k, z
  <2> QED BY <1>1, <1>3, <2>1, SMT DEF z
<1>11. CASE unit = "seconds"
  <2>1. ExactSum(next) = w + d + h + m + z + k /\ s = 0
    BY <1>1, <1>4, <1>5, <1>6, <1>11
  <2> HIDE DEF w, d, h, m, s, k, z
  <2> QED BY <1>1, <1>3, <2>1, SMT DEF z
<1>12. CASE unit = "nanoseconds"
  <2>1. ExactSum(next) = w + d + h + m + s + n /\ k = 0 /\ in_nanos(unit) = 1
    BY <1>1, <1>4, <1>5, <1>12, UnitNanos
  <2>2. n * 1 = n
    BY SMT
  <2> HIDE DEF w, d, h, m, s, k
  <2> QED BY <1>1, <1>3, <2>1, <2>2, SMT
<1> QED BY <1>7, <1>8, <1>9, <1>10, <1>11, <1>12 DEF ExactSix

\* The loop of in_exact_units: what was taken and what is left add up, have one sign, and are
\* whole numbers of the smallest unit.
Going(acc, units, g, total) ==
    /\ acc.fields \in [units -> Int] /\ acc.rest \in Int /\ Multiple(acc.rest, g)
    /\ ExactSum(acc.fields) \in Int /\ ExactSum(acc.fields) + acc.rest = total
    /\ total >= 0 => acc.rest >= 0 /\ \A u \in units : acc.fields[u] >= 0
    /\ total <= 0 => acc.rest <= 0 /\ \A u \in units : acc.fields[u] <= 0

LEMMA TakeStep ==
    ASSUME NEW units \in SUBSET ExactSix, NEW g \in Nat \ {0}, NEW total \in Int,
           NEW acc, Going(acc, units, g, total), NEW unit \in ExactSix, FieldOr0(acc.fields, unit) = 0,
           unit \in units => Multiple(in_nanos(unit), g),
           NEW next, next = TakeExact(acc, unit, units)
    PROVE  /\ Going(next, units, g, total)
           /\ \A w : w # unit => FieldOr0(next.fields, w) = FieldOr0(acc.fields, w)
           /\ unit \in units /\ in_nanos(unit) = g => next.rest = 0
           /\ unit \notin units => next.rest = acc.rest
<1>1. CASE unit \notin units
  <2>1. next = acc
    BY <1>1 DEF TakeExact
  <2> QED BY <1>1, <2>1
<1>2. CASE unit \in units
  <2> DEFINE b == in_nanos(unit)
             a == acc.rest
             q == Quot(a, b)
             r == Rem(a, b)
             v == acc.fields
  <2>1. b \in Nat \ {0} /\ a \in Int /\ v \in [units -> Int] /\ v[unit] = 0 /\ Multiple(a, g) /\ Multiple(b, g)
    <3>1. v \in [units -> Int] /\ a \in Int /\ Multiple(a, g)
      BY DEF Going
    <3>2. v[unit] = 0
      BY <1>2, <3>1, FieldType
    <3> QED BY <1>2, <3>1, <3>2, UnitNanos
  <2>2. next.rest = r /\ next.fields = [v EXCEPT ![unit] = q]
    BY <1>2, SMT DEF TakeExact
  <2> HIDE DEF a, b, v
  <2>3. /\ q \in Int /\ r \in Int /\ a = q * b + r
        /\ a >= 0 => q >= 0 /\ 0 <= r /\ r < b
        /\ a <= 0 => q <= 0 /\ r <= 0 /\ -b < r
    BY <2>1, QuotSplit
  <2>4. r = a - q * b
    BY DEF Rem
  <2> HIDE DEF q, r
  <2>5. Multiple(r, g)
    <3>1. g \in Int
      OBVIOUS
    <3>2. Multiple(a - q * b, g)
      BY <2>1, <2>3, <3>1, MultipleLess
    <3> QED BY <2>4, <3>2
  <2> DEFINE nf == next.fields
  <2> HIDE DEF nf
  <2>13. nf = [v EXCEPT ![unit] = q]
    BY <2>2 DEF nf
  <2>14. /\ nf \in [units -> Int] /\ nf[unit] = q
         /\ \A w : w # unit => FieldOr0(nf, w) = FieldOr0(v, w)
         /\ \A w \in units : w # unit => nf[w] = v[w]
    BY <1>2, <2>1, <2>3, <2>13, SMT DEF FieldOr0
  <2>6. /\ next.fields \in [units -> Int] /\ next.fields[unit] = q
        /\ \A w : w # unit => FieldOr0(next.fields, w) = FieldOr0(v, w)
        /\ \A w \in units : w # unit => next.fields[w] = v[w]
    BY <2>14 DEF nf
  <2>7. ExactSum(v) \in Int /\ ExactSum(next.fields) = ExactSum(v) + q * b
    <3>1. ExactSum(v) \in Int /\ ExactSum([v EXCEPT ![unit] = q]) = ExactSum(v) + q * in_nanos(unit)
      BY <1>2, <2>1, <2>3, SumOfUnit
    <3>2. next.fields = [v EXCEPT ![unit] = q]
      BY <2>13 DEF nf
    <3> QED BY <3>1, <3>2 DEF b
  <2>8. ExactSum(next.fields) \in Int /\ ExactSum(next.fields) + r = total
    <3> DEFINE e == ExactSum(v)
               p == q * b
    <3>1. p \in Int
      BY <2>1, <2>3, SMT
    <3>2. e + a = total /\ a = p + r
      BY <2>3 DEF Going, v, a
    <3> HIDE DEF e, p
    <3>3. e + p \in Int /\ (e + p) + r = total
      BY <2>3, <2>7, <3>1, <3>2, SMT DEF e
    <3> QED BY <2>7, <3>3 DEF e, p
  <2>9. total >= 0 => r >= 0 /\ \A u \in units : next.fields[u] >= 0
    <3> SUFFICES ASSUME total >= 0 PROVE r >= 0 /\ \A u \in units : next.fields[u] >= 0
      OBVIOUS
    <3>1. a >= 0 /\ \A u \in units : v[u] >= 0
      BY DEF Going, a, v
    <3> QED BY <2>3, <2>6, <3>1
  <2>10. total <= 0 => r <= 0 /\ \A u \in units : next.fields[u] <= 0
    <3> SUFFICES ASSUME total <= 0 PROVE r <= 0 /\ \A u \in units : next.fields[u] <= 0
      OBVIOUS
    <3>1. a <= 0 /\ \A u \in units : v[u] <= 0
      BY DEF Going, a, v
    <3> QED BY <2>3, <2>6, <3>1
  <2>11. b = g => r = 0
    <3>1. -b < r /\ r < b
      BY <2>1, <2>3
    <3> QED BY <2>3, <2>5, <3>1, MultipleZero
  <2>12. Going(next, units, g, total)
    BY <2>2, <2>3, <2>5, <2>6, <2>8, <2>9, <2>10 DEF Going
  <2> QED BY <1>2, <2>2, <2>6, <2>11, <2>12 DEF b, v
<1> QED BY <1>1, <1>2

\* Rounding, but to even, looks at what is left of an increment only.
LEMMA RoundShifted ==
    ASSUME NEW step \in Nat \ {0}, NEW k \in Int, NEW m \in Int,
           NEW mode \in {"trunc", "expand", "half_trunc", "half_expand"}
    PROVE  RoundMultiple(step * k + m, step, mode) = step * k + RoundMultiple(m, step, mode)
<1> DEFINE q == m \div step
           r == m % step
           n == step * k + m
           up == IF r >= Threshold(q, step, mode) THEN 1 ELSE 0
<1>1. m = step * q + r /\ q \in Int /\ r \in Nat /\ r < step
  BY DivSplit
<1>2. n \div step = k + q /\ n % step = r
  <2> HIDE DEF q, r
  <2>1. n = step * (k + q) + r /\ k + q \in Int /\ n \in Int
    BY <1>1, SMT
  <2> HIDE DEF n
  <2> QED BY <1>1, <2>1, DivUnique
<1>3. Threshold(k + q, step, mode) = Threshold(q, step, mode)
  BY SMT DEF Threshold
<1>4. RoundMultiple(m, step, mode) = (q + up) * step
  BY DEF RoundMultiple
<1>5. RoundMultiple(n, step, mode) = ((k + q) + up) * step
  <2> HIDE DEF q, r, n
  <2> QED BY <1>2, <1>3, SMT DEF RoundMultiple
<1>6. up \in {0, 1}
  OBVIOUS
<1>7. ((k + q) + up) * step = step * k + (q + up) * step
  <2> HIDE DEF up, q
  <2> QED BY <1>1, <1>6, SMT
<1> QED BY <1>4, <1>5, <1>7

\* The multiple that TimeDelta.round gives is the one that the mode asks for; one that divides
\* the second counts as even within its second.
RoundedTo(n, step, mode) ==
    LET abs == to_abs_euclid(mode, is_negative(n)) IN
    IF step < NanosPerSecond /\ NanosPerSecond % step = 0
    THEN secs(n) * NanosPerSecond + RoundMultiple(subsec(n), step, abs) ELSE RoundMultiple(n, step, abs)

LEMMA RoundsTimeDelta ==
    ASSUME NEW n \in Int, NEW step \in Nat \ {0}, step = 1 \/ step % 2 = 0,
           step < NanosPerSecond => Multiple(NanosPerSecond, step), NEW mode \in Mode,
           NEW total, total = RoundedTo(n, step, mode),
           NEW base, base = IF step < NanosPerSecond THEN secs(n) * NanosPerSecond ELSE 0
    PROVE  /\ total \in Int /\ Multiple(total, step)
           /\ mode # "half_even" => RoundsTo(n, step, mode, total)
           /\ mode = "half_even" => RoundsTo(n - base, step, mode, total - base)
<1> DEFINE k == NanosPerSecond
           s == secs(n)
           m == subsec(n)
           abs == to_abs_euclid(mode, is_negative(n))
<1>1. k \in Nat \ {0} /\ s \in Int /\ m \in Nat /\ m < k /\ n = k * s + m
  BY SecsSplit, ClockFacts
<1>2. is_negative(n) = (n < 0)
  <2> HIDE DEF k, m, s
  <2>1. k * s \in Int /\ (s <= -1 => k * s <= -k) /\ (s >= 0 => k * s >= 0)
    BY <1>1, SMT
  <2> DEFINE p == k * s
  <2> HIDE DEF p
  <2>2. (s < 0) = (n < 0)
    BY <1>1, <2>1, SMT DEF p
  <2> QED BY <2>2 DEF is_negative, s
<1>3. abs = to_abs_euclid(mode, n < 0)
  BY <1>2
<1>4. ASSUME NEW r \in Int, r % step = 0 PROVE Multiple(r, step)
  <2>1. r = step * (r \div step) + (r % step) /\ r \div step \in Int
    BY DivSplit
  <2> DEFINE z == r \div step
  <2> HIDE DEF z
  <2>2. step * z \in Int /\ step * z + 0 = step * z
    BY <2>1, SMT DEF z
  <2>3. r = step * z /\ z \in Int
    BY <1>4, <2>1, <2>2 DEF z
  <2> QED BY <2>3 DEF Multiple
<1>5. total \in Int
  <2>1. /\ RoundMultiple(m, step, abs) \in Int /\ RoundMultiple(n, step, abs) \in Int
    BY <1>1, RoundType
  <2> DEFINE x == RoundMultiple(m, step, abs)
             y == RoundMultiple(n, step, abs)
             z == s * k
  <2>2. z \in Int
    <3> HIDE DEF k, s
    <3> QED BY <1>1, SMT
  <2> HIDE DEF x, y, z
  <2>3. z + x \in Int
    BY <2>1, <2>2, SMT DEF x
  <2> QED BY <2>1, <2>3 DEF RoundedTo, x, y, z
<1>6. CASE step < k
  <2>1. PICK j \in Int : k = step * j
    BY <1>6 DEF Multiple
  <2>2. k % step = 0
    <3>1. k = step * j + 0
      BY <2>1, SMT
    <3>2. 0 < step /\ 0 \in Nat /\ j \in Int /\ k \in Int
      BY <1>1, <2>1, SMT
    <3> HIDE DEF k
    <3>3. k \div step = j /\ k % step = 0
      BY <3>1, <3>2, DivUnique
    <3> QED BY <3>3
  <2>3. total = s * k + RoundMultiple(m, step, abs) /\ base = s * k
    <3>1. total = s * k + RoundMultiple(m, step, abs)
      BY <1>6, <2>2 DEF RoundedTo
    <3> QED BY <1>6, <3>1
  <2> DEFINE rm == RoundMultiple(m, step, abs)
             p == step * (j * s)
  <2>4. s * k = p /\ k * s = p /\ j * s \in Int /\ p \in Int
    <3> HIDE DEF k, s, m
    <3> QED BY <1>1, <2>1, SMT
  <2>5. rm \in Int
    BY <1>1, RoundType
  <2> HIDE DEF rm
  <2>6. n = p + m /\ total = p + rm /\ base = p
    BY <1>1, <2>3, <2>4 DEF rm
  <2>7. CASE mode = "half_even"
    <3>1. abs = "half_even" /\ to_abs_euclid(mode, m < 0) = "half_even"
      BY <2>7 DEF to_abs_euclid
    <3>2. RoundsTo(m, step, mode, rm)
      <4>1. m \in Int
        BY <1>1
      <4>2. RoundsTo(m, step, mode, RoundMultiple(m, step, to_abs_euclid(mode, m < 0)))
        BY <4>1, RoundsByMode
      <4> QED BY <3>1, <4>2 DEF rm
    <3> HIDE DEF p, m
    <3>3. n - base = m /\ total - base = rm
      BY <1>1, <2>4, <2>5, <2>6, SMT
    <3>4. Multiple(rm, step)
      BY <1>4, <2>5, <3>2 DEF RoundsTo
    <3>5. Multiple(total, step)
      <4>1. PICK x \in Int : rm = step * x
        BY <3>4 DEF Multiple
      <4> DEFINE y == j * s
      <4>2. y \in Int /\ p = step * y
        BY <2>4 DEF p
      <4> HIDE DEF y
      <4>3. total = step * (y + x) /\ y + x \in Int
        BY <2>6, <4>1, <4>2, SMT
      <4> QED BY <4>3 DEF Multiple
    <3> QED BY <1>5, <2>7, <3>2, <3>3, <3>5
  <2>8. CASE mode # "half_even"
    <3>1. abs \in {"trunc", "expand", "half_trunc", "half_expand"}
      BY <2>8, SMT DEF to_abs_euclid, Mode
    <3>2. m \in Int /\ j * s \in Int
      BY <1>1, <2>4
    <3> DEFINE y == j * s
    <3> HIDE DEF abs, m, y
    <3>3. RoundMultiple(step * y + m, step, abs) = step * y + RoundMultiple(m, step, abs)
      BY <3>1, <3>2, RoundShifted DEF y
    <3>4. total = RoundMultiple(n, step, abs)
      BY <2>6, <3>3 DEF rm, y
    <3>5. RoundsTo(n, step, mode, total)
      BY <1>3, <3>4, RoundsByMode
    <3> QED BY <1>4, <1>5, <2>8, <3>5 DEF RoundsTo
  <2> QED BY <2>7, <2>8
<1>7. CASE ~(step < k)
  <2>1. total = RoundMultiple(n, step, abs) /\ base = 0
    <3>1. total = RoundMultiple(n, step, abs)
      BY <1>7 DEF RoundedTo
    <3> QED BY <1>7, <3>1
  <2>2. RoundsTo(n, step, mode, total)
    BY <1>3, <2>1, RoundsByMode
  <2>3. n - base = n /\ total - base = total
    BY <1>5, <2>1, SMT
  <2> QED BY <1>4, <1>5, <2>2, <2>3 DEF RoundsTo
<1> QED BY <1>6, <1>7

\* Other results are out of range: they are of a second that no TimeDelta has.
LEMMA RoundsOrFails ==
    ASSUME NEW n \in Int, NEW step \in Nat \ {0}, NEW mode \in Mode,
           NEW total, total = TimeDeltaRound(n, step, mode), NEW raw \in Int, raw = RoundedTo(n, step, mode)
    PROVE  /\ total \notin {NoNanos, Panics} => total = raw
           /\ raw \in TimeDeltas => total = raw /\ total \notin {NoNanos, Panics}
<1> DEFINE abs == to_abs_euclid(mode, is_negative(n))
           fits == Distance(0, secs(raw)) <= secs(TimeDeltaMax)
<1>1. total = (IF fits THEN raw ELSE Panics) \/ total = (IF fits THEN raw ELSE NoNanos)
  <2>1. CASE step < NanosPerSecond /\ NanosPerSecond % step = 0
    <3>1. raw = secs(n) * NanosPerSecond + RoundMultiple(subsec(n), step, abs)
      BY <2>1 DEF RoundedTo
    <3>2. total = RoundSubsec(n, step, abs)
      BY <2>1 DEF TimeDeltaRound
    <3> HIDE DEF abs
    <3> QED BY <3>1, <3>2 DEF RoundSubsec
  <2>2. CASE ~(step < NanosPerSecond /\ NanosPerSecond % step = 0)
    <3>1. raw = RoundMultiple(n, step, abs)
      BY <2>2 DEF RoundedTo
    <3>2. total = round_u128(n, step, abs)
      BY <2>2 DEF TimeDeltaRound
    <3> HIDE DEF abs
    <3> QED BY <3>1, <3>2 DEF round_u128
  <2> QED BY <2>1, <2>2
<1>2. ASSUME raw \in TimeDeltas PROVE fits /\ raw \notin {NoNanos, Panics}
  <2>1. TimeDeltaMax \in Nat /\ raw <= TimeDeltaMax /\ -TimeDeltaMax <= raw
    BY <1>2, NanosTypes, SMT DEF TimeDeltas
  <2>2. raw \notin {NoNanos, Panics}
    <3>1. NanosPerSecond \in Nat \ {0}
      BY ClockFacts
    <3> QED BY <2>1, <3>1, SMT DEF NoNanos, Panics
  <2> DEFINE top == secs(TimeDeltaMax)
  <2>3. top \in Int /\ secs(-TimeDeltaMax) = -top
    <3> DEFINE h == 9999 * 366 * SecondsPerDay
               k == NanosPerSecond
    <3>1. k \in Nat \ {0} /\ h \in Int
      BY ClockFacts, SMT
    <3>2. TimeDeltaMax = h * k
      <4>1. SecondsPerDay \in Nat /\ NanosPerDay = SecondsPerDay * k
        BY ClockFacts
      <4> DEFINE x == SecondsPerDay
      <4> HIDE DEF k, x
      <4>2. 9999 * 366 * (x * k) = 9999 * 366 * x * k
        BY <3>1, <4>1, SMT DEF x
      <4> QED BY <4>1, <4>2 DEF TimeDeltaMax, x
    <3> HIDE DEF h, k
    <3>3. h * k = k * h + 0 /\ -(h * k) = k * (-h) + 0 /\ h * k \in Int /\ -(h * k) \in Int /\ -h \in Int
          /\ 0 < k /\ 0 \in Nat /\ k \in Int
      BY <3>1, SMT
    <3>4. (h * k) \div k = h /\ (-(h * k)) \div k = -h
      BY <3>1, <3>3, DivUnique
    <3> QED BY <3>1, <3>2, <3>4 DEF secs, k
  <2>4. secs(-TimeDeltaMax) <= secs(raw) /\ secs(raw) <= top
    <3>1. -TimeDeltaMax \in Int /\ TimeDeltaMax \in Int
      BY <2>1, SMT
    <3> QED BY <2>1, <3>1, SecsOrder
  <2>5. secs(raw) \in Int
    BY SecsSplit
  <2> DEFINE y == secs(raw)
  <2> HIDE DEF top, y
  <2>6. Distance(0, y) <= top
    BY <2>3, <2>4, <2>5, SMT DEF y, Distance
  <2> QED BY <2>2, <2>6 DEF y, top
<1> HIDE DEF fits
<1> QED BY <1>1, <1>2

\* Before the loop nothing was taken.
LEMMA NothingTaken ==
    ASSUME NEW units \in SUBSET ExactSix, NEW zero, zero = [u \in units |-> 0]
    PROVE  /\ zero \in [units -> Int] /\ ExactSum(zero) = 0
           /\ (\A u : FieldOr0(zero, u) = 0) /\ \A u \in units : zero[u] = 0
<1>1. zero \in [units -> Int] /\ \A u \in units : zero[u] = 0
  BY SMT
<1>2. \A u : FieldOr0(zero, u) = 0
  BY SMT DEF FieldOr0
<1>3. \A u \in ExactSix : FieldOr0(zero, u) * in_nanos(u) = 0
  <2> TAKE u \in ExactSix
  <2> DEFINE b == in_nanos(u)
  <2>1. b \in Int
    BY UnitNanos
  <2> HIDE DEF b
  <2>2. 0 * b = 0
    BY <2>1, SMT
  <2> QED BY <1>2, <2>2 DEF b
<1>4. ExactSum(zero) = 0 + 0 + 0 + 0 + 0 + 0
  BY <1>2, <1>3 DEF ExactSum, ExactSix
<1> QED BY <1>1, <1>2, <1>4, SMT

\* The parts have one sign and add up to the number that was rounded.
LEMMA ExactUnits ==
    ASSUME NEW units \in SUBSET ExactSix, units # {}, NEW n, NEW inc, NEW mode,
           NEW last, last = smallest(ExactUnit, units),
           NEW total \in Int, total = TimeDeltaRound(n, in_nanos(last) * inc, mode),
           total \notin {NoNanos, Panics} => Multiple(total, in_nanos(last)),
           NEW r, r = in_exact_units(n, units, inc, mode), r.ok
    PROVE  /\ total \notin {NoNanos, Panics} /\ r.value \in [units -> Int] /\ ExactSum(r.value) = total
           /\ total >= 0 => \A u \in units : r.value[u] >= 0
           /\ total <= 0 => \A u \in units : r.value[u] <= 0
<1> DEFINE zero == [u \in units |-> 0]
           g == in_nanos(last)
           start == [rest |-> total, fields |-> zero]
           weeks == TakeExact(start, "weeks", units)
           days == TakeExact(weeks, "days", units)
           hours == TakeExact(days, "hours", units)
           minutes == TakeExact(hours, "minutes", units)
           seconds == TakeExact(minutes, "seconds", units)
           nanos == TakeExact(seconds, "nanoseconds", units)
           Untaken(acc, us) == \A u \in us : FieldOr0(acc.fields, u) = 0
<1>1. r = IF total \in {NoNanos, Panics} THEN [ok |-> FALSE] ELSE [ok |-> TRUE, value |-> nanos.fields]
  BY DEF in_exact_units
<1>2. total \notin {NoNanos, Panics} /\ r.value = nanos.fields /\ Multiple(total, g)
  <2> HIDE DEF nanos
  <2> QED BY <1>1
<1>3. /\ last \in units /\ g \in Nat \ {0} /\ last \in ExactSix
      /\ \A u \in units : Multiple(in_nanos(u), g)
  <2>1. \A u \in units : last \in units /\ Multiple(in_nanos(u), in_nanos(last))
    BY CoarserUnits
  <2> QED BY <2>1, UnitNanos
<1>4. Going(start, units, g, total) /\ \A u : FieldOr0(start.fields, u) = 0
  <2>1. /\ zero \in [units -> Int] /\ ExactSum(zero) = 0
        /\ (\A u : FieldOr0(zero, u) = 0) /\ \A u \in units : zero[u] = 0
    BY NothingTaken
  <2>2. start.rest = total /\ start.fields = zero
    OBVIOUS
  <2> HIDE DEF zero, start, g
  <2>3. 0 + total = total
    BY SMT
  <2> QED BY <1>2, <2>1, <2>2, <2>3, SMT DEF Going
<1> HIDE DEF start, g, zero, weeks, days, hours, minutes, seconds, nanos
<1>5. \A u \in ExactSix : u \in units => Multiple(in_nanos(u), g)
  BY <1>3
<1>6. /\ "weeks" \in ExactSix /\ "days" \in ExactSix /\ "hours" \in ExactSix /\ "minutes" \in ExactSix
      /\ "seconds" \in ExactSix /\ "nanoseconds" \in ExactSix
  BY DEF ExactSix
<1> DEFINE Stepped(acc, next, unit) ==
                /\ Going(next, units, g, total)
                /\ \A w : w # unit => FieldOr0(next.fields, w) = FieldOr0(acc.fields, w)
                /\ last = unit => next.rest = 0
                /\ unit \notin units => next.rest = acc.rest
<1>7. ASSUME NEW acc, NEW unit \in ExactSix, Going(acc, units, g, total), FieldOr0(acc.fields, unit) = 0
      PROVE  Stepped(acc, TakeExact(acc, unit, units), unit)
  <2> DEFINE next == TakeExact(acc, unit, units)
  <2>1. /\ Going(next, units, g, total)
        /\ \A w : w # unit => FieldOr0(next.fields, w) = FieldOr0(acc.fields, w)
        /\ unit \in units /\ in_nanos(unit) = g => next.rest = 0
        /\ unit \notin units => next.rest = acc.rest
    BY <1>3, <1>5, <1>7, TakeStep
  <2>2. last = unit => unit \in units /\ in_nanos(unit) = g
    BY <1>3 DEF g
  <2> HIDE DEF next
  <2>3. Stepped(acc, next, unit)
    BY <2>1, <2>2
  <2> QED BY <2>3 DEF next
<1>8. Stepped(start, weeks, "weeks")
  BY <1>4, <1>6, <1>7 DEF weeks
<1>9. Stepped(weeks, days, "days")
  <2>1. FieldOr0(weeks.fields, "days") = 0
    BY <1>4, <1>8
  <2> QED BY <1>6, <1>7, <1>8, <2>1 DEF days
<1>10. Stepped(days, hours, "hours")
  <2>1. FieldOr0(days.fields, "hours") = 0
    BY <1>4, <1>8, <1>9
  <2> QED BY <1>6, <1>7, <1>9, <2>1 DEF hours
<1>11. Stepped(hours, minutes, "minutes")
  <2>1. FieldOr0(hours.fields, "minutes") = 0
    BY <1>4, <1>8, <1>9, <1>10
  <2> QED BY <1>6, <1>7, <1>10, <2>1 DEF minutes
<1>12. Stepped(minutes, seconds, "seconds")
  <2>1. FieldOr0(minutes.fields, "seconds") = 0
    BY <1>4, <1>8, <1>9, <1>10, <1>11
  <2> QED BY <1>6, <1>7, <1>11, <2>1 DEF seconds
<1>13. Stepped(seconds, nanos, "nanoseconds")
  <2>1. FieldOr0(seconds.fields, "nanoseconds") = 0
    BY <1>4, <1>8, <1>9, <1>10, <1>11, <1>12
  <2> QED BY <1>6, <1>7, <1>12, <2>1 DEF nanos
<1>14. nanos.rest = 0
  <2>1. last \in {"weeks", "days", "hours", "minutes", "seconds", "nanoseconds"}
    BY <1>3 DEF ExactSix
  <2>2. CASE last = "nanoseconds"
    BY <1>13, <2>2
  <2>3. CASE last = "seconds"
    <3>1. "nanoseconds" \notin units
      BY <2>3, SmallestExact
    <3> QED BY <1>12, <1>13, <2>3, <3>1
  <2>4. CASE last = "minutes"
    <3>1. "nanoseconds" \notin units /\ "seconds" \notin units
      BY <2>4, SmallestExact
    <3> QED BY <1>11, <1>12, <1>13, <2>4, <3>1
  <2>5. CASE last = "hours"
    <3>1. "nanoseconds" \notin units /\ "seconds" \notin units /\ "minutes" \notin units
      BY <2>5, SmallestExact
    <3> QED BY <1>10, <1>11, <1>12, <1>13, <2>5, <3>1
  <2>6. CASE last = "days"
    <3>1. /\ "nanoseconds" \notin units /\ "seconds" \notin units /\ "minutes" \notin units
          /\ "hours" \notin units
      BY <2>6, SmallestExact
    <3> QED BY <1>9, <1>10, <1>11, <1>12, <1>13, <2>6, <3>1
  <2>7. CASE last = "weeks"
    <3>1. /\ "nanoseconds" \notin units /\ "seconds" \notin units /\ "minutes" \notin units
          /\ "hours" \notin units /\ "days" \notin units
      BY <2>7, SmallestExact
    <3> QED BY <1>8, <1>9, <1>10, <1>11, <1>12, <1>13, <2>7, <3>1
  <2> QED BY <2>1, <2>2, <2>3, <2>4, <2>5, <2>6, <2>7
<1>15. Going(nanos, units, g, total)
  BY <1>13
<1>16. ExactSum(nanos.fields) = total
  <2> DEFINE e == ExactSum(nanos.fields)
  <2>1. e \in Int /\ e + 0 = total
    BY <1>14, <1>15 DEF Going
  <2> HIDE DEF e
  <2>2. e = total
    BY <2>1, SMT
  <2> QED BY <2>2 DEF e
<1> QED BY <1>2, <1>15, <1>16 DEF Going

\* The increments of a unit are the ones that TimeDelta.round is proved for.
LEMMA ExactSteps ==
    ASSUME NEW u \in ExactSix, NEW inc \in {1, 2}, NEW step, step = in_nanos(u) * inc
    PROVE  /\ step \in Nat \ {0} /\ (step = 1 \/ step % 2 = 0) /\ Multiple(step, in_nanos(u))
           /\ step < NanosPerSecond => Multiple(NanosPerSecond, step)
           /\ inc = 1 => step = in_nanos(u)
           /\ u = "nanoseconds" => step = inc
<1> DEFINE g == in_nanos(u)
           k == NanosPerSecond
<1>1. g \in Nat \ {0} /\ k \in Nat \ {0} /\ inc \in Nat \ {0} /\ in_nanos("nanoseconds") = 1
  BY UnitNanos, ClockFacts
<1>2. Multiple(k, 2)
  <2>1. NanosPerMicro \in Nat /\ NanosPerMicro % 2 = 0 /\ MicrosPerMilli \in Nat /\ MillisPerSecond \in Nat
    BY ClockAssumption
  <2>2. PICK j \in Int : NanosPerMicro = 2 * j
    BY <2>1, SMT
  <2> DEFINE x == MillisPerSecond
             y == MicrosPerMilli
             z == y * j
             w == x * z
  <2>3. z \in Int /\ y * (2 * j) = 2 * z
    <3> HIDE DEF y
    <3> QED BY <2>1, SMT DEF y
  <2> HIDE DEF z
  <2>4. w \in Int /\ x * (2 * z) = 2 * w
    <3> HIDE DEF x
    <3> QED BY <2>1, <2>3, SMT DEF x
  <2>5. k = 2 * w
    BY <2>2, <2>3, <2>4 DEF NanosPerSecond, NanosPerMilli
  <2> QED BY <2>4, <2>5 DEF Multiple
<1>3. u # "nanoseconds" => Multiple(g, k)
  <2>1. u \in {"weeks", "days", "hours", "minutes", "seconds", "nanoseconds"}
    BY DEF ExactSix
  <2> DEFINE w == in_nanos("weeks")
             d == in_nanos("days")
             h == in_nanos("hours")
             m == in_nanos("minutes")
  <2>2. /\ Multiple(w, d) /\ Multiple(d, h) /\ Multiple(h, m) /\ Multiple(m, k) /\ in_nanos("seconds") = k
        /\ k = k * 1
    <3>1. k * 1 = k
      BY <1>1, SMT
    <3> QED BY <3>1, UnitNanos
  <2>3. Multiple(k, k)
    BY <2>2 DEF Multiple
  <2> HIDE DEF w, d, h, m, k
  <2>4. k \in Int
    BY <1>1
  <2>5. Multiple(h, k)
    BY <2>2, <2>4, MultipleOf
  <2>6. Multiple(d, k)
    BY <2>2, <2>4, <2>5, MultipleOf
  <2>7. Multiple(w, k)
    BY <2>2, <2>4, <2>6, MultipleOf
  <2> QED BY <2>1, <2>2, <2>3, <2>5, <2>6, <2>7 DEF w, d, h, m, g
<1> HIDE DEF g, k
<1>4. step = g * inc
  BY DEF g
<1>5. step \in Nat \ {0} /\ Multiple(step, g)
  <2>1. step \in Nat \ {0} /\ inc \in Int
    BY <1>1, <1>4, PositiveProduct
  <2> QED BY <1>4, <2>1 DEF Multiple
<1>6. inc = 1 => step = g
  BY <1>1, <1>4, SMT
<1>7. u = "nanoseconds" => step = inc
  <2> SUFFICES ASSUME u = "nanoseconds" PROVE step = inc
    OBVIOUS
  <2>1. g = 1
    BY <1>1 DEF g
  <2> QED BY <1>1, <1>4, <2>1, SMT
<1>8. CASE u = "nanoseconds"
  <2>1. step = 1 \/ step = 2
    BY <1>7, <1>8
  <2>2. (step = 1 \/ step % 2 = 0) /\ k = 1 * k
    BY <1>1, <2>1, SMT
  <2>3. Multiple(k, step)
    <3>1. Multiple(k, 1)
      BY <1>1, <2>2 DEF Multiple
    <3> QED BY <1>2, <2>1, <3>1
  <2> QED BY <1>5, <1>6, <1>7, <2>2, <2>3 DEF g, k
<1>9. CASE u # "nanoseconds"
  <2>1. Multiple(g, 2) /\ Multiple(step, 2)
    <3>1. Multiple(g, k) /\ 2 \in Int
      BY <1>3, <1>9
    <3>2. Multiple(g, 2)
      BY <1>2, <3>1, MultipleOf
    <3> QED BY <1>5, <3>1, <3>2, MultipleOf
  <2>2. step % 2 = 0
    <3>1. PICK j \in Int : step = 2 * j
      BY <2>1 DEF Multiple
    <3> QED BY <3>1, SMT
  <2>3. ~(step < k)
    <3>1. Multiple(step, k)
      BY <1>1, <1>3, <1>5, <1>9, MultipleOf
    <3>2. k \in Nat \ {0} /\ step \in Int /\ -k < step
      BY <1>1, <1>5, SMT
    <3> QED BY <1>5, <3>1, <3>2, MultipleZero
  <2> QED BY <1>5, <1>6, <1>7, <2>2, <2>3 DEF g, k
<1> QED BY <1>8, <1>9

\* Rounding moves by less than a step.
LEMMA RoundedNear ==
    ASSUME NEW n \in Int, NEW step \in Nat \ {0}, step = 1 \/ step % 2 = 0,
           step < NanosPerSecond => Multiple(NanosPerSecond, step), NEW mode \in Mode,
           NEW raw, raw = RoundedTo(n, step, mode)
    PROVE  /\ raw \in Int /\ raw < n + step /\ n < raw + step /\ (step = 1 => raw = n)
           /\ step - TimeDeltaMax <= n /\ n <= TimeDeltaMax - step => raw \in TimeDeltas
<1> DEFINE base == IF step < NanosPerSecond THEN secs(n) * NanosPerSecond ELSE 0
<1>1. /\ raw \in Int
      /\ mode # "half_even" => RoundsTo(n, step, mode, raw)
      /\ mode = "half_even" => RoundsTo(n - base, step, mode, raw - base)
  BY RoundsTimeDelta
<1>2. base \in Int
  <2>1. secs(n) \in Int /\ NanosPerSecond \in Int
    BY SecsSplit, ClockFacts
  <2> DEFINE x == secs(n)
             k == NanosPerSecond
  <2> HIDE DEF x, k
  <2>2. x * k \in Int /\ 0 \in Int
    BY <2>1, SMT DEF x, k
  <2> QED BY <2>2 DEF x, k
<1> HIDE DEF base
<1>3. raw < n + step /\ n < raw + step
  <2>1. CASE mode # "half_even"
    <3>1. Distance(raw, n) < step
      BY <1>1, <2>1 DEF RoundsTo
    <3> QED BY <1>1, <3>1, SMT DEF Distance
  <2>2. CASE mode = "half_even"
    <3>1. Distance(raw - base, n - base) < step
      BY <1>1, <2>2 DEF RoundsTo
    <3> QED BY <1>1, <1>2, <3>1, SMT DEF Distance
  <2> QED BY <2>1, <2>2
<1>4. step = 1 => raw = n
  BY <1>1, <1>3, SMT
<1>5. step - TimeDeltaMax <= n /\ n <= TimeDeltaMax - step => raw \in TimeDeltas
  <2>1. TimeDeltaMax \in Int
    BY NanosTypes
  <2> QED BY <1>1, <1>3, <2>1, SMT DEF TimeDeltas
<1> QED BY <1>1, <1>3, <1>4, <1>5

\* in_exact_units: the units, of one sign, add up to the multiple that the mode asks for.
LEMMA ExactRounds ==
    ASSUME NEW n \in Int, NEW units \in SUBSET ExactSix, units # {}, NEW inc \in {1, 2}, NEW mode \in Mode,
           NEW last, last = smallest(ExactUnit, units), NEW step, step = in_nanos(last) * inc,
           NEW r, r = in_exact_units(n, units, inc, mode), r.ok, NEW sum, sum = ExactSum(r.value),
           NEW base, base = IF step < NanosPerSecond THEN secs(n) * NanosPerSecond ELSE 0
    PROVE  /\ last \in units /\ r.value \in [units -> Int] /\ sum \in Int /\ sum = RoundedTo(n, step, mode)
           /\ mode # "half_even" => RoundsTo(n, step, mode, sum)
           /\ mode = "half_even" => RoundsTo(n - base, step, mode, sum - base)
           /\ sum >= 0 => \A u \in units : r.value[u] >= 0
           /\ sum <= 0 => \A u \in units : r.value[u] <= 0
<1> DEFINE total == TimeDeltaRound(n, step, mode)
           raw == RoundedTo(n, step, mode)
<1>1. last \in units /\ last \in ExactSix
  BY SmallestExact
<1>2. /\ step \in Nat \ {0} /\ (step = 1 \/ step % 2 = 0) /\ Multiple(step, in_nanos(last))
      /\ step < NanosPerSecond => Multiple(NanosPerSecond, step)
  BY <1>1, ExactSteps
<1>3. /\ raw \in Int /\ Multiple(raw, step)
      /\ mode # "half_even" => RoundsTo(n, step, mode, raw)
      /\ mode = "half_even" => RoundsTo(n - base, step, mode, raw - base)
  BY <1>2, RoundsTimeDelta
<1>4. total \in Int
  BY <1>2, TimeDeltaRoundType
<1>5. total \notin {NoNanos, Panics} => total = raw
  <2> HIDE DEF raw, total
  <2> QED BY <1>2, <1>3, RoundsOrFails DEF raw, total
<1>6. Multiple(raw, in_nanos(last))
  <2>1. in_nanos(last) \in Int
    BY <1>1, UnitNanos
  <2> QED BY <1>2, <1>3, <2>1, MultipleOf
<1> HIDE DEF total, raw
<1>7. total = TimeDeltaRound(n, in_nanos(last) * inc, mode)
  BY DEF total
<1>8. /\ total \notin {NoNanos, Panics} /\ r.value \in [units -> Int] /\ ExactSum(r.value) = total
      /\ total >= 0 => \A u \in units : r.value[u] >= 0
      /\ total <= 0 => \A u \in units : r.value[u] <= 0
  BY <1>4, <1>5, <1>6, <1>7, ExactUnits
<1>9. sum = total /\ sum = raw
  BY <1>5, <1>8
<1> QED BY <1>1, <1>3, <1>8, <1>9 DEF raw

-----------------------------------------------------------------------------
(***************************************************************************)
(* Differences of datetimes.                                               *)
(***************************************************************************)

\* The date after a date, and the date before it, where there is one.
LEMMA TomorrowIsAfter ==
    ASSUME NEW d, IsDate(d), NEW n \in Int, n = unix_days(d) + 1, n \in UnixDays
    PROVE  IsDate(tomorrow(d)) /\ unix_days(tomorrow(d)) = n
<1>1. d # DateMax
  <2> DEFINE m == UnixDaysMax
  <2> HIDE DEF m
  <2>1. d = DateMax => n = m + 1
    BY LastNumber DEF m
  <2>2. n <= m /\ m \in Int
    BY LastNumber DEF m
  <2> QED BY <2>1, <2>2, SMT
<1> QED BY <1>1, TomorrowIsNext

LEMMA YesterdayIsBefore ==
    ASSUME NEW d, IsDate(d), NEW n \in Int, n = unix_days(d) - 1, n \in UnixDays
    PROVE  IsDate(yesterday(d)) /\ unix_days(yesterday(d)) = n
<1> DEFINE p == UnixDaysDate(n)
<1>1. IsDate(p) /\ unix_days(p) = n
  BY UnixDaysDateSound
<1>2. unix_days(d) \in Int /\ unix_days(d) \in UnixDays /\ unix_days(d) = n + 1
  <2>1. unix_days(d) \in Int /\ unix_days(d) \in UnixDays
    BY UnixDaysType, UnixDaysInRange
  <2> DEFINE u == unix_days(d)
  <2> HIDE DEF u
  <2>2. u = n + 1
    BY <2>1, SMT DEF u
  <2> QED BY <2>1, <2>2 DEF u
<1> HIDE DEF p
<1>3. p # DateMax
  <2> SUFFICES ASSUME p = DateMax PROVE FALSE
    OBVIOUS
  <2>1. n = UnixDaysMax /\ UnixDaysMax \in Int
    BY <1>1, LastNumber
  <2>2. n + 1 <= UnixDaysMax
    BY <1>2, LastNumber
  <2> DEFINE m == UnixDaysMax
  <2> HIDE DEF m
  <2>3. n = m /\ m \in Int /\ n + 1 <= m
    BY <2>1, <2>2 DEF m
  <2> QED BY <2>3, SMT
<1>4. IsDate(tomorrow(p)) /\ unix_days(tomorrow(p)) = n + 1 /\ yesterday(tomorrow(p)) = p
  BY <1>1, <1>3, TomorrowIsNext
<1>5. tomorrow(p) = d
  BY <1>2, <1>4, SameNumberSameDate
<1> QED BY <1>1, <1>4, <1>5

\* target_date: the dates that with the time of b have not passed a, counted from b, are those
\* that have not passed the target; b itself is one of them.
AtTime(u, t) == u * NanosPerDay + t
LEMMA TargetDate ==
    ASSUME NEW a, IsPlain(a), NEW b, IsPlain(b), NEW neg, neg = PlainLess(a, b),
           NEW target, target = target_date(a, b, neg)
    PROVE  /\ neg \in BOOLEAN /\ (neg <=> assume_utc(a) < assume_utc(b))
           /\ IsDate(target) /\ target # NoDate /\ Reaches(b.date, target, neg)
           /\ \A u \in Int :
                /\ AtTime(u, b.time) \in Int
                /\ neg => /\ u >= unix_days(target) => assume_utc(a) <= AtTime(u, b.time)
                          /\ u < unix_days(target) => AtTime(u, b.time) < assume_utc(a)
                /\ ~neg => /\ u <= unix_days(target) => AtTime(u, b.time) <= assume_utc(a)
                           /\ u > unix_days(target) => assume_utc(a) < AtTime(u, b.time)
<1> DEFINE h == NanosPerDay
           ua == unix_days(a.date)
           ub == unix_days(b.date)
           s == a.time
           t == b.time
           ut == unix_days(target)
<1>1. /\ h \in Nat \ {0} /\ ua \in Int /\ ub \in Int /\ s \in Nat /\ t \in Nat /\ s < h /\ t < h
      /\ IsDate(a.date) /\ IsDate(b.date) /\ ua \in UnixDays /\ ub \in UnixDays
  BY ClockFacts, PlainIsInstant, UnixDaysInRange DEF IsPlain
<1>2. assume_utc(a) = ua * h + s /\ assume_utc(b) = ub * h + t /\ \A u : AtTime(u, b.time) = u * h + t
  BY DEF assume_utc, AtTime
<1>3. neg \in BOOLEAN /\ (neg <=> assume_utc(a) < assume_utc(b))
  BY PlainOrder DEF PlainLess, DateLess
<1>4. ua - 1 \in Int /\ ua + 1 \in Int
  BY <1>1, SMT
<1>5. ASSUME NEW x \in UnixDays, NEW y \in UnixDays, NEW n \in Int, x <= n, n <= y
      PROVE  n \in UnixDays
  <2> DEFINE m == UnixDaysMin
             k == UnixDaysMax
  <2> HIDE DEF m, k
  <2>1. x \in Int /\ y \in Int /\ m \in Int /\ k \in Int /\ m <= x /\ y <= k
    BY LastNumber DEF m, k
  <2>2. m <= n /\ n <= k
    BY <1>5, <2>1, SMT
  <2> QED BY <2>2, LastNumber DEF m, k
<1>6. /\ target = IF ~neg /\ t > s THEN yesterday(a.date) ELSE IF neg /\ t < s THEN tomorrow(a.date) ELSE a.date
  BY DEF target_date
<1> DEFINE na == ua * h + s
           nb == ub * h + t
<1>7. na \in Int /\ nb \in Int
  BY <1>1, DaysAndTime
<1>8. neg <=> na < nb
  BY <1>2, <1>3
<1>9. ASSUME ~neg, t > s PROVE ua - 1 \in UnixDays
  <2>1. nb <= na
    <3> HIDE DEF na, nb
    <3> QED BY <1>7, <1>8, <1>9
  <2>2. ub <= ua
    BY <1>1, <2>1, DaysAndTime
  <2>3. ub # ua
    <3> SUFFICES ASSUME ub = ua PROVE FALSE
      OBVIOUS
    <3>1. t <= s
      BY <1>1, <2>1, DaysAndTime
    <3> HIDE DEF s, t
    <3> QED BY <1>1, <1>9, <3>1, SMT
  <2>4. ub <= ua - 1 /\ ua - 1 <= ua
    <3> HIDE DEF ua, ub
    <3> QED BY <1>1, <2>2, <2>3, SMT
  <2> QED BY <1>1, <1>4, <1>5, <2>4
<1>10. ASSUME neg, t < s PROVE ua + 1 \in UnixDays
  <2>1. na <= nb
    <3> HIDE DEF na, nb
    <3> QED BY <1>7, <1>8, <1>10
  <2>2. ua <= ub
    BY <1>1, <2>1, DaysAndTime
  <2>3. ub # ua
    <3> SUFFICES ASSUME ub = ua PROVE FALSE
      OBVIOUS
    <3>1. s <= t
      BY <1>1, <2>1, DaysAndTime
    <3> HIDE DEF s, t
    <3> QED BY <1>1, <1>10, <3>1, SMT
  <2>4. ua <= ua + 1 /\ ua + 1 <= ub
    <3> HIDE DEF ua, ub
    <3> QED BY <1>1, <2>2, <2>3, SMT
  <2> QED BY <1>1, <1>4, <1>5, <2>4
<1>11. IsDate(target) /\ ut = IF ~neg /\ t > s THEN ua - 1 ELSE IF neg /\ t < s THEN ua + 1 ELSE ua
  <2>1. CASE ~neg /\ t > s
    <3>1. IsDate(yesterday(a.date)) /\ unix_days(yesterday(a.date)) = ua - 1
      BY <1>1, <1>4, <1>9, <2>1, YesterdayIsBefore
    <3> QED BY <1>6, <2>1, <3>1
  <2>2. CASE neg /\ t < s
    <3>1. IsDate(tomorrow(a.date)) /\ unix_days(tomorrow(a.date)) = ua + 1
      BY <1>1, <1>4, <1>10, <2>2, TomorrowIsAfter
    <3> QED BY <1>6, <2>2, <3>1
  <2>3. CASE ~(~neg /\ t > s) /\ ~(neg /\ t < s)
    BY <1>1, <1>6, <2>3
  <2> QED BY <2>1, <2>2, <2>3
<1> HIDE DEF ut
<1>12. ut \in Int
  BY <1>4, <1>1, <1>11
<1>13. ASSUME NEW u \in Int
       PROVE  /\ u * h + t \in Int
              /\ neg => /\ u >= ut => na <= u * h + t
                        /\ u < ut => u * h + t < na
              /\ ~neg => /\ u <= ut => u * h + t <= na
                         /\ u > ut => na < u * h + t
  <2> DEFINE x == u * h + t
  <2>1. /\ x \in Int
        /\ u < ua => x < na
        /\ u = ua => (x <= na <=> t <= s)
    BY <1>1, DaysAndTime
  <2>2. /\ ua < u => na < x
        /\ ua = u => (na <= x <=> s <= t)
    BY <1>1, DaysAndTime
  <2> HIDE DEF x, na, ua, s, t
  <2> QED BY <1>1, <1>7, <1>11, <2>1, <2>2, SMT DEF x
<1>14. Reaches(b.date, target, neg)
  <2>1. IsInterim(b.date) /\ Number(b.date) = ub
    BY <1>1, DateIsInterim
  <2>2. IF neg THEN ut <= ub ELSE ub <= ut
    <3>1. /\ neg => /\ ub >= ut => na <= nb
                    /\ ub < ut => nb < na
          /\ ~neg => /\ ub <= ut => nb <= na
                     /\ ub > ut => na < nb
      BY <1>1, <1>13
    <3> HIDE DEF na, nb, ua, ub
    <3> QED BY <1>1, <1>3, <1>7, <1>8, <1>12, <3>1, SMT
  <2> QED BY <2>1, <2>2 DEF Reaches, ut
<1>15. target # NoDate
  BY <1>11, NoneIsNoDate
<1> QED BY <1>2, <1>3, <1>11, <1>13, <1>14, <1>15 DEF ut

\* PlainDateTime.add of itemized units: the calendar units lead to a date, the others are added
\* to its instant; the first second of the range may be refused.
TimeSum(value) ==
    FieldOr0(value, "hours") * NanosPerHour + FieldOr0(value, "minutes") * NanosPerMinute
    + FieldOr0(value, "seconds") * NanosPerSecond + FieldOr0(value, "nanoseconds")

LEMMA ItemizedShifts ==
    ASSUME NEW b, IsPlain(b), NEW value, MonthsIn(value) \in Int, DaysIn(value) \in Int,
           NEW i, Leads(b.date, MonthsIn(value), DaysIn(value), i), NEW r \in Int, r = TimeSum(value),
           NEW t, t = AtTime(Number(i), b.time), NEW p, p = PlainShiftBy(b, ItemizedToShift(value))
    PROVE  /\ t \in Instants /\ t \in Int
           /\ p # NoPlain => t + r \in Instants /\ IsPlain(p) /\ assume_utc(p) = t + r
           /\ r \in TimeDeltas /\ t + r \in Instants
              /\ (secs(t + r) > EpochMin \/ secs(t) + secs(r) \in EpochMin .. EpochMax) =>
                    p = to_utc_plain(t + r) /\ p # NoPlain
<1> DEFINE cal == to_calendar_shift(value)
           e == InterimResolve(i)
           s == DateTimeDelta(cal.months, cal.days, r)
           q == Plain(e, b.time)
<1>1. shift_by(b.date, cal) = e /\ IsDate(e) /\ unix_days(e) = Number(i)
  BY LeadsShifts DEF IsPlain
<1>2. cal # NoShift /\ ShiftDate(b.date, cal.months, cal.days) = e
  <2> HIDE DEF cal, e
  <2> QED BY <1>1, NoneIsNoDate DEF shift_by
<1>3. cal = [months |-> cal.months, days |-> cal.days]
  <2> DEFINE m == FieldOr0(value, "years") * 12 + FieldOr0(value, "months")
             k == FieldOr0(value, "weeks") * 7 + FieldOr0(value, "days")
  <2>1. cal = [months |-> m, days |-> k] \/ cal = NoShift
    BY DEF to_calendar_shift
  <2> HIDE DEF m, k, cal
  <2> QED BY <1>2, <2>1
<1>4. ItemizedToShift(value) = IF cal = NoShift \/ r \notin TimeDeltas THEN NoDateTimeShift ELSE s
  BY DEF ItemizedToShift, TimeSum
<1> HIDE DEF cal, e
<1>5. s # NoDateTimeShift /\ s.months = cal.months /\ s.days = cal.days /\ s.nanos = r
  <2>1. s.months = cal.months /\ s.days = cal.days /\ s.nanos = r
    BY DEF DateTimeDelta
  <2>2. NoDateTimeShift.months = NoShift.months /\ NoDateTimeShift.days = NoShift.days
    BY DEF NoDateTimeShift
  <2>3. NoShift = [months |-> NoShift.months, days |-> NoShift.days]
    BY DEF NoShift
  <2> HIDE DEF s
  <2> QED BY <1>2, <1>3, <2>1, <2>2, <2>3
<1> HIDE DEF s
<1>6. IsPlain(q) /\ q.date = e /\ q.time = b.time /\ q # NoPlain /\ assume_utc(q) = t
  <2>1. q.date = e /\ q.time = b.time
    BY DEF Plain
  <2>2. NoPlain.date = NoDate
    BY DEF NoPlain, Plain
  <2>3. e # NoDate
    BY <1>1, NoneIsNoDate
  <2> HIDE DEF q
  <2>4. IsPlain(q)
    BY <1>1, <2>1 DEF IsPlain
  <2> QED BY <1>1, <2>1, <2>2, <2>3, <2>4 DEF assume_utc, AtTime
<1>7. OrNoPlain(ShiftDate(b.date, cal.months, cal.days), b.time) = q
  <2>1. e # NoDate
    BY <1>1, NoneIsNoDate
  <2> QED BY <1>2, <2>1 DEF OrNoPlain
<1> HIDE DEF q
<1>8. t \in Instants /\ t \in Int
  BY <1>6, PlainIsInstant
<1>9. r \in TimeDeltas => p = PlainOrNone(InstantShift(t, r))
  <2> SUFFICES ASSUME r \in TimeDeltas PROVE p = PlainOrNone(InstantShift(t, r))
    OBVIOUS
  <2>1. ItemizedToShift(value) = s
    BY <1>2, <1>4
  <2>2. p = PlainShiftOn(OrNoPlain(ShiftDate(b.date, cal.months, cal.days), b.time), r)
    BY <1>5, <2>1 DEF PlainShiftBy
  <2>3. p = PlainShift(q, r)
    BY <1>6, <1>7, <2>2 DEF PlainShiftOn
  <2> QED BY <1>6, <2>3 DEF PlainShift
<1>10. r \notin TimeDeltas => p = NoPlain
  BY <1>4 DEF PlainShiftBy
<1>11. /\ InstantShift(t, r) = IF t + r \in Instants /\ secs(t) + secs(r) \in EpochMin .. EpochMax
                               THEN t + r ELSE NoInstant
       /\ t + r \in Instants =>
            (secs(t) + secs(r) \in EpochMin .. EpochMax
             <=> (secs(t + r) > EpochMin \/ secs(t) + secs(r) = EpochMin))
  BY <1>8, ShiftInstantAdds
<1> DEFINE x == t + r
<1>12. x \in Instants => /\ IsPlain(to_utc_plain(x)) /\ assume_utc(to_utc_plain(x)) = x
                         /\ to_utc_plain(x) # NoPlain /\ x # NoInstant
  BY InstantIsPlain, InstantIsInt
<1>13. PlainOrNone(NoInstant) = NoPlain
  BY DEF PlainOrNone
<1> HIDE DEF x
<1>14. x \in Instants => PlainOrNone(x) = to_utc_plain(x)
  BY <1>12 DEF PlainOrNone
<1>15. p # NoPlain => x \in Instants /\ IsPlain(p) /\ assume_utc(p) = x
  BY <1>9, <1>10, <1>11, <1>12, <1>13, <1>14 DEF x
<1>16. r \in TimeDeltas /\ x \in Instants /\ (secs(x) > EpochMin \/ secs(t) + secs(r) \in EpochMin .. EpochMax) =>
            p = to_utc_plain(x) /\ p # NoPlain
  BY <1>9, <1>11, <1>12, <1>14 DEF x
<1> QED BY <1>8, <1>15, <1>16 DEF x

\* A difference leads towards its target, and not past it, if the instant it leads to lies
\* between what its calendar units lead to and the target; the next one leads past it.
LEMMA LeadsToInstant ==
    ASSUME NEW a, IsPlain(a), a = Plain(a.date, a.time), NEW b, IsPlain(b), NEW neg, neg = PlainLess(a, b),
           NEW n, n = assume_utc(a), secs(n) # EpochMin,
           NEW units, NEW d, \A u \in units : Forward(d.value[u], neg),
           MonthsIn(d.value) \in Int, DaysIn(d.value) \in Int,
           NEW i, Leads(b.date, MonthsIn(d.value), DaysIn(d.value), i),
           NEW t \in Int, t = AtTime(Number(i), b.time), NEW r \in Int, r = TimeSum(d.value), r \in TimeDeltas,
           neg => n <= t + r /\ r <= 0, ~neg => t + r <= n /\ r >= 0,
           "nanoseconds" \in units => t + r = n,
           NEW more, MonthsIn(more) \in Int, DaysIn(more) \in Int,
           NEW j, Leads(b.date, MonthsIn(more), DaysIn(more), j),
           NEW t1 \in Int, t1 = AtTime(Number(j), b.time), NEW r1 \in Int, r1 = TimeSum(more),
           neg => t1 + r1 < n, ~neg => n < t1 + r1
    PROVE  LeadsTo(a, b, units, d, PlainShiftBy(b, ItemizedToShift(d.value)), PlainShiftBy(b, ItemizedToShift(more)))
<1> DEFINE back == PlainShiftBy(b, ItemizedToShift(d.value))
           next == PlainShiftBy(b, ItemizedToShift(more))
           x == t + r
           y == t1 + r1
<1>1. n \in Int /\ n \in Instants /\ secs(n) \in EpochMin .. EpochMax /\ EpochMin \in Int /\ EpochMax \in Int
  BY PlainIsInstant, InstantIsInt, EpochFacts
<1>2. /\ t \in Instants
      /\ back # NoPlain => x \in Instants /\ IsPlain(back) /\ assume_utc(back) = x
      /\ r \in TimeDeltas /\ x \in Instants
         /\ (secs(x) > EpochMin \/ secs(t) + secs(r) \in EpochMin .. EpochMax) =>
               back = to_utc_plain(x) /\ back # NoPlain
  BY ItemizedShifts
<1>3. next # NoPlain => IsPlain(next) /\ assume_utc(next) = y
  BY ItemizedShifts
<1>4. /\ x \in Int /\ y \in Int
      /\ neg => n <= x /\ x <= t /\ y < n
      /\ ~neg => t <= x /\ x <= n /\ n < y
  BY <1>1, SMT
<1>5. secs(x) \in Int /\ secs(t) \in EpochMin .. EpochMax /\ secs(r) \in Int /\ secs(n) \in Int
  BY <1>1, <1>2, <1>4, SecsSplit, InstantIsInt
<1>6. secs(x) = secs(t) + secs(r) \/ secs(x) = secs(t) + secs(r) + 1
  <2> DEFINE carry == (subsec(t) + subsec(r)) \div NanosPerSecond
  <2>1. carry \in 0 .. 1 /\ secs(t + r) = secs(t) + secs(r) + carry
    BY SecsAdd
  <2> HIDE DEF carry
  <2>2. carry = 0 \/ carry = 1
    BY <2>1, SMT
  <2>3. secs(t) + secs(r) + 0 = secs(t) + secs(r)
    BY <1>5, SMT
  <2> QED BY <2>1, <2>2, <2>3
<1> HIDE DEF back, next, x, y
<1>7. x \in Instants /\ (secs(x) > EpochMin \/ secs(t) + secs(r) \in EpochMin .. EpochMax)
  <2>1. CASE neg
    <3>1. secs(n) <= secs(x) /\ secs(x) <= secs(t)
      BY <1>1, <1>4, <2>1, SecsOrder
    <3>2. secs(x) \in EpochMin .. EpochMax /\ secs(x) > EpochMin
      BY <1>1, <1>5, <3>1, SMT
    <3> QED BY <1>4, <3>2, InstantRange
  <2>2. CASE ~neg
    <3>1. secs(t) <= secs(x) /\ secs(x) <= secs(n)
      BY <1>1, <1>4, <2>2, SecsOrder
    <3>2. secs(r) >= 0
      <4>1. secs(0) = 0
        BY ClockFacts, SMT DEF secs
      <4>2. secs(0) <= secs(r)
        BY <2>2, SecsOrder
      <4> QED BY <4>1, <4>2
    <3>3. secs(x) \in EpochMin .. EpochMax
      BY <1>1, <1>5, <3>1, SMT
    <3>4. secs(t) + secs(r) \in EpochMin .. EpochMax
      BY <1>1, <1>5, <1>6, <3>2, <3>3, SMT
    <3> QED BY <1>4, <3>3, <3>4, InstantRange
  <2> QED BY <2>1, <2>2 DEF PlainLess, DateLess
<1>8. back = to_utc_plain(x) /\ back # NoPlain /\ IsPlain(back) /\ assume_utc(back) = x
  BY <1>2, <1>7
<1>9. ~PastTarget(a, b, back)
  <2>1. PlainLess(back, a) <=> x < n
    BY <1>8, PlainOrder
  <2>2. PlainLess(a, back) <=> n < x
    BY <1>8, PlainOrder
  <2>3. (neg => ~(x < n)) /\ (~neg => ~(n < x))
    BY <1>1, <1>4, SMT
  <2> QED BY <2>1, <2>2, <2>3 DEF PastTarget
<1>10. next # NoPlain => PastTarget(a, b, next)
  <2> SUFFICES ASSUME next # NoPlain PROVE PastTarget(a, b, next)
    OBVIOUS
  <2>1. PlainLess(next, a) <=> y < n
    BY <1>3, PlainOrder
  <2>2. PlainLess(a, next) <=> n < y
    BY <1>3, PlainOrder
  <2> QED BY <1>4, <2>1, <2>2 DEF PastTarget
<1>11. "nanoseconds" \in units => back = a
  <2>1. x = n => to_utc_plain(x) = Plain(a.date, a.time)
    BY PlainIsInstant
  <2> QED BY <1>8, <2>1 DEF x
<1>12. \A u \in units : IF PlainLess(a, b) THEN d.value[u] <= 0 ELSE d.value[u] >= 0
  BY DEF Forward
<1>13. LeadsTo(a, b, units, d, back, next)
  BY <1>8, <1>9, <1>10, <1>11, <1>12 DEF LeadsTo
<1> QED BY <1>13 DEF back, next

\* The units of a difference: the smallest exact unit, or the smallest of the calendar.
LEMMA UnitNames ==
    /\ Names(CalendarUnit) = {"years", "months", "weeks", "days"}
    /\ DOMAIN DifferenceUnit = 1 .. 8 /\ 8 \in Nat
    /\ DifferenceUnit[1] = "years" /\ DifferenceUnit[2] = "months" /\ DifferenceUnit[3] = "weeks"
    /\ DifferenceUnit[4] = "days" /\ DifferenceUnit[5] = "hours" /\ DifferenceUnit[6] = "minutes"
    /\ DifferenceUnit[7] = "seconds" /\ DifferenceUnit[8] = "nanoseconds"
<1>1. Names(CalendarUnit) = {"years", "months", "weeks", "days"}
  BY SMT DEF Names, CalendarUnit
<1> DEFINE s == <<"years", "months", "weeks", "days">>
           t == <<"hours", "minutes", "seconds", "nanoseconds">>
<1>2. /\ Len(s) = 4 /\ s[1] = "years" /\ s[2] = "months" /\ s[3] = "weeks" /\ s[4] = "days"
      /\ Len(t) = 4 /\ t[1] = "hours" /\ t[2] = "minutes" /\ t[3] = "seconds" /\ t[4] = "nanoseconds"
  BY SMT
<1>3. DifferenceUnit = s \o t
  BY DEF DifferenceUnit, CalendarUnit
<1>4. s \in Seq(ExactSix \cup Names(CalendarUnit)) /\ t \in Seq(ExactSix \cup Names(CalendarUnit))
  BY <1>1, SMT DEF ExactSix
<1> HIDE DEF s, t
<1>5. /\ s \o t \in Seq(ExactSix \cup Names(CalendarUnit)) /\ Len(s \o t) = Len(s) + Len(t)
      /\ \A i \in 1 .. Len(s) + Len(t) : (s \o t)[i] = IF i <= Len(s) THEN s[i] ELSE t[i - Len(s)]
  BY <1>4, SMT
<1>6. /\ (s \o t)[1] = s[1] /\ (s \o t)[2] = s[2] /\ (s \o t)[3] = s[3] /\ (s \o t)[4] = s[4]
      /\ (s \o t)[5] = t[1] /\ (s \o t)[6] = t[2] /\ (s \o t)[7] = t[3] /\ (s \o t)[8] = t[4]
  BY <1>2, <1>5, SMT
<1>7. DOMAIN (s \o t) = 1 .. 8
  BY <1>2, <1>5, SMT
<1> QED BY <1>1, <1>2, <1>3, <1>6, <1>7

LEMMA SmallestOfBoth ==
    ASSUME NEW cal \in SUBSET Names(CalendarUnit), NEW exact \in SUBSET ExactFour
    PROVE  /\ exact = {} /\ cal # {} => smallest(DifferenceUnit, cal \cup exact) = smallest(CalendarUnit, cal)
           /\ exact # {} => /\ smallest(DifferenceUnit, cal \cup exact) = smallest(ExactUnit, exact)
                            /\ smallest(ExactUnit, exact) \in exact
<1> DEFINE units == cal \cup exact
           last == smallest(DifferenceUnit, units)
<1>1. ASSUME NEW k \in 1 .. 8, DifferenceUnit[k] \in units, \A j \in 1 .. 8 : DifferenceUnit[j] \in units => j <= k
      PROVE  last = DifferenceUnit[k]
  <2>1. DOMAIN DifferenceUnit = 1 .. 8 /\ 8 \in Nat
    BY UnitNames
  <2> HIDE DEF units
  <2> QED BY <1>1, <2>1, LastOf
<1>2. \A j \in 1 .. 8 : j \in {1, 2, 3, 4, 5, 6, 7, 8}
  BY SMT
<1>3. /\ cal \subseteq {"years", "months", "weeks", "days"}
      /\ exact \subseteq {"hours", "minutes", "seconds", "nanoseconds"}
  BY UnitNames DEF ExactFour
<1>4. exact \subseteq ExactSix
  BY DEF ExactFour, ExactSix
<1> HIDE DEF last
<1>5. CASE exact = {} /\ cal # {}
  <2>1. units = cal
    BY <1>5
  <2>2. CASE "days" \in cal
    BY <1>1, <1>2, <1>3, <1>5, <2>1, <2>2, UnitNames, SmallestUnit DEF last
  <2>3. CASE "weeks" \in cal /\ "days" \notin cal
    BY <1>1, <1>2, <1>3, <1>5, <2>1, <2>3, UnitNames, SmallestUnit DEF last
  <2>4. CASE "months" \in cal /\ {"weeks", "days"} \cap cal = {}
    <3>1. last = "months"
      BY <1>1, <1>2, <1>3, <1>5, <2>1, <2>4, UnitNames
    <3> QED BY <1>5, <2>4, <3>1, SmallestUnit DEF last
  <2>5. CASE "years" \in cal /\ {"months", "weeks", "days"} \cap cal = {}
    <3>1. last = "years"
      BY <1>1, <1>2, <1>3, <1>5, <2>1, <2>5, UnitNames
    <3> QED BY <1>5, <2>5, <3>1, SmallestUnit DEF last
  <2>6. \/ "days" \in cal
        \/ "weeks" \in cal /\ "days" \notin cal
        \/ "months" \in cal /\ {"weeks", "days"} \cap cal = {}
        \/ "years" \in cal /\ {"months", "weeks", "days"} \cap cal = {}
    BY <1>3, <1>5
  <2> QED BY <2>2, <2>3, <2>4, <2>5, <2>6
<1>6. CASE exact # {}
  <2>1. smallest(ExactUnit, exact) \in exact
    BY <1>4, <1>6, SmallestExact
  <2> DEFINE e == smallest(ExactUnit, exact)
  <2> HIDE DEF e
  <2>2. e \in exact /\ e \in {"hours", "minutes", "seconds", "nanoseconds"} /\ units \ exact = cal \ exact
    BY <1>3, <2>1 DEF e
  <2>3. CASE e = "nanoseconds"
    BY <1>1, <1>2, <2>2, <2>3, UnitNames DEF last, e
  <2>4. CASE e = "seconds"
    <3>1. "nanoseconds" \notin exact
      BY <1>4, <1>6, <2>4, SmallestExact DEF e, ExactSix
    <3>2. last = "seconds"
      BY <1>1, <1>2, <1>3, <2>2, <2>4, <3>1, UnitNames
    <3> QED BY <2>2, <2>4, <3>2 DEF last, e
  <2>5. CASE e = "minutes"
    <3>1. "nanoseconds" \notin exact /\ "seconds" \notin exact
      BY <1>4, <1>6, <2>5, SmallestExact DEF e, ExactSix
    <3>2. last = "minutes"
      BY <1>1, <1>2, <1>3, <2>2, <2>5, <3>1, UnitNames
    <3> QED BY <2>2, <2>5, <3>2 DEF last, e
  <2>6. CASE e = "hours"
    <3>1. "nanoseconds" \notin exact /\ "seconds" \notin exact /\ "minutes" \notin exact
      BY <1>4, <1>6, <2>6, SmallestExact DEF e, ExactSix
    <3>2. last = "hours"
      BY <1>1, <1>2, <1>3, <2>2, <2>6, <3>1, UnitNames
    <3> QED BY <2>2, <2>6, <3>2 DEF last, e
  <2> QED BY <1>6, <2>2, <2>3, <2>4, <2>5, <2>6 DEF last, e
<1> QED BY <1>5, <1>6 DEF last

\* A calendar unit adds nothing to the time.
LEMMA NoTime ==
    ASSUME NEW cal \in SUBSET Names(CalendarUnit), NEW value \in [cal -> Int]
    PROVE  TimeSum(value) = 0 /\ MonthsIn(value) \in Int /\ DaysIn(value) \in Int
<1>1. FieldOr0(value, "hours") = 0 /\ FieldOr0(value, "minutes") = 0
      /\ FieldOr0(value, "seconds") = 0 /\ FieldOr0(value, "nanoseconds") = 0
  BY UnitNames, FieldType
<1>2. TimeSum(value) = 0
  BY <1>1, ClockFacts, SMT DEF TimeSum
<1>3. \A u : FieldOr0(value, u) \in Int
  BY FieldType
<1>4. MonthsIn(value) \in Int /\ DaysIn(value) \in Int
  BY <1>3, SMT DEF MonthsIn, DaysIn
<1> QED BY <1>2, <1>4

\* The calendar units of a difference lead from b towards the target of the dates, with the time
\* of b, and one more of the smallest past it.
LEMMA CalendarPart ==
    ASSUME NEW a, IsPlain(a), NEW b, IsPlain(b), NEW neg, neg = PlainLess(a, b), NEW n, n = assume_utc(a),
           NEW cal \in (SUBSET Names(CalendarUnit)) \ {{}}, NEW last, last = smallest(CalendarUnit, cal),
           NEW c, c = date_diff(target_date(a, b, neg), b.date, 1, cal, neg), c.ok,
           NEW t, t = AtTime(Number(c.trunc), b.time), NEW t1, t1 = AtTime(Number(c.expand), b.time),
           NEW more, more = OneMore(c, last, neg)
    PROVE  /\ c.value \in [cal -> Int] /\ \A u \in cal : Forward(c.value[u], neg)
           /\ Leads(b.date, MonthsIn(c.value), DaysIn(c.value), c.trunc)
           /\ t \in Int /\ (neg => n <= t) /\ (~neg => t <= n)
           /\ last \in cal /\ more \in [cal -> Int]
           /\ Leads(b.date, MonthsIn(more), DaysIn(more), c.expand)
           /\ t1 \in Int /\ (neg => t1 < n) /\ (~neg => n < t1)
<1> DEFINE target == target_date(a, b, neg)
<1>1. /\ neg \in BOOLEAN /\ IsDate(target) /\ Reaches(b.date, target, neg) /\ IsDate(b.date)
      /\ \A u \in Int :
                /\ AtTime(u, b.time) \in Int
                /\ neg => /\ u >= unix_days(target) => assume_utc(a) <= AtTime(u, b.time)
                          /\ u < unix_days(target) => AtTime(u, b.time) < assume_utc(a)
                /\ ~neg => /\ u <= unix_days(target) => AtTime(u, b.time) <= assume_utc(a)
                           /\ u > unix_days(target) => assume_utc(a) < AtTime(u, b.time)
  BY TargetDate DEF IsPlain
<1> HIDE DEF target
<1>2. c = date_diff(target, b.date, 1, cal, neg)
  BY DEF target
<1>3. AfterDays(c, cal, b.date, target, neg) /\ last \in cal /\ NextLeads(c, last, b.date, target, neg)
  BY <1>1, <1>2, DifferenceLeads
<1>4. /\ c.value \in [cal -> Int] /\ \A u \in cal : Forward(c.value[u], neg)
      /\ Reaches(c.trunc, target, neg) /\ Leads(b.date, MonthsIn(c.value), DaysIn(c.value), c.trunc)
  BY <1>3 DEF AfterDays, OnTheWay
<1>5. Lands(c, target, neg) /\ Leads(b.date, MonthsIn(more), DaysIn(more), c.expand)
  BY <1>3 DEF NextLeads
<1>6. unix_days(target) \in Int /\ Number(c.trunc) \in Int /\ Number(c.expand) \in Int
  <2>1. IsInterim(c.trunc) /\ IsInterim(c.expand)
    BY <1>5 DEF Lands
  <2> QED BY <1>1, <2>1, UnixDaysType, ResolveIsDate
<1>7. /\ neg => Number(c.expand) < unix_days(target) /\ unix_days(target) <= Number(c.trunc)
      /\ ~neg => Number(c.trunc) <= unix_days(target) /\ unix_days(target) < Number(c.expand)
  BY <1>5 DEF Lands
<1>8. t \in Int /\ (neg => n <= t) /\ (~neg => t <= n)
  <2> DEFINE u == Number(c.trunc)
             ut == unix_days(target)
  <2>1. (neg => u >= ut) /\ (~neg => u <= ut)
    <3>1. (neg => ut <= u) /\ (~neg => u <= ut)
      BY <1>7
    <3> HIDE DEF u, ut
    <3> QED BY <3>1, <1>6, SMT DEF u, ut
  <2> QED BY <1>1, <1>6, <2>1
<1>9. t1 \in Int /\ (neg => t1 < n) /\ (~neg => n < t1)
  <2> DEFINE u == Number(c.expand)
             ut == unix_days(target)
  <2>1. (neg => u < ut) /\ (~neg => u > ut)
    <3>1. (neg => u < ut) /\ (~neg => ut < u)
      BY <1>7
    <3> HIDE DEF u, ut
    <3> QED BY <3>1, <1>6, SMT DEF u, ut
  <2> QED BY <1>1, <1>6, <2>1
<1>10. more \in [cal -> Int]
  <2> DEFINE v == c.value[last] + Step(1, neg)
  <2>1. v \in Int
    <3>1. c.value[last] \in Int /\ Step(1, neg) \in Int
      BY <1>1, <1>3, <1>4, SMT DEF Step
    <3> QED BY <3>1, SMT
  <2> HIDE DEF v
  <2>2. more = [c.value EXCEPT ![last] = v]
    BY DEF OneMore, v
  <2> QED BY <1>4, <2>1, <2>2
<1> QED BY <1>3, <1>4, <1>5, <1>8, <1>9, <1>10

\* Rounding towards zero keeps what was truncated.
LEMMA RoundsToSame ==
    ASSUME NEW v \in Int, NEW target, NEW trunc, NEW expand, NEW inc, NEW neg
    PROVE  round_by_time(v, target, trunc, expand, to_abs_trunc("trunc", neg), inc, neg) = v
<1>1. to_abs_trunc("trunc", neg) = "trunc"
  BY DEF to_abs_trunc
<1>2. round_by_time(v, target, trunc, expand, to_abs_trunc("trunc", neg), inc, neg) = v + 0
  BY <1>1 DEF round_by_time, RoundByDistance, DoExpand
<1>3. v + 0 = v
  BY SMT
<1> QED BY <1>2, <1>3

LEMMA CalendarKeeps ==
    ASSUME NEW cal, NEW value \in [cal -> Int], NEW last \in cal, NEW a, NEW trunc, NEW expand, NEW neg
    PROVE  RoundCalendar(value, a, trunc, expand, last, "trunc", 1, neg) = [ok |-> TRUE, value |-> value]
<1> DEFINE v == value[last]
           r == round_by_time(v, assume_utc(a), trunc, expand, to_abs_trunc("trunc", neg), 1, neg)
<1>1. RoundCalendar(value, a, trunc, expand, last, "trunc", 1, neg) = [ok |-> TRUE, value |-> [value EXCEPT ![last] = r]]
  BY DEF RoundCalendar
<1>2. r = v
  BY RoundsToSame
<1> HIDE DEF r
<1>3. [value EXCEPT ![last] = r] = value
  BY <1>2
<1> QED BY <1>1, <1>3

\* A difference in calendar units only.
LEMMA CalendarOnlyLeads ==
    ASSUME NEW a, IsPlain(a), a = Plain(a.date, a.time), NEW b, IsPlain(b), secs(assume_utc(a)) # EpochMin,
           NEW cal \in (SUBSET Names(CalendarUnit)) \ {{}}, NEW neg, neg = PlainLess(a, b),
           NEW d, d = SinceOn(target_date(a, b, neg), a, b, cal, {}, "trunc", 1, neg)
    PROVE  SinceLeadsTo(a, b, cal, d)
<1> SUFFICES ASSUME d.ok PROVE SinceLeadsTo(a, b, cal, d)
  BY DEF SinceLeadsTo
<1> DEFINE target == target_date(a, b, neg)
           c == date_diff(target, b.date, 1, cal, neg)
           last == smallest(CalendarUnit, cal)
           n == assume_utc(a)
           t == AtTime(Number(c.trunc), b.time)
           t1 == AtTime(Number(c.expand), b.time)
           more == OneMore(c, last, neg)
<1>1. target # NoDate /\ neg \in BOOLEAN
  BY TargetDate
<1>2. cal # {} /\ cal \in SUBSET Names(CalendarUnit)
  OBVIOUS
<1>3. d = SinceRest(c, a, b, cal, {}, "trunc", 1, neg)
  BY <1>1, <1>2 DEF SinceOn
<1> HIDE DEF target, c, last, n, t, t1, more
<1>0. /\ c = date_diff(target_date(a, b, neg), b.date, 1, cal, neg) /\ last = smallest(CalendarUnit, cal)
      /\ n = assume_utc(a) /\ t = AtTime(Number(c.trunc), b.time) /\ t1 = AtTime(Number(c.expand), b.time)
      /\ more = OneMore(c, last, neg)
  BY DEF target, c, last, n, t, t1, more
<1>4. c.ok
  BY <1>3 DEF SinceRest, NoDiff
<1>5. /\ c.value \in [cal -> Int] /\ \A u \in cal : Forward(c.value[u], neg)
      /\ Leads(b.date, MonthsIn(c.value), DaysIn(c.value), c.trunc)
      /\ t \in Int /\ (neg => n <= t) /\ (~neg => t <= n)
      /\ last \in cal /\ more \in [cal -> Int]
      /\ Leads(b.date, MonthsIn(more), DaysIn(more), c.expand)
      /\ t1 \in Int /\ (neg => t1 < n) /\ (~neg => n < t1)
  BY <1>0, <1>2, <1>4, CalendarPart
<1>6. d = [ok |-> TRUE, value |-> c.value]
  <2>1. d = RoundCalendar(c.value, a, InterimInstant(c.trunc, b.time), InterimInstant(c.expand, b.time),
                          last, "trunc", 1, neg)
    BY <1>3, <1>4 DEF SinceRest, last
  <2> QED BY <1>5, <2>1, CalendarKeeps
<1>7. d.value = c.value
  BY <1>6
<1>8. /\ TimeSum(d.value) = 0 /\ MonthsIn(d.value) \in Int /\ DaysIn(d.value) \in Int
      /\ TimeSum(more) = 0 /\ MonthsIn(more) \in Int /\ DaysIn(more) \in Int
  BY <1>2, <1>5, <1>7, NoTime
<1>9. 0 \in TimeDeltas /\ 0 \in Int
  BY NanosTypes, SMT DEF TimeDeltas
<1>10. n \in Int /\ t + 0 = t /\ t1 + 0 = t1
  BY <1>5, PlainIsInstant, SMT DEF n
<1>11. "nanoseconds" \notin cal
  BY UnitNames
<1>12. /\ neg => n <= t + 0 /\ 0 <= 0
       /\ ~neg => t + 0 <= n /\ 0 >= 0
       /\ neg => t1 + 0 < n
       /\ ~neg => n < t1 + 0
  BY <1>5, <1>10, SMT
<1>13. LeadsTo(a, b, cal, d, PlainShiftBy(b, ItemizedToShift(d.value)), PlainShiftBy(b, ItemizedToShift(more)))
  BY <1>5, <1>7, <1>8, <1>9, <1>11, <1>12, LeadsToInstant DEF n, t, t1
<1>14. smallest(DifferenceUnit, cal) = last
  <2>1. cal \cup {} = cal /\ {} \in SUBSET ExactFour
    OBVIOUS
  <2> QED BY <1>2, <2>1, SmallestOfBoth DEF last
<1>15. more = [d.value EXCEPT ![last] = @ + Step(1, PlainLess(a, b))]
  BY <1>7 DEF more, OneMore
<1> QED BY <1>13, <1>14, <1>15 DEF SinceLeadsTo

\* The exact units of a difference beside the calendar units.
LEMMA JoinUnits ==
    ASSUME NEW cal \in SUBSET Names(CalendarUnit), NEW exact \in SUBSET ExactFour,
           NEW v \in [cal -> Int], NEW w \in [exact -> Int], NEW value, value = Joined(v, w)
    PROVE  /\ value \in [cal \cup exact -> Int]
           /\ \A u \in cal : value[u] = v[u]
           /\ \A u \in exact : value[u] = w[u]
           /\ MonthsIn(value) = MonthsIn(v) /\ DaysIn(value) = DaysIn(v) /\ TimeSum(value) = ExactSum(w)
<1>1. /\ "years" \notin exact /\ "months" \notin exact /\ "weeks" \notin exact /\ "days" \notin exact
      /\ "hours" \notin cal /\ "minutes" \notin cal /\ "seconds" \notin cal /\ "nanoseconds" \notin cal
  BY UnitNames DEF ExactFour
<1>2. cal \cap exact = {}
  BY UnitNames DEF ExactFour
<1>3. DOMAIN v = cal /\ DOMAIN w = exact
  OBVIOUS
<1>4. value = [u \in cal \cup exact |-> IF u \in cal THEN v[u] ELSE w[u]]
  BY <1>3 DEF Joined
<1>5. value \in [cal \cup exact -> Int]
  BY <1>4
<1>6. (\A u \in cal : value[u] = v[u]) /\ \A u \in exact : value[u] = w[u]
  BY <1>2, <1>4
<1>7. \A u : u \notin exact => FieldOr0(value, u) = FieldOr0(v, u)
  BY <1>3, <1>5, <1>6, SMT DEF FieldOr0
<1>8. \A u : u \notin cal => FieldOr0(value, u) = FieldOr0(w, u)
  BY <1>3, <1>5, <1>6, SMT DEF FieldOr0
<1>9. MonthsIn(value) = MonthsIn(v) /\ DaysIn(value) = DaysIn(v)
  BY <1>1, <1>7 DEF MonthsIn, DaysIn
<1>10. TimeSum(value) = TimeSum(w)
  BY <1>1, <1>8 DEF TimeSum
<1>11. TimeSum(w) = ExactSum(w)
  <2>1. FieldOr0(w, "weeks") = 0 /\ FieldOr0(w, "days") = 0
    BY <1>1, FieldType
  <2>2. /\ in_nanos("hours") = NanosPerHour /\ in_nanos("minutes") = NanosPerMinute
        /\ in_nanos("seconds") = NanosPerSecond
    BY DEF in_nanos
  <2>3. FieldOr0(w, "hours") \in Int /\ FieldOr0(w, "minutes") \in Int /\ FieldOr0(w, "seconds") \in Int
        /\ FieldOr0(w, "nanoseconds") \in Int /\ in_nanos("weeks") \in Int /\ in_nanos("days") \in Int
        /\ NanosPerHour \in Int /\ NanosPerMinute \in Int /\ NanosPerSecond \in Int
    BY FieldType, UnitNanos, ClockFacts DEF ExactSix
  <2> DEFINE h == FieldOr0(w, "hours") * NanosPerHour
             m == FieldOr0(w, "minutes") * NanosPerMinute
             s == FieldOr0(w, "seconds") * NanosPerSecond
             k == FieldOr0(w, "nanoseconds")
             x == in_nanos("weeks")
             y == in_nanos("days")
  <2>4. h \in Int /\ m \in Int /\ s \in Int /\ k \in Int /\ x \in Int /\ y \in Int
    BY <2>3, SMT
  <2>5. TimeSum(w) = h + m + s + k /\ ExactSum(w) = 0 * x + 0 * y + h + m + s + k
    BY <2>1, <2>2 DEF TimeSum, ExactSum
  <2> HIDE DEF h, m, s, k, x, y
  <2> QED BY <2>4, <2>5, SMT
<1> QED BY <1>5, <1>6, <1>9, <1>10, <1>11

\* One more of an exact unit is that much time more.
LEMMA OneMoreExact ==
    ASSUME NEW units, NEW value \in [units -> Int], NEW last \in units, last \in ExactFour, NEW z \in Int,
           NEW more, more = [value EXCEPT ![last] = @ + z]
    PROVE  /\ MonthsIn(more) = MonthsIn(value) /\ DaysIn(more) = DaysIn(value)
           /\ TimeSum(value) \in Int /\ TimeSum(more) = TimeSum(value) + z * in_nanos(last)
<1> DEFINE n == value[last] + z
           F(u) == FieldOr0(value, u)
           G(u) == FieldOr0(more, u)
<1>1. value[last] \in Int /\ n \in Int
  <2>1. value[last] \in Int
    OBVIOUS
  <2> QED BY <2>1, SMT
<1>2. more = [value EXCEPT ![last] = n]
  OBVIOUS
<1> HIDE DEF n
<1>3. FieldOr0(more, last) = n /\ \A u : u # last => FieldOr0(more, u) = FieldOr0(value, u)
  BY <1>1, <1>2, SMT DEF FieldOr0
<1>4. last \notin {"years", "months", "weeks", "days"}
  BY DEF ExactFour
<1>5. MonthsIn(more) = MonthsIn(value) /\ DaysIn(more) = DaysIn(value)
  BY <1>3, <1>4 DEF MonthsIn, DaysIn
<1>6. \A u : F(u) \in Int
  BY FieldType
<1>7. G(last) = F(last) + z /\ \A u : u # last => G(u) = F(u)
  <2>1. FieldOr0(value, last) = value[last]
    BY FieldType
  <2> QED BY <1>3, <2>1 DEF n
<1> HIDE DEF F, G
<1>8. /\ in_nanos("hours") = NanosPerHour /\ in_nanos("minutes") = NanosPerMinute
      /\ in_nanos("seconds") = NanosPerSecond /\ in_nanos("nanoseconds") = 1
  BY DEF in_nanos
<1>9. NanosPerHour \in Int /\ NanosPerMinute \in Int /\ NanosPerSecond \in Int
  BY ClockFacts
<1> DEFINE a == NanosPerHour
           b == NanosPerMinute
           c == NanosPerSecond
           S(h, m, s, k) == h * a + m * b + s * c + k
<1>10. /\ TimeSum(value) = S(F("hours"), F("minutes"), F("seconds"), F("nanoseconds"))
       /\ TimeSum(more) = S(G("hours"), G("minutes"), G("seconds"), G("nanoseconds"))
  BY DEF TimeSum, F, G
<1>11. a \in Int /\ b \in Int /\ c \in Int
  BY <1>9
<1> HIDE DEF a, b, c
<1> DEFINE fh == F("hours")
           fm == F("minutes")
           fs == F("seconds")
           fk == F("nanoseconds")
<1>12. fh \in Int /\ fm \in Int /\ fs \in Int /\ fk \in Int
  BY <1>6
<1>13. TimeSum(value) = S(fh, fm, fs, fk)
  BY <1>10
<1> HIDE DEF fh, fm, fs, fk
<1>14. TimeSum(value) \in Int
  BY <1>11, <1>12, <1>13, SMT
<1>15. /\ S(fh + z, fm, fs, fk) = S(fh, fm, fs, fk) + z * a
       /\ S(fh, fm + z, fs, fk) = S(fh, fm, fs, fk) + z * b
       /\ S(fh, fm, fs + z, fk) = S(fh, fm, fs, fk) + z * c
       /\ S(fh, fm, fs, fk + z) = S(fh, fm, fs, fk) + z * 1
  BY <1>11, <1>12, SMT
<1> HIDE DEF S
<1>16. TimeSum(more) = TimeSum(value) + z * in_nanos(last)
  <2>1. last \in {"hours", "minutes", "seconds", "nanoseconds"}
    BY DEF ExactFour
  <2>2. CASE last = "hours"
    <3>1. TimeSum(more) = S(fh + z, fm, fs, fk)
      BY <1>7, <1>10, <2>2 DEF fh, fm, fs, fk
    <3> QED BY <1>8, <1>13, <1>15, <2>2, <3>1 DEF a
  <2>3. CASE last = "minutes"
    <3>1. TimeSum(more) = S(fh, fm + z, fs, fk)
      BY <1>7, <1>10, <2>3 DEF fh, fm, fs, fk
    <3> QED BY <1>8, <1>13, <1>15, <2>3, <3>1 DEF b
  <2>4. CASE last = "seconds"
    <3>1. TimeSum(more) = S(fh, fm, fs + z, fk)
      BY <1>7, <1>10, <2>4 DEF fh, fm, fs, fk
    <3> QED BY <1>8, <1>13, <1>15, <2>4, <3>1 DEF c
  <2>5. CASE last = "nanoseconds"
    <3>1. TimeSum(more) = S(fh, fm, fs, fk + z)
      BY <1>7, <1>10, <2>5 DEF fh, fm, fs, fk
    <3> QED BY <1>8, <1>13, <1>15, <2>5, <3>1
  <2> QED BY <2>1, <2>2, <2>3, <2>4, <2>5
<1> QED BY <1>5, <1>14, <1>16

\* Rounded towards zero: not past the number, and by less than a step.
LEMMA RoundsTowardsZero ==
    ASSUME NEW n \in Int, NEW step \in Nat \ {0}, NEW r \in Int, RoundsTo(n, step, "trunc", r)
    PROVE  /\ n >= 0 => 0 <= r /\ r <= n /\ n < r + step
           /\ n <= 0 => r <= 0 /\ n <= r /\ r - step < n
           /\ step = 1 => r = n
<1>1. r % step = 0 /\ Distance(r, n) < step /\ Distance(0, r) <= Distance(0, n)
  BY DEF RoundsTo
<1>2. /\ r - n < step /\ n - r < step
      /\ n >= 0 => r <= n
      /\ n <= 0 => n <= r
  BY <1>1, SMT DEF Distance
<1>3. -step < r /\ r < step => r = 0
  <2>1. Multiple(r, step)
    <3>1. r = step * (r \div step) + (r % step) /\ r \div step \in Int
      BY DivSplit
    <3> DEFINE q == r \div step
    <3> HIDE DEF q
    <3>2. r = step * q
      <4>1. step * q \in Int
        BY <3>1, SMT DEF q
      <4> DEFINE z == step * q
      <4> HIDE DEF z
      <4>2. r = z + 0 /\ z \in Int
        BY <1>1, <3>1, <4>1 DEF z, q
      <4>3. r = z
        BY <4>2, SMT
      <4> QED BY <4>3 DEF z
    <3> QED BY <3>1, <3>2 DEF Multiple, q
  <2> QED BY <2>1, MultipleZero
<1>4. n >= 0 => 0 <= r /\ r <= n /\ n < r + step
  BY <1>2, <1>3, SMT
<1>5. n <= 0 => r <= 0 /\ n <= r /\ r - step < n
  BY <1>2, <1>3, SMT
<1>6. step = 1 => r = n
  BY <1>2, SMT
<1> QED BY <1>4, <1>5, <1>6

\* Where the exact units of a difference start: at b, or where its calendar units lead.
DateDiffOr(a, b, cal, neg) ==
    IF cal = {} THEN Diff(<<>>, b.date, a.date) ELSE date_diff(target_date(a, b, neg), b.date, 1, cal, neg)
LEMMA CalendarStart ==
    ASSUME NEW a, IsPlain(a), NEW b, IsPlain(b), NEW neg, neg = PlainLess(a, b), NEW n, n = assume_utc(a),
           NEW cal \in SUBSET Names(CalendarUnit), NEW c, c = DateDiffOr(a, b, cal, neg), c.ok,
           NEW t, t = AtTime(Number(c.trunc), b.time)
    PROVE  /\ c.value \in [cal -> Int] /\ \A u \in cal : Forward(c.value[u], neg)
           /\ Leads(b.date, MonthsIn(c.value), DaysIn(c.value), c.trunc)
           /\ t \in Int /\ (neg => n <= t) /\ (~neg => t <= n)
<1>1. CASE cal # {}
  <2> DEFINE last == smallest(CalendarUnit, cal)
             t1 == AtTime(Number(c.expand), b.time)
             more == OneMore(c, last, neg)
  <2>1. cal \in (SUBSET Names(CalendarUnit)) \ {{}} /\ c = date_diff(target_date(a, b, neg), b.date, 1, cal, neg)
    BY <1>1 DEF DateDiffOr
  <2>2. last = smallest(CalendarUnit, cal) /\ t1 = AtTime(Number(c.expand), b.time) /\ more = OneMore(c, last, neg)
    OBVIOUS
  <2> HIDE DEF last, t1, more
  <2> QED BY <2>1, <2>2, CalendarPart
<1>2. CASE cal = {}
  <2>1. c = Diff(<<>>, b.date, a.date)
    BY <1>2 DEF DateDiffOr
  <2>2. c.value = <<>> /\ c.trunc = b.date
    BY <2>1 DEF Diff
  <2>3. c.value \in [cal -> Int]
    <3>1. <<>> \in Seq(Int) /\ Len(<<>>) = 0
      BY SMT
    <3>2. <<>> \in [1 .. Len(<<>>) -> Int]
      BY <3>1, SMT
    <3>3. 1 .. 0 = {}
      BY SMT
    <3>4. <<>> \in [{} -> Int]
      BY <3>1, <3>2, <3>3
    <3> QED BY <1>2, <2>2, <3>4
  <2>4. MonthsIn(c.value) = 0 /\ DaysIn(c.value) = 0
    <3>1. \A u : FieldOr0(c.value, u) = 0
      BY <1>2, <2>3, FieldType
    <3> QED BY <3>1, SMT DEF MonthsIn, DaysIn
  <2>5. IsDate(b.date) /\ b.time \in Nat
    BY PlainIsInstant DEF IsPlain
  <2>6. Leads(b.date, 0, 0, b.date) /\ Number(b.date) = unix_days(b.date)
    <3>1. IsInterim(b.date) /\ Number(b.date) = unix_days(b.date)
      BY <2>5, DateIsInterim
    <3>2. MonthIndex(b.date) = MonthIndex(b.date) + 0 /\ 0 \in Int
      BY <3>1, InterimParts, SMT
    <3> QED BY <2>5, <3>1, <3>2, MonthsLead
  <2>7. t = assume_utc(b)
    BY <2>2, <2>6 DEF AtTime, assume_utc
  <2>8. assume_utc(b) \in Int /\ n \in Int /\ (neg <=> n < assume_utc(b))
    BY PlainIsInstant, PlainOrder
  <2>9. t \in Int /\ (neg => n <= t) /\ (~neg => t <= n)
    BY <2>7, <2>8, SMT
  <2> QED BY <1>2, <2>2, <2>3, <2>4, <2>6, <2>9
<1> QED BY <1>1, <1>2

\* A difference with exact units: they take what the calendar units leave.
LEMMA ExactLeads ==
    ASSUME NEW a, IsPlain(a), a = Plain(a.date, a.time), NEW b, IsPlain(b), secs(assume_utc(a)) # EpochMin,
           NEW cal \in SUBSET Names(CalendarUnit), NEW exact \in SUBSET ExactFour, exact # {},
           NEW neg, neg = PlainLess(a, b),
           NEW d, d = SinceOn(target_date(a, b, neg), a, b, cal, exact, "trunc", 1, neg)
    PROVE  SinceLeadsTo(a, b, cal \cup exact, d)
<1> SUFFICES ASSUME d.ok PROVE SinceLeadsTo(a, b, cal \cup exact, d)
  BY DEF SinceLeadsTo
<1> DEFINE target == target_date(a, b, neg)
           c == IF cal = {} THEN Diff(<<>>, b.date, a.date) ELSE date_diff(target, b.date, 1, cal, neg)
           n == assume_utc(a)
           t == AtTime(Number(c.trunc), b.time)
           last == smallest(ExactUnit, exact)
           step == in_nanos(last) * 1
           rest == in_exact_units(n - t, exact, 1, "trunc")
           r == ExactSum(rest.value)
           one == Step(1, neg)
           more == [d.value EXCEPT ![last] = @ + one]
           units == cal \cup exact
<1>1. target # NoDate /\ neg \in BOOLEAN
  BY TargetDate
<1>2. d = SinceRest(c, a, b, cal, exact, "trunc", 1, neg)
  BY <1>1 DEF SinceOn
<1> HIDE DEF target
<1>3. c = DateDiffOr(a, b, cal, neg)
  BY DEF target, DateDiffOr
<1>4. /\ n = assume_utc(a) /\ t = AtTime(Number(c.trunc), b.time) /\ last = smallest(ExactUnit, exact)
      /\ step = in_nanos(last) * 1 /\ rest = in_exact_units(n - t, exact, 1, "trunc") /\ r = ExactSum(rest.value)
      /\ more = [d.value EXCEPT ![last] = @ + one] /\ one = Step(1, neg)
  OBVIOUS
<1> HIDE DEF c, n, t, last, step, rest, r, more, one
<1>5. c.ok
  BY <1>2 DEF SinceRest, NoDiff
<1>6. /\ c.value \in [cal -> Int] /\ \A u \in cal : Forward(c.value[u], neg)
      /\ Leads(b.date, MonthsIn(c.value), DaysIn(c.value), c.trunc)
      /\ t \in Int /\ (neg => n <= t) /\ (~neg => t <= n)
  BY <1>3, <1>4, <1>5, CalendarStart
<1>7. d = WithExact(c.value, rest)
  <2>1. InterimInstant(c.trunc, b.time) = t
    <3>1. Plain(InterimResolve(c.trunc), b.time).date = InterimResolve(c.trunc)
          /\ Plain(InterimResolve(c.trunc), b.time).time = b.time
      BY DEF Plain
    <3> QED BY <1>4, <3>1 DEF InterimInstant, assume_utc, AtTime, Number
  <2> QED BY <1>2, <1>4, <1>5, <2>1 DEF SinceRest
<1>8. rest.ok /\ d.value = Joined(c.value, rest.value)
  BY <1>7 DEF WithExact, NoDiff
<1>9. n \in Int /\ n - t \in Int /\ n \in Instants
  BY <1>4, <1>6, PlainIsInstant, SMT
<1>10. exact \in SUBSET ExactSix /\ exact # {}
  BY DEF ExactFour, ExactSix
<1>11. /\ last \in exact /\ rest.value \in [exact -> Int] /\ r \in Int
       /\ RoundsTo(n - t, step, "trunc", r)
       /\ r >= 0 => \A u \in exact : rest.value[u] >= 0
       /\ r <= 0 => \A u \in exact : rest.value[u] <= 0
  <2> DEFINE base == IF step < NanosPerSecond THEN secs(n - t) * NanosPerSecond ELSE 0
             m == n - t
  <2>1. 1 \in {1, 2} /\ "trunc" \in Mode /\ "trunc" # "half_even"
    BY DEF Mode
  <2>2. base = IF step < NanosPerSecond THEN secs(m) * NanosPerSecond ELSE 0
    OBVIOUS
  <2>3. m \in Int /\ rest = in_exact_units(m, exact, 1, "trunc")
    BY <1>4, <1>9
  <2> HIDE DEF base, m
  <2>4. /\ last \in exact /\ rest.value \in [exact -> Int] /\ r \in Int
        /\ RoundsTo(m, step, "trunc", r)
        /\ r >= 0 => \A u \in exact : rest.value[u] >= 0
        /\ r <= 0 => \A u \in exact : rest.value[u] <= 0
    BY <1>4, <1>8, <1>10, <2>1, <2>2, <2>3, ExactRounds
  <2> QED BY <2>4 DEF m
<1>12. step \in Nat \ {0} /\ step = in_nanos(last) /\ (last = "nanoseconds" => step = 1)
  <2>1. last \in ExactSix /\ 1 \in {1, 2}
    BY <1>10, <1>11
  <2> QED BY <1>4, <2>1, ExactSteps
<1>13. /\ n - t >= 0 => 0 <= r /\ r <= n - t /\ n - t < r + step
       /\ n - t <= 0 => r <= 0 /\ n - t <= r /\ r - step < n - t
       /\ step = 1 => r = n - t
  BY <1>9, <1>11, <1>12, RoundsTowardsZero
<1>14. /\ d.value \in [units -> Int]
       /\ \A u \in cal : d.value[u] = c.value[u]
       /\ \A u \in exact : d.value[u] = rest.value[u]
       /\ MonthsIn(d.value) = MonthsIn(c.value) /\ DaysIn(d.value) = DaysIn(c.value) /\ TimeSum(d.value) = r
  <2> DEFINE v == d.value
             x == c.value
             y == rest.value
  <2>1. v = Joined(x, y) /\ x \in [cal -> Int] /\ y \in [exact -> Int]
    BY <1>6, <1>8, <1>11
  <2> HIDE DEF v, x, y
  <2>2. /\ v \in [cal \cup exact -> Int]
        /\ \A u \in cal : v[u] = x[u]
        /\ \A u \in exact : v[u] = y[u]
        /\ MonthsIn(v) = MonthsIn(x) /\ DaysIn(v) = DaysIn(x) /\ TimeSum(v) = ExactSum(y)
    BY <2>1, JoinUnits
  <2> QED BY <1>4, <2>2 DEF v, x, y
<1>15. one \in Int /\ (neg => one * step = -step) /\ (~neg => one * step = step)
  BY <1>1, <1>4, <1>12, SMT DEF Step
<1>16. MonthsIn(more) = MonthsIn(d.value) /\ DaysIn(more) = DaysIn(d.value) /\ TimeSum(more) = r + one * step
  <2>1. last \in units /\ last \in ExactFour
    BY <1>11
  <2> QED BY <1>4, <1>12, <1>14, <1>15, <2>1, OneMoreExact
<1>17. MonthsIn(d.value) \in Int /\ DaysIn(d.value) \in Int
  BY <1>6, <1>14, NoTime
<1>18. r + one * step \in Int
  <2> DEFINE z == one * step
  <2>1. z \in Int
    BY <1>12, <1>15, SMT
  <2> HIDE DEF z
  <2> QED BY <1>11, <2>1, SMT DEF z
<1>19. /\ neg => n <= t + r /\ r <= 0 /\ t + (r + one * step) < n
       /\ ~neg => t + r <= n /\ r >= 0 /\ n < t + (r + one * step)
  <2> DEFINE z == one * step
  <2>1. z \in Int /\ (neg => z = -step) /\ (~neg => z = step)
    BY <1>12, <1>15, SMT
  <2> HIDE DEF z
  <2> QED BY <1>1, <1>6, <1>9, <1>11, <1>12, <1>13, <2>1, SMT DEF z
<1>20. r \in TimeDeltas
  <2> DEFINE p == PlainShiftBy(b, ItemizedToShift(d.value))
  <2>1. p = PlainShiftBy(b, ItemizedToShift(d.value)) /\ r = TimeSum(d.value)
        /\ Leads(b.date, MonthsIn(d.value), DaysIn(d.value), c.trunc)
    BY <1>6, <1>14
  <2> HIDE DEF p
  <2>2. t \in Instants
    BY <1>4, <1>11, <1>17, <2>1, ItemizedShifts
  <2>3. 2 - TimeDeltaMax <= n - t /\ n - t <= TimeDeltaMax - 2
    BY <1>9, <2>2, DifferencesFit
  <2>4. TimeDeltaMax \in Int
    BY NanosTypes
  <2> QED BY <1>9, <1>11, <1>13, <2>3, <2>4, SMT DEF TimeDeltas
<1>21. \A u \in units : Forward(d.value[u], neg)
  <2>1. \A u \in exact : Forward(rest.value[u], neg)
    <3>1. (neg => r <= 0) /\ (~neg => r >= 0)
      BY <1>19
    <3> QED BY <1>11, <3>1 DEF Forward
  <2> QED BY <1>6, <1>14, <2>1
<1>22. "nanoseconds" \in units => t + r = n
  <2> SUFFICES ASSUME "nanoseconds" \in units PROVE t + r = n
    OBVIOUS
  <2>1. "nanoseconds" \in exact
    BY UnitNames
  <2>2. last = "nanoseconds"
    BY <1>4, <1>10, <2>1, SmallestExact DEF ExactSix
  <2>3. r = n - t
    BY <1>12, <1>13, <2>2
  <2> QED BY <1>6, <1>9, <2>3, SMT
<1>23. LeadsTo(a, b, units, d, PlainShiftBy(b, ItemizedToShift(d.value)), PlainShiftBy(b, ItemizedToShift(more)))
  <2> DEFINE r1 == r + one * step
  <2>1. r1 \in Int /\ r1 = TimeSum(more) /\ r = TimeSum(d.value)
        /\ MonthsIn(more) \in Int /\ DaysIn(more) \in Int
        /\ Leads(b.date, MonthsIn(d.value), DaysIn(d.value), c.trunc)
        /\ Leads(b.date, MonthsIn(more), DaysIn(more), c.trunc)
    BY <1>6, <1>14, <1>16, <1>17, <1>18
  <2>2. n = assume_utc(a) /\ secs(n) # EpochMin /\ t = AtTime(Number(c.trunc), b.time) /\ t \in Int /\ r \in Int
        /\ MonthsIn(d.value) \in Int /\ DaysIn(d.value) \in Int
    BY <1>4, <1>6, <1>11, <1>17
  <2>3. (neg => n <= t + r /\ r <= 0) /\ (~neg => t + r <= n /\ r >= 0)
    BY <1>19
  <2> DEFINE i == c.trunc
             j == c.trunc
             t1 == t
  <2>4. (neg => t1 + r1 < n) /\ (~neg => n < t1 + r1)
    BY <1>19
  <2>5. /\ Leads(b.date, MonthsIn(d.value), DaysIn(d.value), i) /\ Leads(b.date, MonthsIn(more), DaysIn(more), j)
        /\ t = AtTime(Number(i), b.time) /\ t1 = AtTime(Number(j), b.time) /\ t1 \in Int
    BY <2>1, <2>2
  <2>6. MonthsIn(more) \in Int /\ DaysIn(more) \in Int /\ r1 \in Int /\ r1 = TimeSum(more) /\ r = TimeSum(d.value)
    BY <2>1
  <2>7. n = assume_utc(a) /\ secs(n) # EpochMin /\ t \in Int /\ r \in Int
        /\ MonthsIn(d.value) \in Int /\ DaysIn(d.value) \in Int
    BY <2>2
  <2> HIDE DEF r1, units, i, j, t1
  <2> QED BY <1>20, <1>21, <1>22, <2>3, <2>4, <2>5, <2>6, <2>7, LeadsToInstant
<1>24. smallest(DifferenceUnit, units) = last
  BY <1>4, SmallestOfBoth
<1>25. more = [d.value EXCEPT ![last] = @ + Step(1, PlainLess(a, b))]
  BY <1>4
<1> QED BY <1>23, <1>24, <1>25 DEF SinceLeadsTo

\* PlainDateTime.since with any units.
LEMMA SinceLeads ==
    ASSUME NEW a, IsPlain(a), a = Plain(a.date, a.time), NEW b, IsPlain(b), secs(assume_utc(a)) # EpochMin,
           NEW cal \in SUBSET Names(CalendarUnit), NEW exact \in SUBSET ExactFour, cal \cup exact # {}
    PROVE  SinceLeadsTo(a, b, cal \cup exact, plain_since_in_units(a, b, cal \cup exact, "trunc", 1))
<1> DEFINE neg == PlainLess(a, b)
           d == SinceOn(target_date(a, b, neg), a, b, cal, exact, "trunc", 1, neg)
<1>1. calendar_only(cal \cup exact) = cal /\ exact_only(cal \cup exact) = exact
  BY UnitNames DEF calendar_only, exact_only, ExactFour
<1>2. plain_since_in_units(a, b, cal \cup exact, "trunc", 1) = d
  BY <1>1 DEF plain_since_in_units
<1>3. neg = PlainLess(a, b) /\ d = SinceOn(target_date(a, b, neg), a, b, cal, exact, "trunc", 1, neg)
  OBVIOUS
<1> HIDE DEF neg, d
<1>4. CASE exact = {}
  <2>1. cal \in (SUBSET Names(CalendarUnit)) \ {{}} /\ cal \cup exact = cal
    BY <1>4
  <2>2. d = SinceOn(target_date(a, b, neg), a, b, cal, {}, "trunc", 1, neg)
    BY <1>3, <1>4
  <2>3. SinceLeadsTo(a, b, cal, d)
    BY <1>3, <2>1, <2>2, CalendarOnlyLeads
  <2> QED BY <1>2, <2>1, <2>3
<1>5. CASE exact # {}
  <2>1. SinceLeadsTo(a, b, cal \cup exact, d)
    BY <1>3, <1>5, ExactLeads
  <2> QED BY <1>2, <2>1
<1> QED BY <1>4, <1>5

\* Adding the difference of two datetimes to the earlier one, unless the second refuses it.
LEMMA ShiftByDifference ==
    ASSUME NEW a, IsPlain(a), a = Plain(a.date, a.time), NEW b, IsPlain(b), NEW n, n = assume_utc(a) - assume_utc(b)
    PROVE  PlainShift(b, n) = a \/ PlainShift(b, n) = NoPlain
<1> DEFINE x == assume_utc(a)
           y == assume_utc(b)
           s == InstantShift(y, n)
<1>1. x \in Int /\ x \in Instants /\ y \in Int /\ y \in Instants /\ to_utc_plain(x) = a
  BY PlainIsInstant
<1>2. PlainShift(b, n) = PlainOrNone(s)
  BY DEF PlainShift
<1>3. n = x - y
  OBVIOUS
<1> HIDE DEF x, y
<1>4. n \in Int /\ y + n = x
  BY <1>1, <1>3, SMT
<1>5. s = x \/ s = NoInstant
  BY <1>1, <1>4, ShiftInstantAdds
<1>6. x # NoInstant
  BY <1>1, InstantIsInt
<1> HIDE DEF s
<1> QED BY <1>1, <1>2, <1>5, <1>6 DEF PlainOrNone

\* A total in a calendar unit.
LEMMA TotalsAdd ==
    ASSUME NEW a, IsPlain(a), a = Plain(a.date, a.time), NEW b, IsPlain(b), b # NoPlain,
           NEW unit \in Names(CalendarUnit), NEW n, n = assume_utc(a) - assume_utc(b)
    PROVE  TotalAddsUp(timedelta_total(n, b, unit), n, plain_since_in_units(a, b, {unit}, "trunc", 1),
                       plain_since_float(a, b, unit), unit)
<1> DEFINE neg == PlainLess(a, b)
           target == target_date(a, b, neg)
           e == UnitDiff(unit, target, b.date, 1, neg)
           c == date_diff(target, b.date, 1, {unit}, neg)
           x == assume_utc(a)
           y == assume_utc(b)
           t0 == AtTime(Number(e.trunc), b.time)
           t1 == AtTime(Number(e.expand), b.time)
           t == timedelta_total(n, b, unit)
           since == plain_since_in_units(a, b, {unit}, "trunc", 1)
           exact == plain_since_float(a, b, unit)
<1> SUFFICES ASSUME t.ok PROVE TotalAddsUp(t, n, since, exact, unit)
  BY DEF TotalAddsUp
<1>1. unit \in {"years", "months", "weeks", "days"}
  BY UnitNames
<1>2. t = TotalOrNone(PlainShift(b, n), b, unit)
  <2>1. unit \notin Names(ExactUnit) \ (IF b = NoPlain THEN {} ELSE Names(CalendarUnit))
    OBVIOUS
  <2> QED BY <2>1 DEF timedelta_total
<1>3. PlainShift(b, n) = a /\ a # NoPlain
  <2>1. PlainShift(b, n) = NoPlain => t.ok = FALSE
    BY <1>2 DEF TotalOrNone, NoDiff
  <2>2. PlainShift(b, n) = a \/ PlainShift(b, n) = NoPlain
    BY ShiftByDifference
  <2> QED BY <2>1, <2>2
<1>4. t = total_calendar_plain(a, b, unit)
  BY <1>2, <1>3 DEF TotalOrNone
<1>5. /\ neg \in BOOLEAN /\ (neg <=> x < y) /\ IsDate(target) /\ target # NoDate /\ Reaches(b.date, target, neg)
      /\ \A u \in Int :
            /\ AtTime(u, b.time) \in Int
            /\ neg => /\ u >= unix_days(target) => x <= AtTime(u, b.time)
                      /\ u < unix_days(target) => AtTime(u, b.time) < x
            /\ ~neg => /\ u <= unix_days(target) => AtTime(u, b.time) <= x
                       /\ u > unix_days(target) => x < AtTime(u, b.time)
  BY TargetDate
<1>6. t = StepFraction(e, a, b)
  BY <1>4, <1>5 DEF total_calendar_plain, TotalOn
<1>7. e.ok /\ t.whole = e.value /\ t.num = x - t0 /\ t.denom = t1 - t0
  <2> HIDE DEF e
  <2>1. e.ok
    BY <1>6 DEF StepFraction, NoDiff
  <2>2. InterimInstant(e.trunc, b.time) = t0 /\ InterimInstant(e.expand, b.time) = t1
    <3>1. \A d : InterimInstant(d, b.time) = AtTime(Number(d), b.time)
      BY DEF InterimInstant, assume_utc, AtTime, Number, Plain
    <3> QED BY <3>1
  <2> QED BY <1>6, <2>1, <2>2 DEF StepFraction
<1>8. x \in Int /\ y \in Int /\ n = x - y
  BY PlainIsInstant
<1> HIDE DEF neg, target
<1>9. Forward(e.value, neg) /\ Lands(e, target, neg)
  <2>1. 1 \in Nat \ {0}
    BY SMT
  <2> QED BY <1>5, <1>7, <2>1, UnitLands
<1> HIDE DEF e, x, y, t0, t1, t, since, exact
<1>10. unix_days(target) \in Int /\ Number(e.trunc) \in Int /\ Number(e.expand) \in Int
  <2>1. IsInterim(e.trunc) /\ IsInterim(e.expand)
    BY <1>9 DEF Lands
  <2> QED BY <1>5, <2>1, UnixDaysType, ResolveIsDate
<1>11. t0 \in Int /\ t1 \in Int
  BY <1>5, <1>10 DEF t0, t1
<1>12. (neg => x <= t0 /\ t1 < x) /\ (~neg => t0 <= x /\ x < t1)
  <2> DEFINE u0 == Number(e.trunc)
             u1 == Number(e.expand)
             ut == unix_days(target)
  <2>1. /\ neg => u1 < ut /\ ut <= u0
        /\ ~neg => u0 <= ut /\ ut < u1
    BY <1>9 DEF Lands
  <2>2. u0 \in Int /\ u1 \in Int /\ ut \in Int
    BY <1>10
  <2>3. /\ neg => (u0 >= ut => x <= t0) /\ (u1 < ut => t1 < x)
        /\ ~neg => (u0 <= ut => t0 <= x) /\ (u1 > ut => x < t1)
    BY <1>5, <2>2 DEF t0, t1
  <2> HIDE DEF u0, u1, ut
  <2> QED BY <2>1, <2>2, <2>3, SMT
<1>13. IF n < 0 THEN t.denom < t.num /\ t.num <= 0 ELSE 0 <= t.num /\ t.num < t.denom
  <2>1. neg <=> n < 0
    BY <1>5, <1>8, SMT
  <2>2. (neg => t.denom < t.num /\ t.num <= 0) /\ (~neg => 0 <= t.num /\ t.num < t.denom)
    BY <1>7, <1>8, <1>11, <1>12, SMT
  <2> QED BY <2>1, <2>2
<1>14. since.value[unit] = t.whole
  <2>1. e = UnitDiff(unit, target, b.date, 1, neg) /\ c = date_diff(target, b.date, 1, {unit}, neg)
    BY DEF e
  <2> HIDE DEF c
  <2>2. c.ok /\ c = InUnit(unit, e)
    BY <1>7, <2>1, SingleUnit
  <2>3. c.value = [u \in {unit} |-> e.value] /\ c.value[unit] = e.value
    BY <2>2 DEF InUnit, Diff
  <2>4. calendar_only({unit}) = {unit} /\ exact_only({unit}) = {} /\ {unit} # {}
    BY <1>1, UnitNames DEF calendar_only, exact_only
  <2>5. since = SinceRest(c, a, b, {unit}, {}, "trunc", 1, neg)
    <3>1. since = SinceOn(target, a, b, {unit}, {}, "trunc", 1, neg)
      BY <2>4 DEF since, plain_since_in_units, neg, target
    <3> QED BY <1>5, <2>1, <3>1 DEF SinceOn
  <2>6. since = RoundCalendar(c.value, a, InterimInstant(c.trunc, b.time), InterimInstant(c.expand, b.time),
                              smallest(CalendarUnit, {unit}), "trunc", 1, neg)
    BY <2>2, <2>5 DEF SinceRest
  <2>7. c.value \in [{unit} -> Int] /\ smallest(CalendarUnit, {unit}) \in {unit}
    <3>1. e.value \in Int
      BY <1>9 DEF Forward
    <3>2. smallest(CalendarUnit, {unit}) = unit
      BY <1>1, SmallestUnit
    <3> QED BY <2>3, <3>1, <3>2
  <2>8. since = [ok |-> TRUE, value |-> c.value]
    <3> DEFINE v == c.value
               last == smallest(CalendarUnit, {unit})
               trunc == InterimInstant(c.trunc, b.time)
               expand == InterimInstant(c.expand, b.time)
    <3>1. v \in [{unit} -> Int] /\ last \in {unit} /\ since = RoundCalendar(v, a, trunc, expand, last, "trunc", 1, neg)
      BY <2>6, <2>7
    <3> HIDE DEF v, last, trunc, expand
    <3>2. RoundCalendar(v, a, trunc, expand, last, "trunc", 1, neg) = [ok |-> TRUE, value |-> v]
      BY <3>1, CalendarKeeps
    <3> QED BY <3>1, <3>2 DEF v
  <2> QED BY <1>7, <2>3, <2>8
<1>15. unit \in {"weeks", "days"} =>
            Distance(0, t.whole) * exact.denom + Distance(0, t.num) = Distance(0, exact.num)
  <2> SUFFICES ASSUME unit \in {"weeks", "days"}
               PROVE  Distance(0, t.whole) * exact.denom + Distance(0, t.num) = Distance(0, exact.num)
    OBVIOUS
  <2> DEFINE k == IF unit = "weeks" THEN 7 ELSE 1
             h == NanosPerDay
             g == in_nanos(unit)
             v == e.value
  <2>1. exact.num = n /\ exact.denom = g
    <3>1. unit \in Names(ExactUnit)
      BY SMT DEF Names, ExactUnit
    <3>2. exact = exact_total(assume_utc(a) - assume_utc(b), unit)
      BY <3>1 DEF exact, plain_since_float
    <3> QED BY <3>2 DEF exact_total
  <2>2. h \in Nat \ {0} /\ k \in {1, 7} /\ g = k * h
    <3>1. h \in Nat \ {0}
      BY ClockFacts
    <3>2. CASE unit = "weeks"
      BY <3>1, <3>2, SMT DEF in_nanos
    <3>3. CASE unit = "days"
      <4>1. g = h
        BY <3>3 DEF in_nanos
      <4> HIDE DEF h, g
      <4> QED BY <3>1, <3>3, <4>1, SMT
    <3> QED BY <3>1, <3>2, <3>3
  <2>3. Number(e.trunc) = Number(b.date) + k * v /\ v \in Int
    <3>1. 1 \in Nat \ {0}
      BY SMT
    <3>2. v \in Int
      BY <1>9 DEF Forward
    <3>3. CASE unit = "weeks"
      <4>1. e = weeks_diff(target, b.date, 1, neg)
        BY <3>3 DEF e, UnitDiff
      <4> QED BY <1>5, <1>7, <3>1, <3>2, <3>3, <4>1, WeeksLand
    <3>4. CASE unit = "days"
      <4>1. e = days_diff(target, b.date, 1, neg)
        BY <3>4 DEF e, UnitDiff
      <4>2. Number(e.trunc) = Number(b.date) + v
        BY <1>5, <1>7, <3>1, <4>1, DaysLand
      <4>3. 1 * v = v
        BY <3>2, SMT
      <4> QED BY <3>2, <3>4, <4>2, <4>3
    <3> QED BY <3>3, <3>4
  <2>4. Number(b.date) = unix_days(b.date) /\ unix_days(b.date) \in Int /\ b.time \in Int
    BY PlainIsInstant, DateIsInterim DEF IsPlain
  <2> DEFINE ub == unix_days(b.date)
             s == b.time
  <2>5. t0 = (ub + k * v) * h + s /\ y = ub * h + s
    BY <2>3, <2>4 DEF t0, y, AtTime, assume_utc
  <2> HIDE DEF k, h, g, v, ub, s
  <2> DEFINE m == v * g
  <2>6. m \in Int /\ t0 = y + m
    <3>1. k \in Int /\ h \in Int /\ v \in Int /\ ub \in Int /\ s \in Int
      BY <2>2, <2>3, <2>4 DEF ub, s
    <3>2. (ub + k * v) * h = ub * h + v * (k * h) /\ ub * h \in Int /\ v * (k * h) \in Int
      BY <3>1, SMT
    <3> DEFINE p == ub * h
               q == v * (k * h)
    <3>3. m = q /\ t0 = p + q + s /\ y = p + s /\ p \in Int /\ q \in Int
      BY <2>2, <2>5, <3>2
    <3> HIDE DEF p, q, m
    <3> QED BY <3>1, <3>3, SMT
  <2>7. g \in Nat \ {0} /\ Distance(0, v) * g = Distance(0, m) /\ (v <= 0 => m <= 0) /\ (v >= 0 => m >= 0)
    <3>1. g \in Nat \ {0}
      BY <2>2, PositiveProduct, SMT
    <3>2. CASE v >= 0
      <4>1. v * g >= 0
        BY <2>3, <3>1, <3>2, SMT
      <4>2. v = 0 => v * g = 0
        BY <3>1, SMT
      <4> QED BY <2>3, <2>6, <3>1, <3>2, <4>1, <4>2, SMT DEF Distance
    <3>3. CASE v < 0
      <4>1. v * g < 0 /\ (-v) * g = -(v * g)
        BY <2>3, <3>1, <3>3, SMT
      <4> QED BY <2>3, <2>6, <3>1, <3>3, <4>1, SMT DEF Distance
    <3> QED BY <2>3, <3>1, <3>2, <3>3, SMT
  <2> HIDE DEF m
  <2>8. (neg => v <= 0) /\ (~neg => v >= 0)
    BY <1>9 DEF Forward, v
  <2>9. t.num = n - m
    BY <1>7, <1>8, <1>11, <2>6, SMT
  <2>10. (neg => n <= m /\ m <= 0) /\ (~neg => m <= n /\ m >= 0)
    BY <1>8, <1>11, <1>12, <2>3, <2>6, <2>7, <2>8, SMT
  <2>11. Distance(0, m) + Distance(0, n - m) = Distance(0, n)
    BY <1>5, <1>8, <2>6, <2>10, SMT DEF Distance
  <2> QED BY <1>7, <2>1, <2>7, <2>9, <2>11 DEF v
<1> QED BY <1>13, <1>14, <1>15 DEF TotalAddsUp

\* in_exact_units of a difference is never out of range.
LEMMA ExactFits ==
    ASSUME NEW n \in Int, 2 - TimeDeltaMax <= n, n <= TimeDeltaMax - 2, NEW inc \in {1, 2}, NEW mode \in Mode,
           NEW units \in SUBSET ExactSix, units # {}, smallest(ExactUnit, units) = "nanoseconds"
    PROVE  in_exact_units(n, units, inc, mode).ok
<1> DEFINE step == in_nanos("nanoseconds") * inc
           total == TimeDeltaRound(n, step, mode)
           raw == RoundedTo(n, step, mode)
<1>1. "nanoseconds" \in ExactSix
  BY DEF ExactSix
<1>2. /\ step \in Nat \ {0} /\ (step = 1 \/ step % 2 = 0) /\ step = inc
      /\ step < NanosPerSecond => Multiple(NanosPerSecond, step)
  BY <1>1, ExactSteps
<1>3. raw \in Int /\ (step - TimeDeltaMax <= n /\ n <= TimeDeltaMax - step => raw \in TimeDeltas)
  BY <1>2, RoundedNear
<1>4. step - TimeDeltaMax <= n /\ n <= TimeDeltaMax - step
  <2>1. TimeDeltaMax \in Int /\ (step = 1 \/ step = 2)
    BY <1>2, NanosTypes
  <2> HIDE DEF step
  <2> QED BY <2>1, SMT
<1>5. total \notin {NoNanos, Panics}
  <2> HIDE DEF raw, total
  <2> QED BY <1>2, <1>3, <1>4, RoundsOrFails DEF raw, total
<1> QED BY <1>5 DEF in_exact_units

\* Differences of datetimes lead back, totals are the numbers of the units, and exact units do
\* not care about offsets (plain_since_in_units, total_calendar_plain and offset_since of
\* src/classes/plain_datetime.rs and offset_datetime.rs).
THEOREM DateTimeDifferencesAddBack == Spec => []DateTimeDifferenceAddsBack
<1>1. ASSUME ObjectsInRange, Pair("plain") \/ Pair("offset")
      PROVE  LET b == to_plain(other.dt) IN
             /\ IsPlain(plain) /\ plain = Plain(plain.date, plain.time) /\ IsPlain(b) /\ b # NoPlain
             /\ ~FirstSecond(plain) => secs(assume_utc(plain)) # EpochMin
  <2>1. IsPlain(plain) /\ IsPlain(to_plain(other.dt)) /\ plain = Plain(plain.date, plain.time)
    BY <1>1, ObjectHolds DEF ObjectsInRange, Pair, plain, to_plain, Plain
  <2> QED BY <2>1, SecondsOfPlain DEF FirstSecond
<1>2. ASSUME ObjectsInRange, Pair("plain") \/ (Pair("offset") /\ obj.dt.offset = other.dt.offset),
             NEW cal \in {{}, {"years"}, {"months", "days"}, {"years", "months", "weeks", "days"}, {"weeks"}},
             NEW exact \in {{}, {"hours"}, {"minutes", "seconds", "nanoseconds"}},
             cal \cup exact # {}, ~FirstSecond(plain)
      PROVE  LET units == cal \cup exact
                 b == to_plain(other.dt)
             IN  SinceLeadsTo(plain, b, units, plain_since_in_units(plain, b, units, "trunc", 1))
  <2>1. cal \in SUBSET Names(CalendarUnit) /\ exact \in SUBSET ExactFour
    <3>1. cal \subseteq {"years", "months", "weeks", "days"} /\ exact \subseteq {"hours", "minutes", "seconds", "nanoseconds"}
      BY <1>2
    <3> QED BY <3>1, UnitNames DEF ExactFour
  <2> DEFINE a == plain
             b == to_plain(other.dt)
  <2>2. IsPlain(a) /\ a = Plain(a.date, a.time) /\ IsPlain(b) /\ secs(assume_utc(a)) # EpochMin
    BY <1>1, <1>2
  <2> HIDE DEF a, b
  <2>3. SinceLeadsTo(a, b, cal \cup exact, plain_since_in_units(a, b, cal \cup exact, "trunc", 1))
    BY <1>2, <2>1, <2>2, SinceLeads
  <2> QED BY <2>3 DEF a, b
<1>3. ASSUME ObjectsInRange, Pair("plain")
      PROVE  TotalsAddUp(plain, to_plain(other.dt))
  <2> DEFINE a == plain
             b == to_plain(other.dt)
             n == assume_utc(a) - assume_utc(b)
  <2>1. IsPlain(a) /\ a = Plain(a.date, a.time) /\ IsPlain(b) /\ b # NoPlain
    BY <1>1, <1>3
  <2>2. n = assume_utc(a) - assume_utc(b)
    OBVIOUS
  <2> HIDE DEF a, b, n
  <2>3. \A unit \in Names(CalendarUnit) :
            TotalAddsUp(timedelta_total(n, b, unit), n, plain_since_in_units(a, b, {unit}, "trunc", 1),
                        plain_since_float(a, b, unit), unit)
    BY <2>1, <2>2, TotalsAdd
  <2> QED BY <2>3 DEF TotalsAddUp, a, b, n
<1>4. ASSUME ObjectsInRange, Pair("offset"), NoInstant \notin {to_instant(obj.dt), to_instant(other.dt)},
             secs(to_instant(obj.dt)) > EpochMin
      PROVE  LET d == offset_since(obj.dt, other.dt, {"hours", "seconds", "nanoseconds"}, "trunc", 1)
             IN  d.ok /\ InstantShift(to_instant(other.dt), ExactSum(d.value)) = to_instant(obj.dt)
  <2> DEFINE x == to_instant(obj.dt)
             y == to_instant(other.dt)
             n == x - y
             units == {"hours", "seconds", "nanoseconds"}
             d == in_exact_units(n, units, 1, "trunc")
             last == smallest(ExactUnit, units)
             step == in_nanos(last) * 1
             sum == ExactSum(d.value)
             base == IF step < NanosPerSecond THEN secs(n) * NanosPerSecond ELSE 0
  <2>1. IsOffset(obj.dt) /\ IsOffset(other.dt)
    BY <1>4, ObjectHolds DEF ObjectsInRange, Pair
  <2>2. x \in Instants /\ y \in Instants
    BY <1>4, <2>1, ToInstantType DEF MaybeInstant
  <2>3. x \in Int /\ y \in Int /\ secs(x) > EpochMin
    BY <1>4, <2>2, InstantIsInt
  <2>4. offset_since(obj.dt, other.dt, units, "trunc", 1) = d
    <3>1. ~has_calendar(units)
      BY UnitNames DEF has_calendar, calendar_only
    <3> QED BY <3>1 DEF offset_since
  <2> HIDE DEF x, y, d, units, last, step, sum, base
  <2>5. n \in Int /\ 2 - TimeDeltaMax <= n /\ n <= TimeDeltaMax - 2
    BY <2>2, DifferencesFit
  <2>6. n = x - y
    OBVIOUS
  <2> HIDE DEF n
  <2>7. /\ units \in SUBSET ExactSix /\ units # {} /\ 1 \in {1, 2} /\ "trunc" \in Mode
        /\ last = smallest(ExactUnit, units) /\ last = "nanoseconds" /\ step = in_nanos(last) * 1
        /\ d = in_exact_units(n, units, 1, "trunc") /\ sum = ExactSum(d.value)
        /\ base = IF step < NanosPerSecond THEN secs(n) * NanosPerSecond ELSE 0
    <3>1. units \in SUBSET ExactSix /\ units # {} /\ "nanoseconds" \in units
      BY DEF units, ExactSix
    <3>2. last = smallest(ExactUnit, units)
      BY DEF last
    <3>3. last \in units /\ last \in {"hours", "seconds", "nanoseconds"} /\ "nanoseconds" \in units
      BY <3>1, <3>2, SmallestExact DEF units
    <3>4. last = "nanoseconds"
      BY <3>1, <3>2, <3>3, SmallestExact
    <3> QED BY <3>1, <3>2, <3>4 DEF Mode, step, d, sum, base
  <2>8. d.ok
    BY <2>5, <2>7, ExactFits
  <2>9. sum \in Int /\ sum = RoundedTo(n, step, "trunc")
    <3> DEFINE mode == "trunc"
               inc == 1
    <3>1. /\ units \in SUBSET ExactSix /\ units # {} /\ inc \in {1, 2} /\ mode \in Mode
          /\ last = smallest(ExactUnit, units) /\ step = in_nanos(last) * inc
          /\ d = in_exact_units(n, units, inc, mode) /\ sum = ExactSum(d.value) /\ n \in Int
          /\ base = IF step < NanosPerSecond THEN secs(n) * NanosPerSecond ELSE 0
      BY <2>5, <2>7
    <3> HIDE DEF mode, inc
    <3>2. sum \in Int /\ sum = RoundedTo(n, step, mode)
      BY <2>8, <3>1, ExactRounds
    <3> QED BY <3>2 DEF mode
  <2>10. sum = n
    <3>1. /\ step \in Nat \ {0} /\ (step = 1 \/ step % 2 = 0) /\ step = 1
          /\ step < NanosPerSecond => Multiple(NanosPerSecond, step)
      <4>1. last \in ExactSix
        BY <2>7 DEF ExactSix
      <4> QED BY <2>7, <4>1, ExactSteps
    <3> QED BY <2>5, <2>7, <2>9, <3>1, RoundedNear
  <2>11. y + n = x
    BY <2>3, <2>6, SMT
  <2>12. InstantShift(y, n) = x
    BY <2>2, <2>3, <2>5, <2>11, ShiftInstantAdds
  <2> QED BY <2>4, <2>8, <2>10, <2>12 DEF x, y, units, sum
<1>5. ObjectsInRange => DateTimeDifferenceAddsBack
  BY <1>2, <1>3, <1>4 DEF DateTimeDifferenceAddsBack
<1> QED BY <1>5, ValuesStayInRange, PTL

-----------------------------------------------------------------------------
(***************************************************************************)
(* TimeDelta.in_units, // and %.                                           *)
(***************************************************************************)

\* // and % of TimeDeltas of either sign, from a division that truncates.
LEMMA FloorDivides ==
    ASSUME NEW a \in Int, NEW b \in Int, b # 0
    PROVE  LET q == floordiv(a, b) r == mod(a, b) IN
           /\ q * b + r = a
           /\ IF b > 0 THEN r \in 0 .. b - 1 ELSE r \in b + 1 .. 0
<1> DEFINE x == Distance(0, a)
           y == Distance(0, b)
           q == x \div y
           r == x % y
           quot == Quot(a, b)
           rem == Rem(a, b)
           less == Signum(a) # Signum(b) /\ rem # 0
<1>1. x \in Nat /\ y \in Nat \ {0} /\ (a >= 0 => x = a) /\ (a < 0 => x = -a) /\ (b > 0 => y = b) /\ (b < 0 => y = -b)
  BY SMT DEF Distance
<1>2. q \in Nat /\ r \in Nat /\ r < y /\ x = y * q + r
  <2> HIDE DEF x, y
  <2> QED BY <1>1, SMT
<1>3. quot = IF (a < 0) = (b < 0) THEN q ELSE -q
  BY DEF Quot
<1>4. rem = a - quot * b
  BY DEF Rem
<1>5. floordiv(a, b) = quot - (IF less THEN 1 ELSE 0) /\ mod(a, b) = rem + (IF less THEN b ELSE 0)
  BY DEF floordiv, mod
<1> HIDE DEF x, y, q, r, quot, rem
<1> DEFINE p == y * q
<1>6. p \in Int /\ q * y = p /\ (-q) * y = -p /\ q * (-y) = -p /\ (-q) * (-y) = p
  BY <1>1, <1>2, SMT
<1>7. quot \in Int /\ quot * b \in Int /\ (quot - 1) * b = quot * b - b /\ (quot - 0) * b = quot * b
  <2>1. quot \in Int
    BY <1>2, <1>3, SMT
  <2> QED BY <2>1, SMT
<1> DEFINE w == quot * b
<1>8. w = IF a < 0 THEN -p ELSE p
  <2>1. CASE a < 0 /\ b < 0
    <3>1. quot = q /\ b = -y
      BY <1>1, <1>3, <2>1, SMT
    <3> QED BY <1>6, <2>1, <3>1
  <2>2. CASE a < 0 /\ ~(b < 0)
    <3>1. quot = -q /\ b = y
      BY <1>1, <1>3, <2>2, SMT
    <3> QED BY <1>6, <2>2, <3>1
  <2>3. CASE ~(a < 0) /\ b < 0
    <3>1. quot = -q /\ b = -y
      BY <1>1, <1>3, <2>3, SMT
    <3> QED BY <1>6, <2>3, <3>1
  <2>4. CASE ~(a < 0) /\ ~(b < 0)
    <3>1. quot = q /\ b = y
      BY <1>1, <1>3, <2>4, SMT
    <3> QED BY <1>6, <2>4, <3>1
  <2> QED BY <2>1, <2>2, <2>3, <2>4
<1>9. rem = a - w /\ w \in Int
  BY <1>4, <1>7
<1> DEFINE f == quot - (IF less THEN 1 ELSE 0)
           m == rem + (IF less THEN b ELSE 0)
<1>10. f * b = w - (IF less THEN b ELSE 0)
  <2> HIDE DEF less
  <2>1. CASE less
    <3>1. f = quot - 1
      BY <2>1
    <3> HIDE DEF f
    <3>2. f * b = quot * b - b
      BY <1>7, <3>1
    <3> QED BY <2>1, <3>2
  <2>2. CASE ~less
    <3>1. f = quot - 0
      BY <2>2
    <3> HIDE DEF f
    <3>2. f * b = quot * b /\ quot * b - 0 = quot * b
      BY <1>7, <3>1, SMT
    <3> QED BY <2>2, <3>2
  <2> QED BY <2>1, <2>2
<1> DEFINE fb == f * b
<1> HIDE DEF p, w, f, fb
<1>11. rem = IF a < 0 THEN -r ELSE r
  BY <1>1, <1>2, <1>6, <1>8, <1>9, SMT DEF p
<1>12. /\ Signum(a) = (IF a > 0 THEN 1 ELSE IF a < 0 THEN -1 ELSE 0)
       /\ Signum(b) = (IF b > 0 THEN 1 ELSE -1)
  BY SMT DEF Signum
<1>13. less <=> rem # 0 /\ ((a < 0) # (b < 0))
  <2>1. a = 0 => rem = 0
    BY <1>1, <1>2, <1>6, <1>11, SMT DEF p
  <2> QED BY <1>12, <2>1, SMT
<1> HIDE DEF less
<1>14. fb + m = a
  BY <1>9, <1>10, SMT DEF m, fb
<1>15. IF b > 0 THEN m \in 0 .. b - 1 ELSE m \in b + 1 .. 0
  BY <1>1, <1>2, <1>11, <1>13, SMT DEF m
<1> QED BY <1>5, <1>14, <1>15 DEF f, fb, m

\* TimeDelta.in_units with relative_to.
LEMMA RelativeUnits ==
    ASSUME NEW n \in Int, NEW b, IsPlain(b)
    PROVE  RelativeUnitsAddUp(n, b)
<1> DEFINE a == PlainShift(b, n)
           y == assume_utc(b)
           x == y + n
<1> SUFFICES ASSUME a # NoPlain, ~FirstSecond(a)
             PROVE  /\ ItemizedLeadsTo(b, timedelta_in_units(n, b, {"years", "months", "days", "seconds", "nanoseconds"}, "trunc", 1), a)
                    /\ SameUnits(timedelta_in_units(n, b, {"seconds", "nanoseconds"}, "half_even", 2),
                                 timedelta_in_units(n, NoPlain, {"seconds", "nanoseconds"}, "half_even", 2))
  BY DEF RelativeUnitsAddUp
<1>1. y \in Int /\ y \in Instants /\ b # NoPlain
  BY PlainIsInstant, SecondsOfPlain
<1>2. x \in Int
  <2> HIDE DEF y
  <2> QED BY <1>1, SMT
<1>3. x \in Instants /\ a = to_utc_plain(x)
  <2>1. a = PlainOrNone(InstantShift(y, n))
    BY DEF PlainShift
  <2> HIDE DEF y
  <2>2. InstantShift(y, n) = x \/ InstantShift(y, n) = NoInstant
    BY <1>1, ShiftInstantAdds
  <2>3. InstantShift(y, n) = x => x \in Instants \/ x = NoInstant
    BY <1>1, ShiftInstantAdds
  <2>4. PlainOrNone(NoInstant) = NoPlain
    BY DEF PlainOrNone
  <2> HIDE DEF a, x
  <2>5. x # NoInstant => PlainOrNone(x) = to_utc_plain(x)
    BY DEF PlainOrNone
  <2> QED BY <2>1, <2>2, <2>3, <2>4, <2>5
<1>4. IsPlain(a) /\ assume_utc(a) = x /\ a = Plain(a.date, a.time)
  <2> HIDE DEF a, x
  <2> QED BY <1>3, InstantIsPlain
<1>5. secs(assume_utc(a)) # EpochMin
  <2> HIDE DEF a
  <2> QED BY <1>4, SecondsOfPlain DEF FirstSecond
<1>6. \A units, mode, inc : timedelta_in_units(n, b, units, mode, inc) = plain_since_in_units(a, b, units, mode, inc)
  BY <1>1 DEF timedelta_in_units, SinceOrNone
<1> HIDE DEF a
<1>7. ItemizedLeadsTo(b, timedelta_in_units(n, b, {"years", "months", "days", "seconds", "nanoseconds"}, "trunc", 1), a)
  <2> DEFINE cal == {"years", "months", "days"}
             exact == {"seconds", "nanoseconds"}
             units == {"years", "months", "days", "seconds", "nanoseconds"}
             d == plain_since_in_units(a, b, units, "trunc", 1)
  <2>1. cal \in SUBSET Names(CalendarUnit) /\ exact \in SUBSET ExactFour /\ cal \cup exact = units /\ units # {}
        /\ "nanoseconds" \in units
    BY UnitNames DEF ExactFour
  <2>2. d = plain_since_in_units(a, b, cal \cup exact, "trunc", 1)
    BY <2>1
  <2> HIDE DEF cal, exact, units, d
  <2>3. SinceLeadsTo(a, b, units, d)
    <3>1. cal \cup exact # {}
      BY <2>1
    <3>2. SinceLeadsTo(a, b, cal \cup exact, plain_since_in_units(a, b, cal \cup exact, "trunc", 1))
      BY <1>4, <1>5, <2>1, <3>1, SinceLeads
    <3> QED BY <2>1, <2>2, <3>2
  <2>4. d.ok => PlainShiftBy(b, ItemizedToShift(d.value)) = a
    BY <2>1, <2>3 DEF SinceLeadsTo, LeadsTo
  <2> QED BY <1>6, <2>4 DEF ItemizedLeadsTo, d, units
<1>8. SameUnits(timedelta_in_units(n, b, {"seconds", "nanoseconds"}, "half_even", 2),
                timedelta_in_units(n, NoPlain, {"seconds", "nanoseconds"}, "half_even", 2))
  <2> DEFINE units == {"seconds", "nanoseconds"}
             mode == "half_even"
             inc == 2
             neg == PlainLess(a, b)
             d == plain_since_in_units(a, b, units, mode, inc)
             e == in_exact_units(n, units, inc, mode)
             last == smallest(ExactUnit, units)
             step == in_nanos(last) * inc
             sum == ExactSum(e.value)
             base == IF step < NanosPerSecond THEN secs(n) * NanosPerSecond ELSE 0
             c == Diff(<<>>, b.date, a.date)
  <2>1. timedelta_in_units(n, b, units, mode, inc) = d /\ timedelta_in_units(n, NoPlain, units, mode, inc) = e
    <3>1. units \subseteq Names(ExactUnit)
      BY SMT DEF Names, ExactUnit
    <3> QED BY <1>6, <3>1 DEF timedelta_in_units
  <2>2. units \in SUBSET ExactSix /\ units # {} /\ inc \in {1, 2} /\ mode \in Mode /\ "nanoseconds" \in units
    BY DEF ExactSix, Mode
  <2>3. calendar_only(units) = {} /\ exact_only(units) = units
    BY UnitNames DEF calendar_only, exact_only
  <2>4. d = WithExact(<<>>, in_exact_units(assume_utc(a) - InterimInstant(b.date, b.time), units, inc, mode))
    <3>1. target_date(a, b, neg) # NoDate
      BY <1>4, TargetDate
    <3>2. d = SinceOn(target_date(a, b, neg), a, b, {}, units, mode, inc, neg)
      BY <2>3 DEF plain_since_in_units
    <3>3. d = SinceRest(c, a, b, {}, units, mode, inc, neg)
      BY <3>1, <3>2 DEF SinceOn
    <3>4. c.ok /\ c.value = <<>> /\ c.trunc = b.date
      BY DEF Diff
    <3> HIDE DEF c, units, mode, inc
    <3> QED BY <2>2, <3>3, <3>4 DEF SinceRest
  <2>5. assume_utc(a) - InterimInstant(b.date, b.time) = n
    <3>1. InterimResolve(b.date) = b.date
      BY DateIsInterim DEF IsPlain
    <3>2. InterimInstant(b.date, b.time) = y
      BY <3>1 DEF InterimInstant, assume_utc, Plain
    <3> HIDE DEF y
    <3> QED BY <1>1, <1>4, <3>2, SMT
  <2>6. /\ last = smallest(ExactUnit, units) /\ step = in_nanos(last) * inc /\ e = in_exact_units(n, units, inc, mode)
        /\ sum = ExactSum(e.value) /\ base = IF step < NanosPerSecond THEN secs(n) * NanosPerSecond ELSE 0
    OBVIOUS
  <2>7. smallest(ExactUnit, units) = "nanoseconds"
    <3>1. last \in units /\ (last = "seconds" => units \subseteq {"weeks", "days", "hours", "minutes", "seconds"})
      BY <2>2, <2>6, SmallestExact
    <3> HIDE DEF last
    <3> QED BY <2>6, <3>1
  <2>8. 2 - TimeDeltaMax <= n /\ n <= TimeDeltaMax - 2
    <3>1. x - y = n
      BY <1>1, SMT
    <3> HIDE DEF x, y
    <3> QED BY <1>1, <1>3, <3>1, DifferencesFit
  <2> HIDE DEF units, mode, inc, d, e, last, step, sum, base
  <2>9. e.ok
    BY <2>2, <2>6, <2>7, <2>8, ExactFits
  <2>10. e.value \in [units -> Int]
    BY <2>2, <2>6, <2>9, ExactRounds
  <2>11. d.ok /\ d.value = Joined(<<>>, e.value)
    <3>1. d = WithExact(<<>>, e)
      BY <2>4, <2>5, <2>6
    <3> QED BY <2>9, <3>1 DEF WithExact
  <2>12. Joined(<<>>, e.value) = e.value
    <3> DEFINE v == e.value
               z == <<>>
    <3>1. DOMAIN z = {}
      BY SMT
    <3>2. v \in [units -> Int]
      BY <2>10
    <3> HIDE DEF v, z
    <3>3. Joined(z, v) = [u \in units |-> v[u]]
      BY <3>1, <3>2 DEF Joined
    <3> QED BY <3>2, <3>3 DEF v, z
  <2>13. SameUnits(d, e)
    BY <2>11, <2>12 DEF SameUnits
  <2> QED BY <2>1, <2>13 DEF units, mode, inc
<1> QED BY <1>7, <1>8

\* // and % give the dividend back, and the units of a TimeDelta have one sign and add up to the
\* multiple of the smallest that the mode asks for, with relative_to or without it
\* (TimeDelta::in_exact_units of src/domain/time_delta.rs and its callers).
THEOREM ExactUnitsAlwaysAddUp == Spec => []ExactUnitsAddUp
<1>1. ASSUME ObjectsInRange PROVE DividesExactly
  <2> SUFFICES ASSUME Pair("time_delta"), other.nanos # 0
               PROVE  LET q == floordiv(obj.nanos, other.nanos) r == mod(obj.nanos, other.nanos) IN
                      /\ q * other.nanos + r = obj.nanos
                      /\ IF other.nanos > 0 THEN r \in 0 .. other.nanos - 1 ELSE r \in other.nanos + 1 .. 0
    BY DEF DividesExactly
  <2>1. obj.nanos \in Int /\ other.nanos \in Int
    BY <1>1, ObjectHolds DEF ObjectsInRange, Pair
  <2> QED BY <2>1, FloorDivides
<1>2. ASSUME ObjectsInRange, Is("time_delta"), NEW b \in MCPlains
      PROVE  RelativeUnitsAddUp(obj.nanos, b)
  <2>1. obj.nanos \in Int
    BY <1>2, ObjectHolds DEF ObjectsInRange, Is
  <2>2. IsPlain(b)
    BY DEF MCPlains
  <2> QED BY <2>1, <2>2, RelativeUnits
<1>3. ASSUME ObjectsInRange, Is("time_delta"),
             NEW units \in {{"weeks", "hours"}, {"days", "minutes", "seconds", "nanoseconds"}, {"seconds"}, {"hours", "minutes"}},
             NEW inc \in {1, 2}, NEW mode \in Mode
      PROVE  LET r == in_exact_units(obj.nanos, units, inc, mode)
                 step == in_nanos(smallest(ExactUnit, units)) * inc
                 sum == ExactSum(r.value)
                 base == IF step < NanosPerSecond THEN secs(obj.nanos) * NanosPerSecond ELSE 0
             IN  r.ok =>
                    /\ mode # "half_even" => RoundsTo(obj.nanos, step, mode, sum)
                    /\ mode = "half_even" => RoundsTo(obj.nanos - base, step, mode, sum - base)
                    /\ (\A u \in units : r.value[u] >= 0) \/ (\A u \in units : r.value[u] <= 0)
  <2> DEFINE n == obj.nanos
             r == in_exact_units(n, units, inc, mode)
             last == smallest(ExactUnit, units)
             step == in_nanos(last) * inc
             sum == ExactSum(r.value)
             base == IF step < NanosPerSecond THEN secs(n) * NanosPerSecond ELSE 0
  <2>1. units \in SUBSET ExactSix /\ units # {}
    BY <1>3 DEF ExactSix
  <2>2. n \in Int
    BY <1>3, ObjectHolds DEF ObjectsInRange, Is
  <2>3. /\ last = smallest(ExactUnit, units) /\ step = in_nanos(last) * inc /\ r = in_exact_units(n, units, inc, mode)
        /\ sum = ExactSum(r.value) /\ base = IF step < NanosPerSecond THEN secs(n) * NanosPerSecond ELSE 0
    OBVIOUS
  <2> HIDE DEF n, r, last, step, sum, base
  <2>4. r.ok => /\ sum \in Int
                /\ mode # "half_even" => RoundsTo(n, step, mode, sum)
                /\ mode = "half_even" => RoundsTo(n - base, step, mode, sum - base)
                /\ sum >= 0 => \A u \in units : r.value[u] >= 0
                /\ sum <= 0 => \A u \in units : r.value[u] <= 0
    BY <1>3, <2>1, <2>2, <2>3, ExactRounds
  <2>5. r.ok => /\ mode # "half_even" => RoundsTo(n, step, mode, sum)
                /\ mode = "half_even" => RoundsTo(n - base, step, mode, sum - base)
                /\ (\A u \in units : r.value[u] >= 0) \/ (\A u \in units : r.value[u] <= 0)
    <3>1. sum \in Int => sum >= 0 \/ sum <= 0
      BY SMT
    <3> QED BY <2>4, <3>1
  <2> QED BY <2>5 DEF n, r, last, step, sum, base
<1>4. ObjectsInRange => ExactUnitsAddUp
  BY <1>1, <1>2, <1>3 DEF ExactUnitsAddUp
<1> QED BY <1>4, ValuesStayInRange, PTL
=============================================================================
