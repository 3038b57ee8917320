--------------------------- MODULE TimeZoneProofs ---------------------------
(***************************************************************************)
(* For every well-formed zone, of any number of transitions: local times   *)
(* are resolved to offsets that the zone has at the resulting instant.     *)
(***************************************************************************)
EXTENDS TimeZone, WellFoundedInduction, TLAPS

\* bisect finds what it looks for: the first entry after x exists, ...
LEMMA BisectFinds ==
    ASSUME NEW arr, Len(arr) \in Nat, NEW x \in Int,
           \A i \in 1 .. Len(arr) : arr[i].at \in Int
    PROVE  IsFirstAfter(arr, x, bisect(arr, x))
<1> DEFINE T == {i \in 1 .. Past(arr) : i = Past(arr) \/ x < arr[i].at}
<1>1. T \subseteq Nat /\ T # {}
  <2>1. Past(arr) \in T
    BY DEF Past
  <2> QED
    BY <2>1 DEF Past
<1>2. PICK r \in T : \A y \in T : ~(<<y, r>> \in OpToRel(<, Nat))
  BY <1>1, WFMin, NatLessThanWellFounded, Zenon
<1>3. \A y \in T : ~(y < r)
  BY <1>1, <1>2 DEF OpToRel
<1>4. IsFirstAfter(arr, x, r)
  <2>1. r \in 1 .. Past(arr) /\ (r # Past(arr) => x < arr[r].at)
    OBVIOUS
  <2>2. ASSUME NEW i \in 1 .. r - 1 PROVE arr[i].at <= x
    <3>1. i \in 1 .. Past(arr) /\ i # Past(arr) /\ i < r /\ i \in 1 .. Len(arr)
      BY <2>1 DEF Past
    <3>2. i \notin T
      BY <3>1, <1>3
    <3> QED
      BY <3>1, <3>2
  <2> QED
    BY <2>1, <2>2 DEF IsFirstAfter
<1>5. \E s \in 1 .. Past(arr) : IsFirstAfter(arr, x, s)
  BY <1>4 DEF IsFirstAfter
<1> QED
  BY <1>5 DEF bisect

\* ... and there is only one.
LEMMA BisectUnique ==
    ASSUME NEW arr, Len(arr) \in Nat, NEW x \in Int,
           \A i \in 1 .. Len(arr) : arr[i].at \in Int,
           NEW r, IsFirstAfter(arr, x, r)
    PROVE  bisect(arr, x) = r
<1> DEFINE s == bisect(arr, x)
<1>1. IsFirstAfter(arr, x, s)
  BY BisectFinds
<1>2. r \in 1 .. Len(arr) + 1 /\ s \in 1 .. Len(arr) + 1
  BY <1>1 DEF IsFirstAfter, Past
<1> HIDE DEF s
<1>3. ASSUME r < s PROVE FALSE
  <2>1. r \in 1 .. s - 1 /\ r \in 1 .. Len(arr) /\ r # Past(arr)
    BY <1>2, <1>3 DEF Past
  <2>2. arr[r].at <= x /\ x < arr[r].at
    BY <2>1, <1>1 DEF IsFirstAfter
  <2> QED
    BY <2>1, <2>2
<1>4. ASSUME s < r PROVE FALSE
  <2>1. s \in 1 .. r - 1 /\ s \in 1 .. Len(arr) /\ s # Past(arr)
    BY <1>2, <1>4 DEF Past
  <2>2. arr[s].at <= x /\ x < arr[s].at
    BY <2>1, <1>1 DEF IsFirstAfter
  <2> QED
    BY <2>1, <2>2
<1> QED
  BY <1>2, <1>3, <1>4 DEF s

LEMMA ClampInRange ==
    ASSUME NEW x \in Int, EpochMin <= x, x <= EpochMax
    PROVE  clamp(x) = x
BY RangeAssumption DEF clamp, Larger, Smaller

\* The local times around a transition at t from offset a to offset b.
LEMMA RegionBounds ==
    ASSUME NEW t \in Int, NEW a \in Int, NEW b \in Int
    PROVE  /\ t + Larger(a, b) \in Int /\ t + Smaller(a, b) \in Int
           /\ t + Smaller(a, b) <= t + Larger(a, b)
           /\ (t + Larger(a, b)) - Abs(b - a) = t + Smaller(a, b)
BY DEF Larger, Smaller, Abs

\* The two tables of a well-formed zone: what is in them, and that no clamp
\* changes anything there.
LEMMA ZoneFacts ==
    ASSUME NEW zone, WellFormed(zone)
    PROVE  /\ Len(zone.utc) \in Nat /\ Len(zone.utc) >= 1
           /\ Len(zone.local) = Len(zone.utc) - 1
           /\ \A i \in 1 .. Len(zone.utc) :
                /\ zone.utc[i].at \in Epochs /\ zone.utc[i].at \in Int
                /\ zone.utc[i].offset \in Offsets /\ zone.utc[i].offset \in Int
           /\ \A i \in 1 .. Len(zone.utc) - 1 :
                /\ zone.local[i].at = Upper(zone.utc, i + 1)
                /\ zone.local[i].offset = zone.utc[i].offset
                /\ zone.local[i].change = zone.utc[i + 1].offset - zone.utc[i].offset
                /\ clamp(zone.local[i].at - Abs(zone.local[i].change)) = Lower(zone.utc, i + 1)
<1> DEFINE utc == zone.utc
           Entry == [at : Epochs, offset : Offsets, dst_saving : Int]
<1>1. utc \in Seq(Entry) /\ Len(utc) >= 1
  BY DEF WellFormed, WellFormedUtc
<1>2. Len(utc) \in Nat
  BY <1>1
<1>3. ASSUME NEW i \in 1 .. Len(utc)
      PROVE  /\ utc[i].at \in Epochs /\ utc[i].at \in Int
             /\ utc[i].offset \in Offsets /\ utc[i].offset \in Int
  <2> HIDE DEF Entry, utc
  <2>1. utc[i] \in Entry
    BY <1>1
  <2> USE DEF Entry
  <2> QED
    BY <2>1, RangeAssumption DEF Epochs, Offsets
<1>4. zone.local = local_transitions(utc)
  BY DEF WellFormed
<1>5. Len(zone.local) = Len(utc) - 1
  BY <1>1, <1>2, <1>4 DEF local_transitions
<1>6. ASSUME NEW i \in 1 .. Len(utc) - 1
      PROVE  /\ zone.local[i].at = Upper(utc, i + 1)
             /\ zone.local[i].offset = utc[i].offset
             /\ zone.local[i].change = utc[i + 1].offset - utc[i].offset
             /\ clamp(zone.local[i].at - Abs(zone.local[i].change)) = Lower(utc, i + 1)
  <2>1. i \in 1 .. Len(utc) /\ i + 1 \in 2 .. Len(utc) /\ i + 1 \in 1 .. Len(utc) /\ (i + 1) - 1 = i
    BY <1>2
  <2>2. /\ utc[i].offset \in Int /\ utc[i + 1].offset \in Int /\ utc[i + 1].at \in Int
    BY <1>3, <2>1
  <2>3. EpochMin < Lower(utc, i + 1) /\ Upper(utc, i + 1) <= EpochMax
    BY <2>1 DEF WellFormed, WellFormedUtc
  <2>4. zone.local[i] = [at |-> clamp(utc[i + 1].at + Larger(utc[i].offset, utc[i + 1].offset)),
                         offset |-> utc[i].offset,
                         change |-> utc[i + 1].offset - utc[i].offset]
    BY <1>4 DEF local_transitions
  <2> DEFINE up == utc[i + 1].at + Larger(utc[i].offset, utc[i + 1].offset)
             low == utc[i + 1].at + Smaller(utc[i].offset, utc[i + 1].offset)
  <2>5. Upper(utc, i + 1) = up /\ Lower(utc, i + 1) = low
    <3> HIDE DEF utc
    <3>1. utc[(i + 1) - 1] = utc[i]
      BY <2>1
    <3> QED
      BY <3>1 DEF Upper, Lower
  <2>6. up \in Int /\ low \in Int /\ low <= up
        /\ up - Abs(utc[i + 1].offset - utc[i].offset) = low
    BY <2>2, RegionBounds
  <2>7. zone.local[i].at = clamp(up) /\ zone.local[i].offset = utc[i].offset
        /\ zone.local[i].change = utc[i + 1].offset - utc[i].offset
    BY <2>4
  <2> HIDE DEF up, low, utc
  <2>8. EpochMin <= low /\ up <= EpochMax /\ EpochMin <= up /\ low <= EpochMax
    BY <2>3, <2>5, <2>6, RangeAssumption
  <2>9. clamp(up) = up /\ clamp(low) = low
    BY <2>6, <2>8, ClampInRange
  <2> QED
    BY <2>5, <2>6, <2>7, <2>9
<1> QED
  BY <1>1, <1>2, <1>3, <1>5, <1>6

\* The offset in the i-th span of a zone, from its transition up to the next;
\* the first span has no beginning and the last one no end.
LEMMA OffsetInSpan ==
    ASSUME NEW zone, WellFormed(zone), NEW t \in Epochs,
           NEW i \in 1 .. Len(zone.utc),
           i = 1 \/ zone.utc[i].at <= t,
           i = Len(zone.utc) \/ t < zone.utc[i + 1].at
    PROVE  offset_for_instant(zone, t) = zone.utc[i].offset
<1> DEFINE utc == zone.utc
<1>1. /\ t \in Int
      /\ Len(utc) \in Nat
      /\ \A k \in 1 .. Len(utc) : utc[k].at \in Int
  BY ZoneFacts, RangeAssumption DEF Epochs
<1>2. IsFirstAfter(utc, t, i + 1)
  <2>1. utc[i].at <= t
    BY RangeAssumption DEF WellFormed, WellFormedUtc, Epochs
  <2>2. ASSUME NEW k \in 1 .. i PROVE utc[k].at <= t
    <3>1. k = i \/ utc[k].at < utc[i].at
      BY DEF WellFormed, WellFormedUtc
    <3> QED
      BY <2>1, <3>1, <1>1
  <2> QED
    BY <1>1, <2>2 DEF IsFirstAfter, Past
<1>3. bisect(utc, t) = i + 1
  BY <1>1, <1>2, BisectUnique
<1>4. CASE i < Len(utc)
  BY <1>1, <1>3, <1>4 DEF offset_for_instant, Past, Larger
<1>5. CASE i = Len(utc)
  <2>1. zone.end = <<>> \/ zone.end = <<utc[i].offset>>
    BY <1>5 DEF WellFormed, Final
  <2> QED
    BY <1>3, <1>5, <2>1 DEF offset_for_instant, Past, Final
<1> QED
  BY <1>1, <1>4, <1>5

\* Every instant lies in some span.
LEMMA SpanOf ==
    ASSUME NEW zone, WellFormed(zone), NEW t \in Epochs
    PROVE  \E i \in 1 .. Len(zone.utc) :
                /\ bisect(zone.utc, t) = i + 1
                /\ zone.utc[i].at <= t
                /\ i = Len(zone.utc) \/ t < zone.utc[i + 1].at
<1> DEFINE utc == zone.utc
           r == bisect(utc, t)
<1>1. /\ t \in Int
      /\ Len(utc) \in Nat /\ Len(utc) >= 1
      /\ \A k \in 1 .. Len(utc) : utc[k].at \in Int
  BY ZoneFacts, RangeAssumption DEF Epochs
<1>2. IsFirstAfter(utc, t, r)
  BY <1>1, BisectFinds
<1>3. utc[1].at <= t
  BY RangeAssumption DEF WellFormed, WellFormedUtc, Epochs
<1> HIDE DEF r, utc
<1>4. r \in 2 .. Len(utc) + 1
  <2>1. r \in 1 .. Len(utc) + 1
    BY <1>2 DEF IsFirstAfter, Past
  <2>2. r # 1
    BY <1>1, <1>2, <1>3 DEF IsFirstAfter, Past
  <2> QED
    BY <1>1, <2>1, <2>2
<1>5. r - 1 \in 1 .. Len(utc) /\ r = (r - 1) + 1 /\ r - 1 \in 1 .. r - 1
  BY <1>1, <1>4
<1>6. utc[r - 1].at <= t /\ (r - 1 = Len(utc) \/ t < utc[(r - 1) + 1].at)
  BY <1>1, <1>2, <1>5 DEF IsFirstAfter, Past
<1>7. \E i \in 1 .. Len(utc) : r = i + 1 /\ utc[i].at <= t /\ (i = Len(utc) \/ t < utc[i + 1].at)
  BY <1>5, <1>6
<1> QED
  BY <1>7 DEF r, utc

LEMMA OffsetForInstantType ==
    ASSUME NEW zone, WellFormed(zone), NEW t \in Epochs
    PROVE  offset_for_instant(zone, t) \in Offsets
BY SpanOf, OffsetInSpan, ZoneFacts

-----------------------------------------------------------------------------
\* The offset o is the zone's own at the local time l, if that is in range.
ValidAt(zone, l, o) ==
    o \in Offsets /\ (l - o \in Epochs => offset_for_instant(zone, l - o) = o)

\* A local time l that lies in span i for the offset of that span.
LEMMA ValidInSpan ==
    ASSUME NEW zone, WellFormed(zone), NEW l \in Int,
           NEW i \in 1 .. Len(zone.utc),
           i = 1 \/ zone.utc[i].at <= l - zone.utc[i].offset,
           i = Len(zone.utc) \/ l - zone.utc[i].offset < zone.utc[i + 1].at
    PROVE  ValidAt(zone, l, zone.utc[i].offset)
BY ZoneFacts, OffsetInSpan DEF ValidAt

\* What an answer of mapping_for_local promises: each offset it names is valid
\* at the local time it is for; around a gap these are the local time moved
\* across it, the end of the gap, and the last second before it.
MappingPromise(zone, m, l) ==
    \/ m.kind = "unique" /\ ValidAt(zone, l, m.offset)
    \/ m.kind = "fold" /\ ValidAt(zone, l, m.before) /\ ValidAt(zone, l, m.after)
    \/ /\ m.kind = "gap"
       /\ m.before < m.after
       /\ ValidAt(zone, l + (m.after - m.before), m.after)
       /\ ValidAt(zone, l + (m.before - m.after), m.before)
       /\ m.transition \in Epochs
       /\ ValidAt(zone, m.transition, m.after)
       /\ clamp(m.transition - (m.after - m.before) - 1) = m.transition - (m.after - m.before) - 1
       /\ m.transition - (m.after - m.before) - 1 \in Epochs
       /\ ValidAt(zone, m.transition - (m.after - m.before) - 1, m.before)

\* The local time l lies before the i-th entry of the local table, and not
\* before the one that precedes it.
LEMMA MappingAtPromise ==
    ASSUME NEW zone, WellFormed(zone), NEW l \in Int,
           NEW i \in 1 .. Len(zone.utc) - 1,
           l < Upper(zone.utc, i + 1),
           i = 1 \/ Upper(zone.utc, i) <= l
    PROVE  MappingPromise(zone, MappingAt(zone.local[i], l), l)
<1> DEFINE utc == zone.utc
           n == Len(utc)
           b == utc[i].offset
           a == utc[i + 1].offset
           s == utc[i].at
           t == utc[i + 1].at
           z == utc[i + 2].at
           m == MappingAt(zone.local[i], l)
<1>1. n \in Nat /\ i \in 1 .. n /\ i + 1 \in 1 .. n /\ i + 1 \in 2 .. n
  BY ZoneFacts
<1>2. a \in Int /\ b \in Int /\ t \in Int
  BY <1>1, ZoneFacts
<1>3. /\ zone.local[i].at = t + Larger(b, a)
      /\ clamp(zone.local[i].at - Abs(zone.local[i].change)) = t + Smaller(b, a)
      /\ zone.local[i].offset = b
      /\ zone.local[i].change = a - b
      /\ l < t + Larger(b, a)
      /\ EpochMin < t + Smaller(b, a) /\ t + Larger(b, a) <= EpochMax
  <2>1. Upper(utc, i + 1) = t + Larger(b, a) /\ Lower(utc, i + 1) = t + Smaller(b, a)
    <3> HIDE DEF utc
    <3>1. utc[(i + 1) - 1] = utc[i]
      BY <1>1
    <3> QED
      BY <3>1 DEF Upper, Lower
  <2>2. EpochMin < Lower(utc, i + 1) /\ Upper(utc, i + 1) <= EpochMax
    BY <1>1 DEF WellFormed, WellFormedUtc
  <2>3. /\ zone.local[i].at = Upper(utc, i + 1)
        /\ clamp(zone.local[i].at - Abs(zone.local[i].change)) = Lower(utc, i + 1)
        /\ zone.local[i].offset = b
        /\ zone.local[i].change = a - b
    BY ZoneFacts
  <2> HIDE DEF a, b, t
  <2> QED
    BY <2>1, <2>2, <2>3
\* where span i begins, and where span i + 1 ends
<1>4. i = 1 \/ (s \in Int /\ s <= l - b /\ s < t /\ s <= t - Abs(a - b))
  <2>1. CASE i = 1
    BY <2>1
  <2>2. CASE i # 1
    <3>1. i \in 2 .. n /\ i - 1 \in 1 .. n
      BY <1>1, <2>2
    <3>2. s \in Int /\ utc[i - 1].offset \in Int
      BY <1>1, <3>1, ZoneFacts
    <3>3. s + Larger(utc[i - 1].offset, b) <= l
      BY <2>2 DEF Upper
    <3>4. s < t /\ t - s >= Change(utc, i + 1)
      BY <1>1, <3>1 DEF WellFormed, WellFormedUtc
    <3>5. Change(utc, i + 1) = Abs(a - b)
      BY <1>1, <1>2 DEF Change, Abs
    <3> HIDE DEF a, b, s, t, utc
    <3>6. s <= l - b
      BY <1>2, <3>2, <3>3 DEF Larger
    <3>7. s <= t - Abs(a - b)
      BY <1>2, <3>2, <3>4, <3>5 DEF Abs
    <3> QED
      BY <3>2, <3>4, <3>6, <3>7
  <2> QED
    BY <2>1, <2>2
<1>5. i + 1 = n \/ (z \in Int /\ t + Larger(b, a) <= z + a /\ t + Abs(a - b) <= z /\ t < z)
  <2>1. CASE i + 1 # n
    <3>1. i + 2 \in 2 .. n /\ i + 2 \in 1 .. n /\ (i + 2) - 1 = i + 1 /\ (i + 1) - 1 = i
      BY <1>1, <2>1
    <3>2. z \in Int /\ utc[i + 2].offset \in Int
      BY <3>1, ZoneFacts
    <3>3. Upper(utc, i + 1) <= Lower(utc, i + 2)
      BY <1>1, <3>1 DEF WellFormed, WellFormedUtc
    <3>4. t < z /\ z - t >= Change(utc, i + 1)
      BY <1>1, <3>1 DEF WellFormed, WellFormedUtc
    <3>5. t + Larger(b, a) <= z + Smaller(a, utc[i + 2].offset)
      BY <3>1, <3>3 DEF Upper, Lower
    <3>6. Change(utc, i + 1) = Abs(a - b)
      BY <1>2, <3>1 DEF Change, Abs
    <3> HIDE DEF a, b, t, z, utc
    <3>7. t + Larger(b, a) <= z + a
      BY <1>2, <3>2, <3>5 DEF Larger, Smaller
    <3>8. t + Abs(a - b) <= z
      BY <1>2, <3>2, <3>4, <3>6 DEF Abs
    <3> QED
      BY <3>2, <3>4, <3>7, <3>8
  <2> QED
    BY <2>1
<1>6. \/ m = Unique(b) /\ (l < t + Smaller(b, a) \/ a = b)
      \/ m = Fold(t + b, b, a) /\ a < b /\ t + a <= l
      \/ m = Gap(t + a, b, a) /\ b < a /\ t + b <= l
  <2> HIDE DEF a, b, t, utc
  <2> QED
    BY <1>2, <1>3 DEF MappingAt, Larger, Smaller
<1>7. ASSUME NEW x \in Int, i = 1 \/ s <= x - b, x - b < t
      PROVE  ValidAt(zone, x, b)
  BY <1>1, <1>7, ValidInSpan
<1>8. ASSUME NEW x \in Int, t <= x - a, i + 1 = n \/ x - a < z
      PROVE  ValidAt(zone, x, a)
  <2>1. i + 1 \in 1 .. Len(zone.utc) /\ (i + 1) + 1 = i + 2
    BY <1>1
  <2>2. i + 1 = Len(zone.utc) \/ x - zone.utc[i + 1].offset < zone.utc[(i + 1) + 1].at
    BY <1>8, <2>1
  <2>3. zone.utc[i + 1].at <= x - zone.utc[i + 1].offset
    BY <1>8
  <2> QED
    BY <2>1, <2>2, <2>3, ValidInSpan
<1> SUFFICES MappingPromise(zone, m, l)
  OBVIOUS
<1> HIDE DEF a, b, s, t, z, n, m, utc
<1>9. CASE m = Unique(b) /\ (l < t + Smaller(b, a) \/ a = b)
  <2>1. l - b < t
    BY <1>2, <1>3, <1>9 DEF Larger, Smaller
  <2>2. ValidAt(zone, l, b)
    BY <1>4, <1>7, <2>1
  <2> QED
    BY <1>9, <2>2 DEF MappingPromise, Unique
<1>10. CASE m = Fold(t + b, b, a) /\ a < b /\ t + a <= l
  <2>1. l - b < t /\ t <= l - a /\ (i + 1 = n \/ l - a < z)
    BY <1>2, <1>3, <1>5, <1>10 DEF Larger
  <2>2. ValidAt(zone, l, b) /\ ValidAt(zone, l, a)
    BY <1>4, <1>7, <1>8, <2>1
  <2> QED
    BY <1>10, <2>2 DEF MappingPromise, Fold
<1>11. CASE m = Gap(t + a, b, a) /\ b < a /\ t + b <= l
  <2>1. l < t + a /\ EpochMin < t + b /\ t + a <= EpochMax
    BY <1>2, <1>3, <1>11 DEF Larger, Smaller
  <2>2. (i = 1 \/ (s <= t - (a - b) /\ s <= t - 1)) /\ (i + 1 = n \/ (t + (a - b) <= z /\ t < z))
    BY <1>2, <1>4, <1>5, <1>11 DEF Abs
  <2> DEFINE later == l + (a - b)
             earlier == l + (b - a)
             last == (t + a) - (a - b) - 1
  <2>3. ValidAt(zone, later, a)
    <3>1. later \in Int /\ t <= later - a /\ (i + 1 = n \/ later - a < z)
      BY <1>2, <1>5, <1>11, <2>1, <2>2
    <3> QED
      BY <1>8, <3>1
  <2>4. ValidAt(zone, earlier, b)
    <3>1. earlier \in Int /\ earlier - b < t /\ (i = 1 \/ s <= earlier - b)
      BY <1>2, <1>4, <1>11, <2>1, <2>2
    <3> QED
      BY <1>7, <3>1
  <2>5. ValidAt(zone, t + a, a)
    <3>1. t + a \in Int /\ t <= (t + a) - a /\ (i + 1 = n \/ (t + a) - a < z)
      BY <1>2, <1>5, <2>2
    <3> QED
      BY <1>8, <3>1
  <2>6. ValidAt(zone, last, b)
    <3>1. last \in Int /\ last - b < t /\ (i = 1 \/ s <= last - b)
      BY <1>2, <1>4, <2>2
    <3> QED
      BY <1>7, <3>1
  <2>7. t + a \in Epochs /\ last \in Epochs /\ clamp(last) = last
    <3>1. last \in Int /\ EpochMin <= last /\ last <= EpochMax /\ EpochMin <= t + a
      BY <1>2, <1>11, <2>1, RangeAssumption
    <3>2. clamp(last) = last
      <4> HIDE DEF last
      <4> QED
        BY <3>1, RangeAssumption DEF clamp, Larger, Smaller
    <3> QED
      BY <1>2, <2>1, <3>1, <3>2, RangeAssumption DEF Epochs
  <2>8. m.kind = "gap" /\ m.transition = t + a /\ m.before = b /\ m.after = a
    BY <1>11 DEF Gap
  <2> QED
    BY <1>11, <2>3, <2>4, <2>5, <2>6, <2>7, <2>8 DEF MappingPromise
<1> QED
  BY <1>6, <1>9, <1>10, <1>11

\* A local time past every entry lies in the last span.
LEMMA LastSpanBegins ==
    ASSUME NEW zone, WellFormed(zone), NEW l \in Int,
           Len(zone.utc) = 1 \/ Upper(zone.utc, Len(zone.utc)) <= l
    PROVE  Len(zone.utc) = 1 \/ zone.utc[Len(zone.utc)].at <= l - zone.utc[Len(zone.utc)].offset
<1> DEFINE utc == zone.utc
           n == Len(utc)
           o == utc[n].offset
<1>1. n \in Nat /\ n >= 1 /\ n \in 1 .. n
  BY ZoneFacts
<1>2. CASE n # 1
  <2>1. n - 1 \in 1 .. n
    <3> HIDE DEF n
    <3> QED
      BY <1>1, <1>2
  <2>2. utc[n].at \in Int /\ o \in Int /\ utc[n - 1].offset \in Int
    BY <1>1, <2>1, ZoneFacts
  <2>3. utc[n].at + Larger(utc[n - 1].offset, o) <= l
    BY <1>2 DEF Upper
  <2> DEFINE t == utc[n].at
             b == utc[n - 1].offset
  <2> HIDE DEF o, t, b
  <2>4. t <= l - o
    BY <2>2, <2>3 DEF Larger, t, b
  <2> QED
    BY <2>4 DEF t, o
<1> QED
  BY <1>2

\* The entry of the local table that mapping_for_local finds, and what it makes
\* of it; past the last entry the last offset is in force.
LEMMA MappingEntry ==
    ASSUME NEW zone, WellFormed(zone), NEW l \in Int
    PROVE  \E k \in 1 .. Len(zone.utc) :
                /\ k = 1 \/ Upper(zone.utc, k) <= l
                /\ k = Len(zone.utc) \/ l < Upper(zone.utc, k + 1)
                /\ k = Len(zone.utc) => mapping_for_local(zone, l) = Unique(zone.utc[k].offset)
                /\ k # Len(zone.utc) => mapping_for_local(zone, l) = MappingAt(zone.local[k], l)
<1> DEFINE utc == zone.utc
           n == Len(utc)
           i == bisect(zone.local, l)
<1>1. n \in Nat /\ n >= 1 /\ Len(zone.local) = n - 1 /\ Len(zone.local) \in Nat
  BY ZoneFacts
<1>2. \A k \in 1 .. n - 1 : zone.local[k].at = Upper(utc, k + 1)
  BY ZoneFacts
<1>3. \A k \in 2 .. n : Upper(utc, k) \in Int
  <2> TAKE k \in 2 .. n
  <2>1. k \in 1 .. n /\ k - 1 \in 1 .. n
    BY <1>1
  <2>2. utc[k].at \in Int /\ utc[k].offset \in Int /\ utc[k - 1].offset \in Int
    BY <2>1, ZoneFacts
  <2> QED
    BY <2>2 DEF Upper, Larger
<1>4. \A k \in 1 .. Len(zone.local) : zone.local[k].at \in Int
  <2> TAKE k \in 1 .. Len(zone.local)
  <2>1. k + 1 \in 2 .. n /\ k \in 1 .. n - 1
    BY <1>1
  <2> QED
    BY <1>2, <1>3, <2>1
<1>5. IsFirstAfter(zone.local, l, i)
  BY <1>1, <1>4, BisectFinds
<1>6. i \in 1 .. n
  BY <1>1, <1>5 DEF IsFirstAfter, Past
<1> HIDE DEF i
<1>7. i = 1 \/ Upper(utc, i) <= l
  <2>1. CASE i # 1
    <3>1. i - 1 \in 1 .. i - 1 /\ i - 1 \in 1 .. n - 1 /\ (i - 1) + 1 = i
      BY <1>1, <1>6, <2>1
    <3>2. zone.local[i - 1].at <= l
      BY <1>5, <3>1 DEF IsFirstAfter
    <3>3. zone.local[i - 1].at = Upper(utc, (i - 1) + 1)
      BY <1>2, <3>1
    <3> QED
      BY <3>1, <3>2, <3>3
  <2> QED
    BY <2>1
<1>8. CASE i # Past(zone.local)
  <2>1. i \in 1 .. n - 1
    BY <1>1, <1>6, <1>8 DEF Past
  <2>2. l < Upper(utc, i + 1)
    BY <1>2, <1>5, <1>8, <2>1 DEF IsFirstAfter
  <2>3. mapping_for_local(zone, l) = MappingAt(zone.local[i], l)
    BY <1>8 DEF mapping_for_local, i
  <2>4. i # n
    <3> HIDE DEF n
    <3> QED BY <1>1, <2>1
  <2> QED
    BY <1>6, <1>7, <2>2, <2>3, <2>4
<1>9. CASE i = Past(zone.local)
  <2>1. i = n /\ n \in 1 .. n
    BY <1>1, <1>9 DEF Past
  <2> DEFINE o == utc[n].offset
  <2>2. mapping_for_local(zone, l) = Unique(o)
    <3>1. CASE zone.end # <<>>
      <4>1. zone.end = <<o>>
        BY <3>1 DEF WellFormed, Final
      <4> QED
        BY <1>9, <3>1, <4>1 DEF mapping_for_local, i
    <3>2. CASE zone.end = <<>>
      <4>1. n >= 2
        BY <3>2, <1>1 DEF WellFormed
      <4>2. n - 1 \in 1 .. n - 1 /\ (n - 1) + 1 = n /\ zone.local # <<>> /\ n - 1 \in 1 .. n
        BY <1>1, <4>1
      <4>3. /\ zone.local[n - 1].offset = utc[n - 1].offset
            /\ zone.local[n - 1].change = utc[n].offset - utc[n - 1].offset
        BY <4>2, ZoneFacts
      <4>4. utc[n].offset \in Int /\ utc[n - 1].offset \in Int
        BY <2>1, <4>2, ZoneFacts
      <4>5. zone.local[n - 1].offset + zone.local[n - 1].change = o
        BY <4>3, <4>4
      <4>6. Final(zone.local) = zone.local[n - 1]
        BY <1>1 DEF Final
      <4> QED
        BY <1>9, <3>2, <4>2, <4>5, <4>6 DEF mapping_for_local, i
    <3> QED
      BY <3>1, <3>2
  <2> QED
    BY <1>6, <1>7, <2>1, <2>2
<1> QED
  BY <1>8, <1>9

LEMMA MappingKeepsPromise ==
    ASSUME NEW zone, WellFormed(zone), NEW l \in Int
    PROVE  MappingPromise(zone, mapping_for_local(zone, l), l)
<1> DEFINE utc == zone.utc
           n == Len(utc)
<1>1. n \in Nat /\ n >= 1
  BY ZoneFacts
<1>2. PICK k \in 1 .. n :
        /\ k = 1 \/ Upper(utc, k) <= l
        /\ k = n \/ l < Upper(utc, k + 1)
        /\ k = n => mapping_for_local(zone, l) = Unique(utc[k].offset)
        /\ k # n => mapping_for_local(zone, l) = MappingAt(zone.local[k], l)
  BY MappingEntry
<1>3. CASE k # n
  <2>1. k \in 1 .. n - 1
    BY <1>1, <1>3
  <2> QED
    BY <1>2, <1>3, <2>1, MappingAtPromise
<1>4. CASE k = n
  <2> DEFINE o == utc[n].offset
  <2>3. n = 1 \/ utc[n].at <= l - o
    BY <1>1, <1>2, <1>4, LastSpanBegins
  <2>4. ValidAt(zone, l, o)
    <3>1. n \in 1 .. n
      BY <1>1
    <3> QED
      BY <2>3, <3>1, ValidInSpan
  <2> QED
    BY <1>2, <1>4, <2>4 DEF MappingPromise, Unique
<1> QED
  BY <1>3, <1>4

-----------------------------------------------------------------------------
\* A result that is not an error is in range, its offset is the zone's own, and
\* no error comes from an unwrapped None.
Sound(zone, r) ==
    /\ r.ok \in BOOLEAN
    /\ r.ok => r.offset \in Offsets /\ ValidIn(zone, r.secs, r.offset)
    /\ ~r.ok => r.err # "panic"

LEMMA AssumeOffsetSound ==
    ASSUME NEW zone, NEW l \in Epochs, NEW subsec, NEW o, ValidAt(zone, l, o)
    PROVE  Sound(zone, assume_offset(l, subsec, o))
BY DEF ValidAt, Sound, ValidIn, assume_offset, Ok, Err

PolicyKinds == Disambiguation \cup {"preserve"}

\* Whatever the policy, a local time resolved in a well-formed zone has an
\* offset that the zone has at the instant it stands for (resolve, local.rs);
\* "compatible" never moves a local time back.
THEOREM ResolveSound ==
    ASSUME NEW zone, WellFormed(zone), NEW l \in Epochs, NEW subsec,
           NEW policy, policy.kind \in PolicyKinds
    PROVE  LET r == resolve_in(zone, l, subsec, policy) IN
           /\ Sound(zone, r)
           /\ r.ok => r.subsec = subsec
           /\ r.ok /\ policy.kind = "compatible" => l <= r.secs
<1> DEFINE m == mapping_for_local(zone, l)
           r == resolve(m, l, subsec, policy)
<1>1. l \in Int /\ MappingPromise(zone, m, l)
  BY MappingKeepsPromise, RangeAssumption DEF Epochs
<1> SUFFICES /\ Sound(zone, r)
             /\ r.ok => r.subsec = subsec
             /\ r.ok /\ policy.kind = "compatible" => l <= r.secs
  BY DEF resolve_in
<1> HIDE DEF m
<1>2. ASSUME NEW o, ValidAt(zone, l, o), r = assume_offset(l, subsec, o)
      PROVE  Sound(zone, r) /\ (r.ok => r.subsec = subsec /\ l <= r.secs)
  <2>1. Sound(zone, r)
    BY <1>2, AssumeOffsetSound
  <2>2. r.ok => r.subsec = subsec /\ r.secs = l
    BY <1>2 DEF assume_offset, Ok, Err
  <2> HIDE DEF r
  <2> QED
    BY <1>1, <2>1, <2>2
<1>3. CASE m.kind \in {"unique", "fold"}
  <2>1. CASE m.kind = "unique"
    <3>1. r = assume_offset(l, subsec, m.offset) /\ ValidAt(zone, l, m.offset)
      BY <1>1, <2>1 DEF resolve, MappingPromise
    <3> QED
      BY <1>2, <3>1
  <2>2. CASE m.kind = "fold"
    <3>1. ValidAt(zone, l, m.before) /\ ValidAt(zone, l, m.after) /\ r = ResolveFold(m, l, subsec, policy)
      BY <1>1, <2>2 DEF resolve, MappingPromise
    <3>2. \/ \E o \in {m.before, m.after} : r = assume_offset(l, subsec, o)
          \/ r = Err("fold")
      BY <3>1 DEF ResolveFold, PolicyKinds, Disambiguation
    <3>3. CASE r = Err("fold")
      BY <3>3 DEF Err, Sound
    <3> QED
      BY <1>2, <3>1, <3>2, <3>3
  <2> QED
    BY <1>3, <2>1, <2>2
<1>4. CASE m.kind = "gap"
  <2>1. /\ ValidAt(zone, l + (m.after - m.before), m.after)
        /\ ValidAt(zone, l + (m.before - m.after), m.before)
        /\ m.before < m.after
        /\ r = ResolveGap(m, l, subsec, policy)
    BY <1>1, <1>4 DEF resolve, MappingPromise
  <2>2. m.before \in Int /\ m.after \in Int
    BY <2>1, RangeAssumption DEF ValidAt, Offsets
  <2>3. \/ r = ShiftThenAssume(l, subsec, m.before - m.after, m.before) /\ policy.kind # "compatible"
        \/ r = ShiftThenAssume(l, subsec, m.after - m.before, m.after)
        \/ r = Err("gap")
    BY <2>1 DEF ResolveGap, PolicyKinds, Disambiguation
  <2>4. ASSUME NEW d \in Int, NEW o, ValidAt(zone, l + d, o), r = ShiftThenAssume(l, subsec, d, o)
        PROVE  Sound(zone, r) /\ (r.ok => r.subsec = subsec /\ r.secs = l + d)
    BY <2>4, AssumeOffsetSound DEF ShiftThenAssume, assume_offset, Ok, Err, Sound
  <2>5. CASE r = ShiftThenAssume(l, subsec, m.before - m.after, m.before) /\ policy.kind # "compatible"
    BY <2>1, <2>2, <2>4, <2>5
  <2>6. CASE r = ShiftThenAssume(l, subsec, m.after - m.before, m.after)
    <3>1. m.after - m.before \in Int /\ l <= l + (m.after - m.before)
      BY <1>1, <2>1, <2>2
    <3> QED
      BY <2>1, <2>4, <2>6, <3>1
  <2>7. CASE r = Err("gap")
    BY <2>7 DEF Err, Sound
  <2> QED
    BY <2>3, <2>5, <2>6, <2>7
<1> QED
  BY <1>1, <1>3, <1>4 DEF MappingPromise

\* An instant seen in a well-formed zone gets the zone's own offset
\* (Instant::to_offset_in).
THEOREM ToOffsetSound ==
    ASSUME NEW zone, WellFormed(zone), NEW t \in Epochs, NEW subsec
    PROVE  LET r == to_offset_in(zone, t, subsec) IN
           Sound(zone, r) /\ (r.ok => r.subsec = subsec)
<1>1. offset_for_instant(zone, t) \in Offsets
  BY OffsetForInstantType
<1> DEFINE o == offset_for_instant(zone, t)
<1> HIDE DEF o
<1>2. t \in Int /\ o \in Int /\ (t + o) - o = t
  BY <1>1, RangeAssumption DEF Epochs, Offsets, o
<1>3. to_offset_in(zone, t, subsec) = IF t + o \in Epochs THEN Ok(t + o, subsec, o) ELSE Err("range")
  BY DEF to_offset_in, o
<1>4. ValidIn(zone, t + o, o) \/ t + o \notin Epochs
  BY <1>2 DEF ValidIn, o
<1> QED
  BY <1>1, <1>3, <1>4 DEF Sound, Ok, Err, o

-----------------------------------------------------------------------------
\* The instant t, in range or not, is in the i-th span.
InSpan(zone, i, t) ==
    /\ i = 1 \/ zone.utc[i].at <= t
    /\ i = Len(zone.utc) \/ t < zone.utc[i + 1].at

LEMMA UtcOrder ==
    ASSUME NEW zone, WellFormed(zone)
    PROVE  \A i, j \in 1 .. Len(zone.utc) : i < j => zone.utc[i].at < zone.utc[j].at
BY DEF WellFormed, WellFormedUtc

LEMMA OffsetInAnySpan ==
    ASSUME NEW zone, WellFormed(zone), NEW t \in Int,
           NEW i \in 1 .. Len(zone.utc), InSpan(zone, i, t)
    PROVE  offset_for_instant(zone, t) = zone.utc[i].offset
<1> DEFINE utc == zone.utc
<1>1. /\ Len(utc) \in Nat /\ Len(utc) >= 1
      /\ \A k \in 1 .. Len(utc) : utc[k].at \in Int
  BY ZoneFacts
<1>2. CASE t < utc[1].at
  <2>1. i = 1
    <3>1. i # 1 => utc[1].at < utc[i].at /\ utc[i].at <= t
      BY <1>1, UtcOrder DEF InSpan
    <3> QED
      BY <1>1, <1>2, <3>1
  <2>2. IsFirstAfter(utc, t, 1)
    BY <1>1, <1>2 DEF IsFirstAfter, Past
  <2>3. bisect(utc, t) = 1
    BY <1>1, <2>2, BisectUnique
  <2> QED
    BY <1>1, <2>1, <2>3 DEF offset_for_instant, Past, Larger
<1>3. CASE utc[1].at <= t
  <2>1. utc[i].at <= t
    BY <1>3 DEF InSpan
  <2>2. ASSUME NEW k \in 1 .. i PROVE utc[k].at <= t
    <3>1. k = i \/ utc[k].at < utc[i].at
      BY <1>1, UtcOrder
    <3> QED
      BY <2>1, <3>1, <1>1
  <2>3. IsFirstAfter(utc, t, i + 1)
    BY <1>1, <2>2 DEF IsFirstAfter, Past, InSpan
  <2>4. bisect(utc, t) = i + 1
    BY <1>1, <2>3, BisectUnique
  <2>5. CASE i < Len(utc)
    BY <1>1, <2>4, <2>5 DEF offset_for_instant, Past, Larger
  <2>6. CASE i = Len(utc)
    <3>1. zone.end = <<>> \/ zone.end = <<utc[i].offset>>
      BY <2>6 DEF WellFormed, Final
    <3> QED
      BY <2>4, <2>6, <3>1 DEF offset_for_instant, Past, Final
  <2> QED
    BY <1>1, <2>5, <2>6
<1> QED
  BY <1>1, <1>2, <1>3

LEMMA SomeSpan ==
    ASSUME NEW zone, WellFormed(zone), NEW t \in Int
    PROVE  \E i \in 1 .. Len(zone.utc) : InSpan(zone, i, t)
<1> DEFINE utc == zone.utc
           r == bisect(utc, t)
<1>1. /\ Len(utc) \in Nat /\ Len(utc) >= 1
      /\ \A k \in 1 .. Len(utc) : utc[k].at \in Int
  BY ZoneFacts
<1>2. IsFirstAfter(utc, t, r)
  BY <1>1, BisectFinds
<1> HIDE DEF r, utc
<1>3. r \in 1 .. Len(utc) + 1
  BY <1>2 DEF IsFirstAfter, Past
<1>4. CASE r = 1
  <2>1. t < utc[1].at
    BY <1>1, <1>2, <1>4 DEF IsFirstAfter, Past
  <2>2. Len(utc) = 1 \/ t < utc[2].at
    <3>1. Len(utc) # 1 => 1 \in 1 .. Len(utc) /\ 2 \in 1 .. Len(utc)
      BY <1>1
    <3>2. Len(utc) # 1 => utc[1].at < utc[2].at /\ utc[2].at \in Int /\ utc[1].at \in Int
      BY <1>1, <3>1, UtcOrder DEF utc
    <3> QED
      BY <1>1, <2>1, <3>2
  <2>3. InSpan(zone, 1, t) /\ 1 \in 1 .. Len(utc)
    BY <1>1, <2>2 DEF InSpan, utc
  <2> QED
    BY <2>3 DEF utc
<1>5. CASE r # 1
  <2>1. r - 1 \in 1 .. Len(utc) /\ r = (r - 1) + 1 /\ r - 1 \in 1 .. r - 1
    BY <1>1, <1>3, <1>5
  <2>2. utc[r - 1].at <= t /\ (r - 1 = Len(utc) \/ t < utc[(r - 1) + 1].at)
    BY <1>1, <1>2, <2>1 DEF IsFirstAfter, Past
  <2>3. InSpan(zone, r - 1, t)
    BY <2>2 DEF InSpan, utc
  <2> QED
    BY <2>1, <2>3 DEF utc
<1> QED
  BY <1>4, <1>5

\* The offsets that map some instant to the local time l.
OffsetsLeadingTo(zone, l) == {o \in Offsets : offset_for_instant(zone, l - o) = o}

LEMMA LeadingToIsInSpan ==
    ASSUME NEW zone, WellFormed(zone), NEW l \in Int, NEW o
    PROVE  o \in OffsetsLeadingTo(zone, l) <=>
                \E i \in 1 .. Len(zone.utc) : zone.utc[i].offset = o /\ InSpan(zone, i, l - o)
<1>1. ASSUME o \in OffsetsLeadingTo(zone, l)
      PROVE  \E i \in 1 .. Len(zone.utc) : zone.utc[i].offset = o /\ InSpan(zone, i, l - o)
  <2>1. l - o \in Int /\ offset_for_instant(zone, l - o) = o
    BY <1>1, RangeAssumption DEF OffsetsLeadingTo, Offsets
  <2>2. PICK i \in 1 .. Len(zone.utc) : InSpan(zone, i, l - o)
    BY <2>1, SomeSpan
  <2>3. zone.utc[i].offset = o
    BY <2>1, <2>2, OffsetInAnySpan
  <2> QED
    BY <2>2, <2>3
<1>2. ASSUME NEW i \in 1 .. Len(zone.utc), zone.utc[i].offset = o, InSpan(zone, i, l - o)
      PROVE  o \in OffsetsLeadingTo(zone, l)
  <2>1. o \in Offsets /\ l - o \in Int
    BY <1>2, ZoneFacts
  <2>2. offset_for_instant(zone, l - o) = o
    BY <1>2, <2>1, OffsetInAnySpan
  <2> QED
    BY <2>1, <2>2 DEF OffsetsLeadingTo
<1> QED
  BY <1>1, <1>2

\* What can be said of the local times around each transition.
LEMMA LocalOrder ==
    ASSUME NEW zone, WellFormed(zone)
    PROVE  /\ \A i \in 2 .. Len(zone.utc) :
                /\ Upper(zone.utc, i) \in Int /\ Lower(zone.utc, i) \in Int
                /\ Lower(zone.utc, i) <= zone.utc[i].at + zone.utc[i].offset
                /\ zone.utc[i].at + zone.utc[i].offset <= Upper(zone.utc, i)
                /\ Lower(zone.utc, i) <= zone.utc[i].at + zone.utc[i - 1].offset
                /\ zone.utc[i].at + zone.utc[i - 1].offset <= Upper(zone.utc, i)
           /\ \A i, j \in 2 .. Len(zone.utc) : i < j => Upper(zone.utc, i) <= Lower(zone.utc, j)
           /\ \A i, j \in 2 .. Len(zone.utc) : i < j => Upper(zone.utc, i) <= Upper(zone.utc, j)
<1> DEFINE utc == zone.utc
<1>0. Len(utc) \in Nat
  BY ZoneFacts
<1>1. ASSUME NEW i \in 2 .. Len(utc)
      PROVE  /\ Upper(utc, i) \in Int /\ Lower(utc, i) \in Int /\ Lower(utc, i) <= Upper(utc, i)
             /\ Lower(utc, i) <= utc[i].at + utc[i].offset /\ utc[i].at + utc[i].offset <= Upper(utc, i)
             /\ Lower(utc, i) <= utc[i].at + utc[i - 1].offset
             /\ utc[i].at + utc[i - 1].offset <= Upper(utc, i)
  <2>1. i \in 1 .. Len(utc) /\ i - 1 \in 1 .. Len(utc)
    BY <1>0
  <2>2. utc[i].at \in Int /\ utc[i].offset \in Int /\ utc[i - 1].offset \in Int
    BY <2>1, ZoneFacts
  <2> QED
    BY <2>2, SMTT(40) DEF Upper, Lower, Larger, Smaller
<1>2. \A i, j \in 2 .. Len(utc) : i < j => Upper(utc, i) <= Lower(utc, j)
  BY DEF WellFormed, WellFormedUtc
<1> HIDE DEF utc
<1>3. \A i, j \in 2 .. Len(utc) : i < j => Upper(utc, i) <= Upper(utc, j)
  BY <1>1, <1>2
<1> QED
  BY <1>1, <1>2, <1>3 DEF utc

\* Only the two spans around an entry of the local table can hold the local
\* times before it.
LEMMA SpansAround ==
    ASSUME NEW zone, WellFormed(zone), NEW l \in Int,
           NEW k \in 1 .. Len(zone.utc),
           k = 1 \/ Upper(zone.utc, k) <= l,
           k = Len(zone.utc) \/ l < Upper(zone.utc, k + 1),
           NEW i \in 1 .. Len(zone.utc), InSpan(zone, i, l - zone.utc[i].offset)
    PROVE  i = k \/ i = k + 1
<1> DEFINE utc == zone.utc
           n == Len(utc)
<1>0. n \in Nat /\ utc[i].offset \in Int /\ \A j \in 1 .. n : utc[j].at \in Int
  BY ZoneFacts
<1>1. ASSUME i < k PROVE FALSE
  <2>1. i + 1 \in 2 .. n /\ k \in 2 .. n /\ (i + 1 = k \/ i + 1 < k) /\ (i + 1) - 1 = i /\ i # n /\ k # 1
    BY <1>0, <1>1
  <2>2. l - utc[i].offset < utc[i + 1].at
    BY <2>1 DEF InSpan
  <2>3. utc[i + 1].at + utc[(i + 1) - 1].offset <= Upper(utc, i + 1) /\ Upper(utc, i + 1) \in Int
    BY <2>1, LocalOrder
  <2>4. Upper(utc, i + 1) <= Upper(utc, k)
    BY <2>1, <2>3, LocalOrder
  <2>5. Upper(utc, k) <= l /\ Upper(utc, k) \in Int /\ utc[i + 1].at \in Int
    BY <1>0, <2>1, LocalOrder
  <2>6. utc[(i + 1) - 1] = utc[i]
    BY <2>1
  <2> HIDE DEF utc, n
  <2> QED
    BY <1>0, <2>2, <2>3, <2>4, <2>5, <2>6
<1>2. ASSUME i > k + 1 PROVE FALSE
  <2>1. i \in 2 .. n /\ k + 1 \in 2 .. n /\ k + 1 < i /\ i # 1 /\ k # n
    BY <1>0, <1>2
  <2>2. utc[i].at <= l - utc[i].offset
    BY <2>1 DEF InSpan
  <2>3. Lower(utc, i) <= utc[i].at + utc[i].offset /\ Lower(utc, i) \in Int
    BY <2>1, LocalOrder
  <2>4. Upper(utc, k + 1) <= Lower(utc, i) /\ Upper(utc, k + 1) \in Int
    BY <2>1, LocalOrder
  <2>5. l < Upper(utc, k + 1) /\ utc[i].at \in Int
    BY <1>0, <2>1
  <2> HIDE DEF utc, n
  <2> QED
    BY <1>0, <2>2, <2>3, <2>4, <2>5
<1> QED
  BY <1>0, <1>1, <1>2

\* mapping_for_local is the inverse of offset_for_instant.
Inverts(m, offsets) ==
    CASE m.kind = "unique" -> offsets = {m.offset}
      [] m.kind = "fold" -> offsets = {m.before, m.after} /\ m.before > m.after
      [] m.kind = "gap" -> offsets = {} /\ m.before < m.after
      [] m.kind = "panic" -> FALSE

\* Span k holds l up to the next transition, span k + 1 from that on.
LEMMA HeldBy ==
    ASSUME NEW zone, WellFormed(zone), NEW l \in Int,
           NEW k \in 1 .. Len(zone.utc) - 1,
           k = 1 \/ Upper(zone.utc, k) <= l,
           l < Upper(zone.utc, k + 1)
    PROVE  /\ InSpan(zone, k, l - zone.utc[k].offset)
                <=> l < zone.utc[k + 1].at + zone.utc[k].offset
           /\ InSpan(zone, k + 1, l - zone.utc[k + 1].offset)
                <=> zone.utc[k + 1].at + zone.utc[k + 1].offset <= l
<1> DEFINE utc == zone.utc
           n == Len(utc)
           b == utc[k].offset
           a == utc[k + 1].offset
           t == utc[k + 1].at
<1>0. /\ n \in Nat /\ k \in 1 .. n /\ k + 1 \in 2 .. n /\ k + 1 \in 1 .. n /\ k # n /\ k + 1 # 1
      /\ a \in Int /\ b \in Int /\ t \in Int
  BY ZoneFacts
<1>1. k = 1 \/ (utc[k].at <= l - b /\ utc[k].at \in Int)
  <2>1. CASE k # 1
    <3>1. k \in 2 .. n
      BY <1>0, <2>1
    <3>2. utc[k].at + b <= Upper(utc, k) /\ Upper(utc, k) \in Int /\ utc[k].at \in Int
      BY <1>0, <3>1, LocalOrder, ZoneFacts
    <3>3. Upper(utc, k) <= l
      BY <2>1
    <3> HIDE DEF utc, b
    <3> QED
      BY <1>0, <3>2, <3>3
  <2> QED
    BY <2>1
<1>2. k + 1 = n \/ l - a < utc[(k + 1) + 1].at
  <2>1. CASE k + 1 # n
    <3>1. k + 2 \in 2 .. n /\ k + 2 \in 1 .. n /\ (k + 2) - 1 = k + 1 /\ (k + 1) + 1 = k + 2 /\ k + 1 < k + 2
      BY <1>0, <2>1
    <3>2. Upper(utc, k + 1) <= Lower(utc, k + 2)
      BY <1>0, <3>1, LocalOrder
    <3>3. Upper(utc, k + 1) \in Int /\ Lower(utc, k + 2) \in Int /\ utc[k + 2].at \in Int
      BY <1>0, <3>1, LocalOrder, ZoneFacts
    <3>4. Lower(utc, k + 2) <= utc[k + 2].at + utc[(k + 2) - 1].offset
      BY <3>1, LocalOrder
    <3>5. Lower(utc, k + 2) <= utc[k + 2].at + a
      BY <3>1, <3>4
    <3>6. l < Upper(utc, k + 1)
      OBVIOUS
    <3> DEFINE z == utc[k + 2].at
    <3> HIDE DEF utc, a
    <3>7. l - a < z
      <4> HIDE DEF z
      <4> QED
        BY <1>0, <3>2, <3>3, <3>5, <3>6 DEF z
    <3> QED
      BY <3>1, <3>7
  <2> QED
    BY <2>1
<1>3. InSpan(zone, k, l - b) <=> l - b < t
  BY <1>0, <1>1 DEF InSpan
<1>4. InSpan(zone, k + 1, l - a) <=> t <= l - a
  BY <1>0, <1>2 DEF InSpan
<1> HIDE DEF a, b, t, utc
<1>5. (l - b < t <=> l < t + b) /\ (t <= l - a <=> t + a <= l)
  BY <1>0
<1> QED
  BY <1>3, <1>4, <1>5 DEF a, b, t, utc

\* In a well-formed zone mapping_for_local is the inverse of
\* offset_for_instant: a unique answer is the only offset that leads to the
\* local time, a fold names both that do, and in a gap there is none.
THEOREM MappingIsInverse ==
    ASSUME NEW zone, WellFormed(zone), NEW l \in Int
    PROVE  Inverts(mapping_for_local(zone, l), OffsetsLeadingTo(zone, l))
<1> DEFINE utc == zone.utc
           n == Len(utc)
           m == mapping_for_local(zone, l)
           R == OffsetsLeadingTo(zone, l)
<1>0. n \in Nat /\ n >= 1
  BY ZoneFacts
<1>1. PICK k \in 1 .. n :
        /\ k = 1 \/ Upper(utc, k) <= l
        /\ k = n \/ l < Upper(utc, k + 1)
        /\ k = n => m = Unique(utc[n].offset)
        /\ k # n => m = MappingAt(zone.local[k], l)
  BY MappingEntry
<1>2. \A o : o \in R <=> \E i \in {k, k + 1} : i \in 1 .. n /\ utc[i].offset = o /\ InSpan(zone, i, l - o)
  BY <1>1, LeadingToIsInSpan, SpansAround
<1>3. CASE k = n
  <2>1. InSpan(zone, n, l - utc[n].offset)
    BY <1>1, <1>3, LastSpanBegins DEF InSpan
  <2>2. R = {utc[n].offset}
    <3>1. utc[n].offset \in R
      BY <1>0, <1>2, <1>3, <2>1
    <3>2. \A o \in R : o = utc[n].offset
      BY <1>0, <1>2, <1>3
    <3> QED
      BY <3>1, <3>2
  <2>3. m.kind = "unique" /\ m.offset = utc[n].offset
    BY <1>1, <1>3 DEF Unique
  <2> HIDE DEF m, R, utc, n
  <2>4. Inverts(m, R)
    BY <2>2, <2>3 DEF Inverts
  <2> QED
    BY <2>4 DEF m, R
<1>4. CASE k # n
  <2> DEFINE b == utc[k].offset
             a == utc[k + 1].offset
             t == utc[k + 1].at
             e == zone.local[k]
  <2>0. k \in 1 .. n - 1 /\ k + 1 \in 2 .. n /\ k + 1 \in 1 .. n /\ (k + 1) - 1 = k
    BY <1>0, <1>4
  <2>1. a \in Int /\ b \in Int /\ t \in Int
    BY <1>0, <2>0, ZoneFacts
  <2>2. /\ \A o : o \in R <=> (o = b /\ l < t + b) \/ (o = a /\ t + a <= l)
    <3>1. /\ InSpan(zone, k, l - b) <=> l < t + b
          /\ InSpan(zone, k + 1, l - a) <=> t + a <= l
      BY <1>1, <1>4, <2>0, HeldBy
    <3>2. \A o : o \in R <=> (o = b /\ InSpan(zone, k, l - b)) \/ (o = a /\ InSpan(zone, k + 1, l - a))
      BY <1>2, <2>0
    <3> QED
      BY <3>1, <3>2
  <2>3. Upper(utc, k + 1) = t + Larger(b, a) /\ Lower(utc, k + 1) = t + Smaller(b, a)
    <3> HIDE DEF utc
    <3> QED
      BY <2>0 DEF Upper, Lower
  <2>4. e.offset = b /\ e.change = a - b /\ clamp(e.at - Abs(e.change)) = t + Smaller(b, a)
    BY <2>0, <2>3, ZoneFacts
  <2>5. l < t + Larger(b, a) /\ m = MappingAt(e, l)
    BY <1>1, <1>4, <2>3
  <2> HIDE DEF a, b, t, e, m, R, utc, n
  <2>6. \/ m.kind = "unique" /\ m.offset = b /\ R = {b}
        \/ m.kind = "fold" /\ m.before = b /\ m.after = a /\ a < b /\ R = {a, b}
        \/ m.kind = "gap" /\ m.before = b /\ m.after = a /\ b < a /\ R = {}
    <3>1. CASE l < t + Smaller(b, a) \/ a = b
      <4>1. m = Unique(b)
        BY <2>1, <2>4, <2>5, <3>1 DEF MappingAt
      <4>2. l < t + b /\ (t + a <= l => a = b)
        BY <2>1, <2>5, <3>1 DEF Larger, Smaller
      <4> QED
        BY <2>2, <4>1, <4>2 DEF Unique
    <3>2. CASE ~(l < t + Smaller(b, a)) /\ a < b
      <4>1. m = Fold(e.at, b, a)
        BY <2>1, <2>4, <2>5, <3>2 DEF MappingAt
      <4>2. l < t + b /\ t + a <= l
        BY <2>1, <2>5, <3>2 DEF Larger, Smaller
      <4> QED
        BY <2>2, <3>2, <4>1, <4>2 DEF Fold
    <3>3. CASE ~(l < t + Smaller(b, a)) /\ b < a
      <4>1. m = Gap(e.at, b, a)
        BY <2>1, <2>4, <2>5, <3>3 DEF MappingAt
      <4>2. ~(l < t + b) /\ ~(t + a <= l)
        BY <2>1, <2>5, <3>3 DEF Larger, Smaller
      <4> QED
        BY <2>2, <3>3, <4>1, <4>2 DEF Gap
    <3> QED
      BY <2>1, <3>1, <3>2, <3>3
  <2> QED
    BY <2>1, <2>6 DEF Inverts, m, R
<1> QED
  BY <1>3, <1>4
=============================================================================
