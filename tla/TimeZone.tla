------------------------------ MODULE TimeZone ------------------------------
(***************************************************************************)
(* A timezone as src/tz/tzif.rs keeps it in memory, and the conversions    *)
(* between instants and local times that every zone-aware class rests on.  *)
(*                                                                         *)
(* A zone is a record                                                      *)
(*   utc    the transitions by instant: "from at onwards, the offset is",  *)
(*          with the metadata that meta_by_utc keeps at the same index;    *)
(*          entry 1 is the sentinel at the start of time                   *)
(*   local  the transitions by local time: "until at the offset is", and   *)
(*          how much it changes there                                      *)
(*   end    the POSIX TZ string that takes over after the last transition, *)
(*          as an option: <<>>, or <<std>> for a string without DST rules  *)
(* Times are whole seconds.  An index past the end of a table is the None  *)
(* of the code.                                                            *)
(***************************************************************************)
EXTENDS Integers, Sequences

CONSTANTS
    EpochMin,      \* EpochSecs::MIN, 0001-01-01T00:00:00
    EpochMax,      \* EpochSecs::MAX, 9999-12-31T23:59:59
    OffsetMax      \* Offset::MAX, one second less than a day

ASSUME RangeAssumption ==
    /\ EpochMin \in Int /\ EpochMax \in Int /\ EpochMin < EpochMax
    /\ OffsetMax \in Nat

Epochs == EpochMin .. EpochMax
Offsets == -OffsetMax .. OffsetMax

Smaller(a, b) == IF a <= b THEN a ELSE b
Larger(a, b) == IF a <= b THEN b ELSE a
Abs(a) == IF a < 0 THEN -a ELSE a

clamp(t) == Larger(EpochMin, Smaller(EpochMax, t))

(***************************************************************************)
(* bisect: the first entry that lies after x, or None.  Module Bisect      *)
(* models the loop and shows that this is what it returns.                 *)
(***************************************************************************)
Past(arr) == Len(arr) + 1

IsFirstAfter(arr, x, r) ==
    /\ r \in 1 .. Past(arr)
    /\ \A i \in 1 .. r - 1 : arr[i].at <= x
    /\ r # Past(arr) => x < arr[r].at

bisect(arr, x) == CHOOSE r \in 1 .. Past(arr) : IsFirstAfter(arr, x, r)

\* The number of entries strictly before t (slice::partition_point); times are
\* whole seconds.
partition_point(arr, t) == bisect(arr, t - 1) - 1

-----------------------------------------------------------------------------
(***************************************************************************)
(* Loading.  A TZif body gives the transition times, for each of them the  *)
(* index of a type (1-based here), and the types.                          *)
(***************************************************************************)

LastStdAny(file, i) ==     \* mutant: the previous type, DST or not
    IF i = 1 THEN file.types[1].offset ELSE file.types[file.indices[i - 1]].offset

\* The standard offset that a DST type is measured against: that of the last
\* transition to standard time, and before the first one that of the first
\* standard type any transition uses.
LastStd(file, i) ==
    LET std == {j \in DOMAIN file.indices : ~file.types[file.indices[j]].isdst}
        before == {j \in std : j < i}
        pick == IF before # {} THEN CHOOSE j \in before : \A k \in before : k <= j
                               ELSE CHOOSE j \in std : \A k \in std : j <= k
    IN  IF std = {} THEN file.types[1].offset ELSE file.types[file.indices[pick]].offset

load_transitions(file) ==
    <<[at |-> EpochMin, offset |-> file.types[1].offset, dst_saving |-> 0]>> \o
    [i \in 1 .. Len(file.indices) |->
        LET type == file.types[file.indices[i]] IN
        [at |-> clamp(file.times[i]),
         offset |-> type.offset,
         dst_saving |-> IF type.isdst THEN type.offset - LastStd(file, i) ELSE 0]]

local_transitions(utc) ==
    [i \in 1 .. Len(utc) - 1 |->
        [at |-> clamp(utc[i + 1].at + Larger(utc[i].offset, utc[i + 1].offset)),
         offset |-> utc[i].offset,
         change |-> utc[i + 1].offset - utc[i].offset]]

\* The body of a file of version 2 and up is followed by a POSIX TZ string.  No
\* types, a type index beyond them, and a file without any data are refused;
\* the latter is judged by the table that has the sentinel.
parse_content_ok(file) ==
    /\ file.types # <<>>
    /\ \A i \in DOMAIN file.indices : file.indices[i] \in DOMAIN file.types
    /\ file.end # <<>> \/ load_transitions(file) # <<>>

parse_content(file) ==
    [utc |-> load_transitions(file),
     local |-> local_transitions(load_transitions(file)),
     end |-> file.end]

-----------------------------------------------------------------------------
(***************************************************************************)
(* Lookups.                                                                *)
(***************************************************************************)
Final(s) == s[Len(s)]

offset_for_instant(zone, t) ==
    LET i == bisect(zone.utc, t) IN
    IF i # Past(zone.utc) THEN zone.utc[Larger(1, i - 1)].offset
    ELSE IF zone.end # <<>> THEN zone.end[1]
    ELSE Final(zone.utc).offset

\* After the last transition the POSIX string knows no DST.
dst_saving_for_instant(zone, t) ==
    LET i == bisect(zone.utc, t) IN
    IF i # Past(zone.utc) THEN zone.utc[Larger(1, i - 1)].dst_saving
    ELSE IF zone.end # <<>> THEN 0
    ELSE Final(zone.utc).dst_saving

Unique(o) == [kind |-> "unique", offset |-> o]
Gap(t, b, a) == [kind |-> "gap", transition |-> t, before |-> b, after |-> a]
Fold(t, b, a) == [kind |-> "fold", transition |-> t, before |-> b, after |-> a]
Panic == [kind |-> "panic"]     \* unwrap() of None

MappingAtOffByOne(e, t) ==     \* mutant: the region begins a second late
    IF t <= clamp(e.at - Abs(e.change)) \/ e.change = 0 THEN Unique(e.offset)
    ELSE IF e.change < 0 THEN Fold(e.at, e.offset, e.offset + e.change)
    ELSE Gap(e.at, e.offset, e.offset + e.change)

\* What a local time before entry e means.
MappingAt(e, t) ==
    IF t < clamp(e.at - Abs(e.change)) \/ e.change = 0 THEN Unique(e.offset)
    ELSE IF e.change < 0 THEN Fold(e.at, e.offset, e.offset + e.change)
    ELSE Gap(e.at, e.offset, e.offset + e.change)

mapping_for_local(zone, t) ==
    LET i == bisect(zone.local, t) IN
    IF i # Past(zone.local) THEN MappingAt(zone.local[i], t)
    ELSE IF zone.end # <<>> THEN Unique(zone.end[1])
    ELSE IF zone.local = <<>> THEN Panic
    ELSE Unique(Final(zone.local).offset + Final(zone.local).change)

\* The index in zone.utc of the next transition strictly after t; None past it.
next_transition(zone, t) == bisect(zone.utc, t)

\* The index in zone.utc of the last transition strictly before t, 1 (the
\* sentinel) for None.  A POSIX string without DST has no transitions to offer.
prev_transition(zone, t) ==
    LET idx == partition_point(zone.utc, t) IN
    IF idx > 1 THEN idx ELSE 1

-----------------------------------------------------------------------------
(***************************************************************************)
(* Resolving a local time in a zone (src/domain/local.rs).  A local time   *)
(* has whole seconds and a sub-second part that no zone touches.           *)
(***************************************************************************)
Ok(secs, subsec, offset) == [ok |-> TRUE, secs |-> secs, subsec |-> subsec, offset |-> offset]
Err(e) == [ok |-> FALSE, err |-> e]

Disambiguation == {"compatible", "earlier", "later", "raise"}
Disambiguate(d) == [kind |-> d]
PreserveOffset(o) == [kind |-> "preserve", offset |-> o]

assume_offset(secs, subsec, offset) ==
    IF secs - offset \in Epochs THEN Ok(secs, subsec, offset) ELSE Err("range")

\* PlainDateTime::shift_by_offset and then assume_offset
ShiftThenAssume(secs, subsec, shift, offset) ==
    IF secs + shift \in Epochs THEN assume_offset(secs + shift, subsec, offset) ELSE Err("range")

ResolveFoldTrusting(m, secs, subsec, policy) ==     \* mutant: any offset is preserved
    CASE policy.kind \in {"earlier", "compatible"} -> assume_offset(secs, subsec, m.before)
      [] policy.kind = "later" -> assume_offset(secs, subsec, m.after)
      [] policy.kind = "raise" -> Err("fold")
      [] policy.kind = "preserve" -> assume_offset(secs, subsec, policy.offset)

ResolveFold(m, secs, subsec, policy) ==
    CASE policy.kind \in {"earlier", "compatible"} -> assume_offset(secs, subsec, m.before)
      [] policy.kind = "later" -> assume_offset(secs, subsec, m.after)
      [] policy.kind = "raise" -> Err("fold")
      [] policy.kind = "preserve" ->
            assume_offset(secs, subsec, IF policy.offset = m.after THEN m.after ELSE m.before)

ResolveGap(m, secs, subsec, policy) ==
    CASE policy.kind = "earlier" -> ShiftThenAssume(secs, subsec, m.before - m.after, m.before)
      [] policy.kind = "raise" -> Err("gap")
      [] policy.kind \in {"compatible", "later", "preserve"} ->
            ShiftThenAssume(secs, subsec, m.after - m.before, m.after)

resolve(m, secs, subsec, policy) ==
    CASE m.kind = "unique" -> assume_offset(secs, subsec, m.offset)
      [] m.kind = "fold" -> ResolveFold(m, secs, subsec, policy)
      [] m.kind = "gap" -> ResolveGap(m, secs, subsec, policy)
      [] m.kind = "panic" -> Err("panic")

resolve_in(zone, secs, subsec, policy) ==
    resolve(mapping_for_local(zone, secs), secs, subsec, policy)

\* Instant::to_offset_in
to_offset_in(zone, epoch, subsec) ==
    LET offset == offset_for_instant(zone, epoch) IN
    IF epoch + offset \in Epochs THEN Ok(epoch + offset, subsec, offset) ELSE Err("range")

-----------------------------------------------------------------------------
(***************************************************************************)
(* What the code takes for granted about the zones of the tz database:     *)
(* the transitions are in order and away from the ends of time, one gap or *)
(* fold is over before the next one begins, and no offset is in force for  *)
(* less time than the change that led to it or ends it (resolve moves a    *)
(* time in a gap by the size of the gap, and must not meet a further       *)
(* transition on the way).                                                 *)
(***************************************************************************)
Lower(utc, i) == utc[i].at + Smaller(utc[i - 1].offset, utc[i].offset)
Upper(utc, i) == utc[i].at + Larger(utc[i - 1].offset, utc[i].offset)

Change(utc, i) == Abs(utc[i].offset - utc[i - 1].offset)

WellFormedUtc(utc) ==
    /\ utc \in Seq([at : Epochs, offset : Offsets, dst_saving : Int])
    /\ Len(utc) >= 1
    /\ utc[1].at = EpochMin
    /\ \A i, j \in 1 .. Len(utc) : i < j => utc[i].at < utc[j].at
    /\ \A i, j \in 2 .. Len(utc) : i < j => Upper(utc, i) <= Lower(utc, j)
    /\ \A i \in 2 .. Len(utc), j \in 2 .. Len(utc) :
            j = i + 1 => /\ utc[j].at - utc[i].at >= Change(utc, i)
                         /\ utc[j].at - utc[i].at >= Change(utc, j)
    /\ \A i \in 2 .. Len(utc) : EpochMin < Lower(utc, i) /\ Upper(utc, i) <= EpochMax

WellFormed(zone) ==
    /\ WellFormedUtc(zone.utc)
    /\ zone.local = local_transitions(zone.utc)
    /\ \/ zone.end = <<>> /\ Len(zone.utc) >= 2
       \/ zone.end = <<Final(zone.utc).offset>>

\* The offset is the one the zone really has at the instant it gives.
ValidIn(zone, secs, offset) ==
    /\ secs \in Epochs
    /\ secs - offset \in Epochs
    /\ offset_for_instant(zone, secs - offset) = offset
=============================================================================
