----------------------------- MODULE MCTimeZone -----------------------------
(***************************************************************************)
(* Loading every small TZif file, and asking the zone about every instant  *)
(* and every local time there is; and the loop of bisect on every sorted   *)
(* table of up to MaxLen entries, repeated times included.  A behaviour    *)
(* is either: the loop rests in the behaviours that load a file.           *)
(***************************************************************************)
EXTENDS Bisect, FiniteSets, TLC

CONSTANTS
    Times,           \* the transition times that files use
    MaxTransitions,  \* the bound on the transitions of a file
    TypeOffsets,     \* the offsets of the types of a file
    Versions,        \* 1: no POSIX string follows; 2: one does
    MaxLen,          \* the bound on the length of a table that is searched
    EntryTimes       \* the times of the entries of such a table

ASSUME TransitionsAssumption == MaxTransitions \in Nat

MCTypeOffsets == {-2, 0, 1}

MCTables ==
    UNION {{[i \in 1 .. n |-> [at |-> f[i]]] :
                f \in {g \in [1 .. n -> EntryTimes] : \A i \in 1 .. n - 1 : g[i] <= g[i + 1]}} :
           n \in 0 .. MaxLen}

VARIABLES file, zone
mcVars == <<file, zone, bisectVars>>

NoFile == [times |-> <<>>, indices |-> <<>>, types |-> <<>>, end |-> <<>>]
Unloaded == [utc |-> <<>>, local |-> <<>>, end |-> <<0>>]

Increasing(n) == {s \in [1 .. n -> Times] : \A i, j \in 1 .. n : i < j => s[i] < s[j]}

\* Type 1 is standard time; the others are DST or another standard time.
Files(n) ==
    {[times |-> ts, indices |-> ix, types |-> <<[offset |-> a, isdst |-> FALSE],
                                               [offset |-> b, isdst |-> TRUE],
                                               [offset |-> c, isdst |-> FALSE]>>, end |-> <<>>] :
        ts \in Increasing(n), ix \in [1 .. n -> 1 .. 3],
        a \in TypeOffsets, b \in TypeOffsets, c \in TypeOffsets}

\* zic writes a string that continues the last transition.
WithEnd(f, v) ==
    IF v = 1 THEN f
    ELSE [f EXCEPT !.end = <<f.types[IF f.indices = <<>> THEN 1 ELSE Final(f.indices)].offset>>]

InitFile ==
    /\ \E n \in 0 .. MaxTransitions, v \in Versions :
            file \in {WithEnd(f, v) : f \in Files(n)}
    /\ WellFormed(parse_content(file))
    /\ arr = <<>> /\ x = 0 /\ size = 0 /\ left = 0 /\ right = 0 /\ result = Past(arr)

MCInit ==
    /\ zone = Unloaded
    /\ \/ InitFile
       \/ file = NoFile /\ StartSearch

Load ==
    /\ file # NoFile /\ zone = Unloaded
    /\ parse_content_ok(file)
    /\ zone' = parse_content(file)
    /\ UNCHANGED <<file, bisectVars>>

Search == Iterate /\ UNCHANGED <<file, zone>>

MCSpec == MCInit /\ [][Load \/ Search]_mcVars /\ WF_mcVars(Search)

Loaded == zone # Unloaded

-----------------------------------------------------------------------------
\* The offsets that really map some instant to the local time l, with no
\* limit on the instant.
RealOffsets(l) == {o \in Offsets : offset_for_instant(zone, l - o) = o}

\* mapping_for_local is the inverse of offset_for_instant: a unique answer is
\* the only offset that leads to this local time, a fold names both (the
\* earlier instant first), and a gap is a local time that no instant has.
MappingInvertsOffset ==
    Loaded => \A l \in Epochs :
        LET m == mapping_for_local(zone, l) IN
        CASE m.kind = "unique" -> RealOffsets(l) = {m.offset}
          [] m.kind = "fold" -> RealOffsets(l) = {m.before, m.after} /\ m.before > m.after
          [] m.kind = "gap" -> RealOffsets(l) = {} /\ m.before < m.after
          [] m.kind = "panic" -> FALSE

\* The DST saving of an instant leads back to a standard offset of the zone:
\* also before its first transition to standard time.
SavingLeadsToStandard ==
    Loaded => \A t \in Epochs :
        t < Final(zone.utc).at =>
            offset_for_instant(zone, t) - dst_saving_for_instant(zone, t)
                \in {file.types[i].offset : i \in {j \in DOMAIN file.types : ~file.types[j].isdst}}
=============================================================================
