------------------------------ MODULE TzCache ------------------------------
(***************************************************************************)
(* The timezone cache of the Rust extension (struct Cache of               *)
(* src/src/tz/store.rs): a table of weak references from TZ IDs to         *)
(* TimeZone objects, and an LRU list of strong references that keeps the   *)
(* most recently used zones alive.                                         *)
(*                                                                         *)
(* Every block run under SyncCell::with_mut is one atomic step (a mutex in *)
(* free-threaded builds, the GIL otherwise).  get_or_insert_with takes the *)
(* lock twice and loads the zone in between without it, so lookups of      *)
(* several threads, evictions, drops and clears interleave with the load.  *)
(*                                                                         *)
(* An Arc is an object identity.  Its reference count is not stored: an    *)
(* object is alive exactly while some strong reference to it exists.  The  *)
(* memory of a dead object that a Weak still points to is not reused (the  *)
(* weak count keeps the allocation), so Fresh demands both.                *)
(***************************************************************************)
EXTENDS Naturals, Sequences

CONSTANTS
    Thread,         \* threads calling into the extension
    Key,            \* TZ IDs
    Obj,            \* identities of Arc<TimeZone> allocations
    LRU_CAPACITY,   \* the constant of that name (8 in the code)
    None            \* the absent value of an Option

ASSUME CapacityAssumption == LRU_CAPACITY \in Nat \ {0}
ASSUME NoneAssumption == None \notin Obj /\ None \notin Key

VARIABLES
    lookup,     \* CacheInner.lookup: TZ ID -> Weak<TimeZone>, or None
    lru,        \* CacheInner.lru: strong references, most recent first
    key,        \* TimeZone.key of each allocation
    held,       \* allocations referred to from outside the cache
    pc,         \* where each thread is in get_or_insert_with
    want,       \* its argument `key`
    loaded,     \* its local `loaded`: Arc::new(timezone)
    cleared     \* history: allocations that a clear took out of the table

vars == <<lookup, lru, key, held, pc, want, loaded, cleared>>
table == <<lookup, lru>>
locals == <<pc, want, loaded>>

TypeOK ==
    /\ lookup \in [Key -> Obj \cup {None}]
    /\ lru \in Seq(Obj)
    /\ Len(lru) <= LRU_CAPACITY
    /\ key \in [Obj -> Key \cup {None}]
    /\ held \subseteq Obj
    /\ pc \in [Thread -> {"idle", "load", "insert"}]
    /\ want \in [Thread -> Key \cup {None}]
    /\ loaded \in [Thread -> Obj \cup {None}]
    /\ cleared \subseteq Obj
-----------------------------------------------------------------------------
InLru == {lru[i] : i \in DOMAIN lru}

\* A strong reference exists: in the LRU, in a ZonedDateTime, or in a local.
Alive(o) == o \in InLru \cup held \cup {loaded[t] : t \in Thread}

\* Neither a strong nor a weak reference is left: malloc may return it.
Fresh(o) == ~Alive(o) /\ \A k \in Key : lookup[k] # o

\* Faulty variant: only zones in the LRU are found again.
UpgradeFromLru(k) == IF lookup[k] \in InLru THEN lookup[k] ELSE None

\* lookup.get(key).and_then(Weak::upgrade)
Upgrade(k) == IF lookup[k] # None /\ Alive(lookup[k]) THEN lookup[k] ELSE None

\* pop_back at capacity, then push_front
new_to_lru(o, s) ==
    <<o>> \o IF Len(s) = LRU_CAPACITY THEN SubSeq(s, 1, Len(s) - 1) ELSE s

\* s without the element at position i
RemoveAt(s, i) == SubSeq(s, 1, i - 1) \o SubSeq(s, i + 1, Len(s))

\* iter().position(ptr_eq): the first position that holds o
Position(o, s) ==
    CHOOSE i \in DOMAIN s : s[i] = o /\ \A j \in 1 .. i - 1 : s[j] # o

\* Faulty variant: a hit does not move to the front.
PromoteNothing(o, s) ==
    IF \E i \in DOMAIN s : s[i] = o THEN s ELSE new_to_lru(o, s)

promote_lru(o, s) ==
    IF \E i \in DOMAIN s : s[i] = o
    THEN <<o>> \o RemoveAt(s, Position(o, s))
    ELSE new_to_lru(o, s)
-----------------------------------------------------------------------------
Init ==
    /\ lookup = [k \in Key |-> None]
    /\ lru = << >>
    /\ key = [o \in Obj |-> None]
    /\ held = {}
    /\ pc = [t \in Thread |-> "idle"]
    /\ want = [t \in Thread |-> None]
    /\ loaded = [t \in Thread |-> None]
    /\ cleared = {}

\* get_or_insert_with returns to its caller.
Return(t) ==
    /\ pc' = [pc EXCEPT ![t] = "idle"]
    /\ want' = [want EXCEPT ![t] = None]
    /\ loaded' = [loaded EXCEPT ![t] = None]

\* First check under the lock: a hit is promoted and returned.
LookupHit(t, k) ==
    /\ pc[t] = "idle"
    /\ Upgrade(k) # None
    /\ lru' = promote_lru(Upgrade(k), lru)
    /\ held' = held \cup {Upgrade(k)}
    /\ UNCHANGED <<lookup, key, cleared, locals>>

\* First check under the lock: a miss goes on to load the zone.
LookupMiss(t, k) ==
    /\ pc[t] = "idle"
    /\ Upgrade(k) = None
    /\ pc' = [pc EXCEPT ![t] = "load"]
    /\ want' = [want EXCEPT ![t] = k]
    /\ UNCHANGED <<table, key, held, loaded, cleared>>

\* load()? outside the lock produced a zone: Arc::new(timezone).
Load(t, o) ==
    /\ pc[t] = "load"
    /\ Fresh(o)
    /\ key' = [key EXCEPT ![o] = want[t]]
    /\ loaded' = [loaded EXCEPT ![t] = o]
    /\ pc' = [pc EXCEPT ![t] = "insert"]
    /\ cleared' = cleared \ {o}
    /\ UNCHANGED <<table, held, want>>

\* load() returned Ok(None) (not found) or Err (raised): nothing is cached.
LoadFails(t) ==
    /\ pc[t] = "load"
    /\ Return(t)
    /\ UNCHANGED <<table, key, held, cleared>>

\* Second check under the lock: another thread loaded it; use theirs.
UseTheirs(t) ==
    /\ pc[t] = "insert"
    /\ Upgrade(want[t]) # None
    /\ lru' = promote_lru(Upgrade(want[t]), lru)
    /\ held' = held \cup {Upgrade(want[t])}
    /\ Return(t)
    /\ UNCHANGED <<lookup, key, cleared>>

\* Faulty variant: the second check is left out.
InsertUnchecked(t) ==
    /\ pc[t] = "insert"
    /\ lookup' = [lookup EXCEPT ![want[t]] = loaded[t]]
    /\ lru' = new_to_lru(loaded[t], lru)
    /\ held' = held \cup {loaded[t]}
    /\ Return(t)
    /\ UNCHANGED <<key, cleared>>

\* Second check under the lock: we are first, or the weak reference expired.
InsertOurs(t) ==
    /\ pc[t] = "insert"
    /\ Upgrade(want[t]) = None
    /\ lookup' = [lookup EXCEPT ![want[t]] = loaded[t]]
    /\ lru' = new_to_lru(loaded[t], lru)
    /\ held' = held \cup {loaded[t]}
    /\ Return(t)
    /\ UNCHANGED <<key, cleared>>

\* A zone without a TZ ID (the system's, from a file or a POSIX string) is
\* built for a caller and does not enter the cache.
NewKeyless(o) ==
    /\ Fresh(o)
    /\ key' = [key EXCEPT ![o] = None]
    /\ held' = held \cup {o}
    /\ cleared' = cleared \ {o}
    /\ UNCHANGED <<table, locals>>

\* The last ZonedDateTime that refers to o is deallocated.
Drop(o) ==
    /\ o \in held
    /\ held' = held \ {o}
    /\ UNCHANGED <<table, key, cleared, locals>>

\* Faulty variant: only the LRU is cleared, so zones in use stay in the table.
ClearLru ==
    /\ lru' = << >>
    /\ cleared' = cleared \cup {lookup[k] : k \in {j \in Key : lookup[j] # None}}
    /\ UNCHANGED <<lookup, key, held, locals>>

clear_all ==
    /\ lookup' = [k \in Key |-> None]
    /\ lru' = << >>
    /\ cleared' = cleared \cup {lookup[k] : k \in {j \in Key : lookup[j] # None}}
    /\ UNCHANGED <<key, held, locals>>

\* Faulty variant: the LRU keeps the cleared zones.
ClearOnlyLookup(ks) ==
    /\ lookup' = [k \in Key |-> IF k \in ks THEN None ELSE lookup[k]]
    /\ cleared' = cleared \cup {lookup[k] : k \in {j \in ks : lookup[j] # None}}
    /\ UNCHANGED <<lru, key, held, locals>>

\* Both loops' effect at once: the LRU keeps, in order, the zones of other keys.
clear_only(ks) ==
    /\ lookup' = [k \in Key |-> IF k \in ks THEN None ELSE lookup[k]]
    /\ \E n \in 0 .. Len(lru) : \E kept \in [1 .. n -> DOMAIN lru] :
         /\ \A i, j \in 1 .. n : i < j => kept[i] < kept[j]
         /\ {kept[i] : i \in 1 .. n} = {i \in DOMAIN lru : key[lru[i]] \notin ks}
         /\ lru' = [i \in 1 .. n |-> lru[kept[i]]]
    /\ cleared' = cleared \cup {lookup[k] : k \in {j \in ks : lookup[j] # None}}
    /\ UNCHANGED <<key, held, locals>>

Get(t) ==
    \/ \E k \in Key : LookupHit(t, k) \/ LookupMiss(t, k)
    \/ \E o \in Obj : Load(t, o)
    \/ LoadFails(t)
    \/ UseTheirs(t)
    \/ InsertOurs(t)

Next ==
    \/ \E t \in Thread : Get(t)
    \/ \E o \in Obj : NewKeyless(o) \/ Drop(o)
    \/ clear_all
    \/ \E ks \in SUBSET Key : clear_only(ks)

Spec == Init /\ [][Next]_vars
-----------------------------------------------------------------------------
(***************************************************************************)
(* The LRU and the table agree: a zone in the LRU has a TZ ID (which       *)
(* new_to_lru asserts) and is what that ID resolves to, no zone is in the  *)
(* LRU twice, and the table files every zone under its own TZ ID.  A stale *)
(* LRU entry would keep a zone alive that no lookup can find, and shrink   *)
(* the LRU for good.                                                       *)
(***************************************************************************)
LruCoherent ==
    /\ \A i \in DOMAIN lru : key[lru[i]] \in Key /\ lookup[key[lru[i]]] = lru[i]
    /\ \A i, j \in DOMAIN lru : lru[i] = lru[j] => i = j
    /\ \A k \in Key : lookup[k] # None => key[lookup[k]] = k

(***************************************************************************)
(* Two ZonedDateTimes with the same TZ ID share one TimeZone object, and a *)
(* lookup finds it, unless a clear intervened: whatever is in use is still *)
(* what its TZ ID resolves to.  exact_eq and the fast paths that compare   *)
(* zones by pointer rest on this; it is the reason for the second check.   *)
(***************************************************************************)
SharedIdentity ==
    \A o \in held : key[o] # None => o \in cleared \/ lookup[key[o]] = o

(***************************************************************************)
(* A zone between load() and the second lock belongs to its thread alone:  *)
(* no table entry, LRU slot or other thread refers to it yet, and it is    *)
(* the zone of the TZ ID the thread asked for.                             *)
(***************************************************************************)
LoadedIsPrivate ==
    \A t \in Thread : loaded[t] # None =>
        /\ pc[t] = "insert"
        /\ key[loaded[t]] = want[t]
        /\ loaded[t] \notin held \cup InLru
        /\ \A k \in Key : lookup[k] # loaded[t]
        /\ \A u \in Thread \ {t} : loaded[u] # loaded[t]

\* The table each caller sees is a weak interning table.
Interned == INSTANCE InternTable WITH canon <- [k \in Key |-> Upgrade(k)]

\* The cache implements the interning table it stands for.
ImplementsInternTable == Interned!Spec
=============================================================================
