----------------------------- MODULE PyTzStore -----------------------------
(***************************************************************************)
(* The timezone store of the pure-Python implementation                    *)
(* (src/pysrc/whenever/_tz/store.py): a WeakValueDictionary, an            *)
(* OrderedDict used as LRU, and a one-entry fast path in two globals.      *)
(*                                                                         *)
(* A step is one operation on a shared object: reading or assigning a      *)
(* global, one call of a dict method.  Threads switch between any two of   *)
(* them, with the GIL and without.  locked says that _Lock is a real lock  *)
(* (free-threaded Python before 3.14): then at most one thread is in the   *)
(* sections that touch the LRU.                                            *)
(***************************************************************************)
EXTENDS Naturals, Sequences, FiniteSets

CONSTANTS
    Thread,
    Key,                \* TZ IDs
    Obj,                \* identities of TimeZone objects
    _TZCACHE_LRU_SIZE,  \* 8 in the code
    Locks,              \* whether _Lock is a lock: the values to consider
    MaxKeys,            \* bound: the most keys of one _clear_tz_cache_by_keys
    None

ASSUME ThreadAssumption == IsFiniteSet(Thread)
ASSUME SizeAssumption == _TZCACHE_LRU_SIZE \in Nat \ {0}
ASSUME LockAssumption == Locks \subseteq BOOLEAN
ASSUME KeysAssumption == MaxKeys \in Nat
ASSUME AbsentAssumption == None \notin Obj /\ None \notin Key

VARIABLES
    lastKey, lastVal,   \* _last_tz_key, _last_tz_val
    lookup,             \* _tzcache_lookup: weak references
    lru,                \* _tzcache_lru: <<key, object>> pairs, oldest first
    key,                \* TimeZone.key
    pc,                 \* the next step of each thread
    want,               \* get_tz's argument
    instance,           \* get_tz's local `instance`
    popped,             \* the value of _tzcache_lru.pop(key, instance)
    result,             \* what the thread's last get_tz returned
    purge,              \* the keys a clearing thread has left to remove
    locked,             \* _Lock is a lock
    alone               \* history: no two threads were ever in the store at once

vars == <<lastKey, lastVal, lookup, lru, key, pc, want, instance, popped, result, purge,
          locked, alone>>

\* Between these steps a thread is inside `with _tzcache_lru_lock`.
Section == {"insert", "len", "popitem", "popLookup", "popLru"}

Steps == Section \cup
         {"idle", "fast", "lookup", "load", "setdefault", "store", "pop", "setKey",
          "setVal", "clearVal", "clearLookup", "clearLru", "clearKeysKey", "clearKeyVal",
          "clearKeys"}

TypeOK ==
    /\ lastKey \in Key \cup {None}
    /\ lastVal \in Obj \cup {None}
    /\ lookup \in [Key -> Obj \cup {None}]
    /\ lru \in Seq(Key \X Obj)
    /\ key \in [Obj -> Key \cup {None}]
    /\ pc \in [Thread -> Steps]
    /\ want \in [Thread -> Key \cup {None}]
    /\ instance \in [Thread -> Obj \cup {None}]
    /\ popped \in [Thread -> Obj \cup {None}]
    /\ result \in [Thread -> Obj \cup {None}]
    /\ purge \in [Thread -> Seq(Key)]
    /\ {locked, alone} \subseteq BOOLEAN

Init ==
    /\ lastKey = None /\ lastVal = None
    /\ lookup = [k \in Key |-> None]
    /\ lru = << >>
    /\ key = [o \in Obj |-> None]
    /\ pc = [t \in Thread |-> "idle"]
    /\ want = [t \in Thread |-> None]
    /\ instance = [t \in Thread |-> None]
    /\ popped = [t \in Thread |-> None]
    /\ result = [t \in Thread |-> None]
    /\ purge = [t \in Thread |-> << >>]
    /\ locked \in Locks
    /\ alone = TRUE
-----------------------------------------------------------------------------
\* A strong reference exists: in the fast path, the LRU, a local or a result.
Alive(o) ==
    \/ o = lastVal
    \/ \E i \in DOMAIN lru : lru[i][2] = o
    \/ \E t \in Thread : o \in {instance[t], popped[t], result[t]}

\* WeakValueDictionary.get: a dead object is as good as absent.
Resolve(k) == IF lookup[k] # None /\ Alive(lookup[k]) THEN lookup[k] ELSE None

\* The entry of k in an OrderedDict, and the dict without it.
Has(d, k) == \E i \in DOMAIN d : d[i][1] = k
Index(d, k) == CHOOSE i \in DOMAIN d : d[i][1] = k
Entry(d, k) == d[Index(d, k)][2]
Without(d, k) ==
    IF Has(d, k)
    THEN [i \in 1 .. Len(d) - 1 |-> IF i < Index(d, k) THEN d[i] ELSE d[i + 1]]
    ELSE d

\* d[k] = o: the entry of k is replaced in place, or added at the end.
With(d, k, o) ==
    IF Has(d, k) THEN [i \in DOMAIN d |-> IF d[i][1] = k THEN <<k, o>> ELSE d[i]]
    ELSE Append(d, <<k, o>>)

\* Faulty variant: the sections run without the lock.
AcquireNothing(t) == TRUE

\* _tzcache_lru_lock can be taken.
Acquire(t) == locked => \A u \in Thread \ {t} : pc[u] \notin Section

goto(t, l) == pc' = [pc EXCEPT ![t] = l]
cells == <<lastKey, lastVal, lookup, lru>>
args == <<key, want, instance, popped, result, purge>>

\* get_tz(k): compare with _last_tz_key.
CompareKey(t, k) ==
    /\ pc[t] = "idle"
    /\ want' = [want EXCEPT ![t] = k]
    /\ result' = [result EXCEPT ![t] = None]
    /\ goto(t, IF k = lastKey THEN "fast" ELSE "lookup")
    /\ UNCHANGED <<cells, key, instance, popped, purge>>

Return(t, o) ==
    /\ result' = [result EXCEPT ![t] = o]
    /\ instance' = [instance EXCEPT ![t] = None]
    /\ popped' = [popped EXCEPT ![t] = None]
    /\ goto(t, "idle")

\* return _last_tz_val
FastPath(t) ==
    /\ pc[t] = "fast"
    /\ Return(t, lastVal)
    /\ UNCHANGED <<cells, key, want, purge>>

\* instance = _tzcache_lookup.get(key)
LookupGet(t) ==
    /\ pc[t] = "lookup"
    /\ instance' = [instance EXCEPT ![t] = Resolve(want[t])]
    /\ goto(t, IF Resolve(want[t]) = None THEN "load" ELSE "pop")
    /\ UNCHANGED <<cells, key, want, popped, result, purge>>

\* _load_tz(validate_tzid(key)) built a new object.
Load(t, o) ==
    /\ pc[t] = "load"
    /\ ~Alive(o) /\ \A k \in Key : lookup[k] # o
    /\ key' = [key EXCEPT ![o] = want[t]]
    /\ instance' = [instance EXCEPT ![t] = o]
    /\ goto(t, "setdefault")
    /\ UNCHANGED <<cells, want, popped, result, purge>>

\* _load_tz or validate_tzid raised TimeZoneNotFoundError.
LoadFails(t) ==
    /\ pc[t] = "load"
    /\ goto(t, "idle")
    /\ UNCHANGED <<cells, args>>

\* _tzcache_lookup.setdefault(key, ...) reads the dict and later writes it.
SetDefault(t) ==
    /\ pc[t] = "setdefault"
    /\ IF Resolve(want[t]) # None
       THEN /\ instance' = [instance EXCEPT ![t] = Resolve(want[t])]
            /\ goto(t, "pop")
       ELSE /\ goto(t, "store")
            /\ UNCHANGED instance
    /\ UNCHANGED <<cells, key, want, popped, result, purge>>

Store(t) ==
    /\ pc[t] = "store"
    /\ lookup' = [lookup EXCEPT ![want[t]] = instance[t]]
    /\ goto(t, "pop")
    /\ UNCHANGED <<lastKey, lastVal, lru, args>>

\* _tzcache_lru.pop(key, instance), with the lock just taken
LruPop(t) ==
    /\ pc[t] = "pop"
    /\ Acquire(t)
    /\ popped' = [popped EXCEPT ![t] =
                     IF Has(lru, want[t]) THEN Entry(lru, want[t]) ELSE instance[t]]
    /\ lru' = Without(lru, want[t])
    /\ goto(t, "insert")
    /\ UNCHANGED <<lastKey, lastVal, lookup, key, want, instance, result, purge>>

\* _tzcache_lru[key] = ...: an entry of another thread is updated in place.
LruInsert(t) ==
    /\ pc[t] = "insert"
    /\ lru' = With(lru, want[t], popped[t])
    /\ popped' = [popped EXCEPT ![t] = None]
    /\ goto(t, "len")
    /\ UNCHANGED <<lastKey, lastVal, lookup, key, want, instance, result, purge>>

\* if len(_tzcache_lru) > _TZCACHE_LRU_SIZE
LruLen(t) ==
    /\ pc[t] = "len"
    /\ goto(t, IF Len(lru) > _TZCACHE_LRU_SIZE THEN "popitem" ELSE "setKey")
    /\ UNCHANGED <<cells, args>>

\* popitem(last=False); the KeyError of an empty dict is caught.
LruPopItem(t) ==
    /\ pc[t] = "popitem"
    /\ lru' = IF lru = << >> THEN lru ELSE Tail(lru)
    /\ goto(t, "setKey")
    /\ UNCHANGED <<lastKey, lastVal, lookup, args>>

\* _last_tz_key = key
SetLastKey(t) ==
    /\ pc[t] = "setKey"
    /\ lastKey' = want[t]
    /\ goto(t, "setVal")
    /\ UNCHANGED <<lastVal, lookup, lru, args>>

\* Faulty variant: the fast path keeps the zone of the previous key.
SetLastValMissing(t) ==
    /\ pc[t] = "setVal"
    /\ Return(t, instance[t])
    /\ UNCHANGED <<cells, key, want, purge>>

\* _last_tz_val = instance; return instance
SetLastVal(t) ==
    /\ pc[t] = "setVal"
    /\ lastVal' = instance[t]
    /\ Return(t, instance[t])
    /\ UNCHANGED <<lastKey, lookup, lru, key, want, purge>>
-----------------------------------------------------------------------------
\* The caller drops the zone it got.
Drop(t) ==
    /\ pc[t] = "idle" /\ result[t] # None
    /\ result' = [result EXCEPT ![t] = None]
    /\ UNCHANGED <<cells, key, pc, want, instance, popped, purge>>

\* _clear_tz_cache(): the two globals, the lookup table, the LRU.
ClearKey(t) ==
    /\ pc[t] = "idle"
    /\ lastKey' = None
    /\ goto(t, "clearVal")
    /\ UNCHANGED <<lastVal, lookup, lru, args>>

ClearVal(t) ==
    /\ pc[t] = "clearVal"
    /\ lastVal' = None
    /\ goto(t, "clearLookup")
    /\ UNCHANGED <<lastKey, lookup, lru, args>>

ClearLookup(t) ==
    /\ pc[t] = "clearLookup"
    /\ lookup' = [k \in Key |-> None]
    /\ goto(t, "clearLru")
    /\ UNCHANGED <<lastKey, lastVal, lru, args>>

ClearLru(t) ==
    /\ pc[t] = "clearLru"
    /\ Acquire(t)
    /\ lru' = << >>
    /\ goto(t, "idle")
    /\ UNCHANGED <<lastKey, lastVal, lookup, args>>

\* _clear_tz_cache_by_keys(ks): is the fast path for one of them?
ClearByKeys(t, ks) ==
    /\ pc[t] = "idle"
    /\ purge' = [purge EXCEPT ![t] = ks]
    /\ goto(t, IF \E i \in DOMAIN ks : ks[i] = lastKey THEN "clearKeysKey" ELSE "clearKeys")
    /\ UNCHANGED <<cells, key, want, instance, popped, result>>

\* If it was, it is emptied: another thread may have filled it since.
ClearKeysKey(t) ==
    /\ pc[t] = "clearKeysKey"
    /\ lastKey' = None
    /\ goto(t, "clearKeyVal")
    /\ UNCHANGED <<lastVal, lookup, lru, args>>

ClearKeyVal(t) ==
    /\ pc[t] = "clearKeyVal"
    /\ lastVal' = None
    /\ goto(t, "clearKeys")
    /\ UNCHANGED <<lastKey, lookup, lru, args>>

\* `with _tzcache_lru_lock: for k in keys`, the lock taken before the first.
ClearKeys(t) ==
    /\ pc[t] = "clearKeys"
    /\ Acquire(t)
    /\ goto(t, IF purge[t] = << >> THEN "idle" ELSE "popLookup")
    /\ UNCHANGED <<cells, args>>

\* _tzcache_lookup.pop(k, None)
PopLookup(t) ==
    /\ pc[t] = "popLookup"
    /\ lookup' = [lookup EXCEPT ![Head(purge[t])] = None]
    /\ goto(t, "popLru")
    /\ UNCHANGED <<lastKey, lastVal, lru, args>>

\* Faulty variant: the LRU entry is left in place.
PopLruForgotten(t) ==
    /\ pc[t] = "popLru"
    /\ purge' = [purge EXCEPT ![t] = Tail(@)]
    /\ goto(t, IF Len(purge[t]) = 1 THEN "idle" ELSE "popLookup")
    /\ UNCHANGED <<cells, key, want, instance, popped, result>>

\* _tzcache_lru.pop(k, None), and on to the next key
PopLru(t) ==
    /\ pc[t] = "popLru"
    /\ lru' = Without(lru, Head(purge[t]))
    /\ purge' = [purge EXCEPT ![t] = Tail(@)]
    /\ goto(t, IF Len(purge[t]) = 1 THEN "idle" ELSE "popLookup")
    /\ UNCHANGED <<lastKey, lastVal, lookup, key, want, instance, popped, result>>

get_tz(t) ==
    \/ \E k \in Key : CompareKey(t, k)
    \/ FastPath(t)
    \/ LookupGet(t)
    \/ \E o \in Obj : Load(t, o)
    \/ LoadFails(t)
    \/ SetDefault(t)
    \/ Store(t)
    \/ LruPop(t)
    \/ LruInsert(t)
    \/ LruLen(t)
    \/ LruPopItem(t)
    \/ SetLastKey(t)
    \/ SetLastVal(t)

clear(t) ==
    \/ ClearKey(t) \/ ClearVal(t) \/ ClearLookup(t) \/ ClearLru(t)
    \/ \E n \in 0 .. MaxKeys : \E ks \in [1 .. n -> Key] : ClearByKeys(t, ks)
    \/ ClearKeysKey(t) \/ ClearKeyVal(t) \/ ClearKeys(t) \/ PopLookup(t) \/ PopLru(t)

Next ==
    /\ \E t \in Thread : get_tz(t) \/ clear(t) \/ Drop(t)
    /\ alone' = (alone /\ \A t, u \in Thread : pc'[t] # "idle" /\ pc'[u] # "idle" => t = u)
    /\ UNCHANGED locked

Spec == Init /\ [][Next]_vars
-----------------------------------------------------------------------------
AtRest == \A t \in Thread : pc[t] = "idle"

(***************************************************************************)
(* get_tz(key) returns a zone, and the zone of that key, whether it comes  *)
(* from the one-entry fast path, the cache or the disk.                    *)
(***************************************************************************)
ReturnsOwnZone(t) ==
    pc[t] \in {"fast", "setVal"} /\ pc'[t] = "idle" =>
        result'[t] # None /\ key[result'[t]] = want[t]

ReturnsZoneOfKey == [][\A t \in Thread : ReturnsOwnZone(t)]_vars

(***************************************************************************)
(* It does as long as the calls of the threads do not overlap, after any   *)
(* sequence of lookups and clears.                                         *)
(***************************************************************************)
AloneReturnsZoneOfKey == [][alone => \A t \in Thread : ReturnsOwnZone(t)]_vars

(***************************************************************************)
(* The LRU is within its limit whenever no thread is in the store, also    *)
(* where _Lock is no lock: every thread that inserts looks at the length   *)
(* afterwards.  With the lock it is over its limit by at most the entry of *)
(* the one thread that is about to evict, and popitem finds the dict that  *)
(* len() saw (its KeyError cannot happen).                                 *)
(***************************************************************************)
LruWithinLimit ==
    /\ AtRest => Len(lru) <= _TZCACHE_LRU_SIZE
    /\ locked =>
        /\ Len(lru) <= _TZCACHE_LRU_SIZE + 1
        /\ \A t \in Thread : pc[t] = "popitem" => Len(lru) > _TZCACHE_LRU_SIZE
        /\ Len(lru) > _TZCACHE_LRU_SIZE => \E t \in Thread : pc[t] \in {"len", "popitem"}

(***************************************************************************)
(* Both dicts file a zone under its own TZ ID, whatever the interleaving:  *)
(* a wrong entry would be handed out for as long as it stays cached.  And  *)
(* as long as the calls of the threads do not overlap, the zone the LRU    *)
(* holds for a TZ ID is the one that a lookup of the ID returns.  If they  *)
(* differed, the LRU would pin a zone nobody can find again and the zone   *)
(* in use would be reloaded from disk on every use.                        *)
(***************************************************************************)
TablesAgree ==
    /\ TypeOK
    /\ \A k \in Key : lookup[k] # None => key[lookup[k]] = k
    /\ \A i \in DOMAIN lru : key[lru[i][2]] = lru[i][1]
    /\ alone /\ AtRest => \A i \in DOMAIN lru : lookup[lru[i][1]] = lru[i][2]
=============================================================================
