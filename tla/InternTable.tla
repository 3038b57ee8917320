---------------------------- MODULE InternTable ----------------------------
(***************************************************************************)
(* What the timezone cache promises its callers, without saying how it is  *)
(* kept: a weak interning table.  A TZ ID that somebody still uses always  *)
(* resolves to the same TimeZone object; an object nobody uses may be      *)
(* forgotten at any time (and then it is loaded again on the next use);    *)
(* only an explicit clear breaks the association of an object in use.      *)
(***************************************************************************)
CONSTANTS
    Key,    \* TZ IDs
    Obj,    \* identities of TimeZone objects
    None    \* "no object"

VARIABLES
    canon,  \* canon[k]: the object that k resolves to now, or None
    held    \* the objects some caller (a ZonedDateTime) refers to

absVars == <<canon, held>>

Init == canon = [k \in Key |-> None] /\ held = {}

(***************************************************************************)
(* Entries of unused objects may disappear along with any operation: a     *)
(* lookup can evict another zone, and dropping the last reference to a     *)
(* zone frees it.                                                          *)
(***************************************************************************)
MayForget(ks) ==
    \A k \in ks : \/ canon'[k] = canon[k]
                  \/ canon'[k] = None /\ canon[k] \notin held

\* A caller gets the object for k: the interned one, or a new one.
Resolve(k, o) ==
    /\ canon[k] = o \/ (canon[k] = None /\ o \notin held
                          /\ \A j \in Key : canon[j] # o)
    /\ canon' \in [Key -> Obj \cup {None}]
    /\ canon'[k] = o
    /\ MayForget(Key \ {k})
    /\ held' = held \cup {o}

\* A caller builds a zone without a TZ ID: it is never interned.
Adopt(o) ==
    /\ o \notin held
    /\ \A k \in Key : canon[k] # o
    /\ held' = held \cup {o}
    /\ UNCHANGED canon

\* A caller drops its last reference to o.
Release(o) ==
    /\ held' = held \ {o}
    /\ canon' \in [Key -> Obj \cup {None}]
    /\ \A k \in Key : \/ canon'[k] = canon[k]
                      \/ canon'[k] = None /\ canon[k] \notin held'

\* clear_tzcache(): the keys are forgotten, whoever uses their objects.
Clear(ks) ==
    /\ canon' \in [Key -> Obj \cup {None}]
    /\ \A k \in ks : canon'[k] = None
    /\ MayForget(Key \ ks)
    /\ UNCHANGED held

Next ==
    \/ \E k \in Key, o \in Obj : Resolve(k, o)
    \/ \E o \in Obj : Adopt(o)
    \/ \E o \in held : Release(o)
    \/ \E ks \in SUBSET Key : Clear(ks)

Spec == Init /\ [][Next]_absVars
=============================================================================
