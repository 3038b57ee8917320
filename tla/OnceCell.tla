------------------------------ MODULE OnceCell ------------------------------
(***************************************************************************)
(* OncePyCell of src/src/common/sync.rs: a cell whose value is computed on *)
(* the first get() and may be replaced with set().  The initialiser runs   *)
(* Python code (an import), so other threads run while it does: without    *)
(* the GIL always, and with it because Python code releases the GIL.       *)
(*                                                                         *)
(* freeThreaded is the build.  Without the GIL the slot is behind an       *)
(* RwLock and get_slow looks at it again under the write lock; with the    *)
(* GIL the slot is a bare UnsafeCell, assigned unconditionally as soon as  *)
(* the initialiser returns (Rust code does not release the GIL).           *)
(***************************************************************************)
EXTENDS Naturals

CONSTANTS
    Thread,
    Value,          \* Arc<T> identities
    Builds,         \* TRUE: mod free_threaded, FALSE: mod gil_enabled
    None

ASSUME BuildAssumption == Builds \subseteq BOOLEAN
ASSUME NoValueAssumption == None \notin Value /\ None \notin Thread

VARIABLES
    freeThreaded,   \* the build that runs
    value,      \* the slot
    pc,         \* "idle", "init" (running the initialiser) or "store"
    computed,   \* the result of the initialiser, local to get_slow()
    result,     \* what the thread's last get() returned
    used,       \* history: the Arcs allocated so far
    override,   \* history: the last value given to set()
    racing,     \* history: the threads initialising when it was given
    storer      \* history: the thread whose get() wrote the slot last, if any

vars == <<freeThreaded, value, pc, computed, result, used, override, racing, storer>>
history == <<override, racing, freeThreaded>>

TypeOK ==
    /\ freeThreaded \in BOOLEAN
    /\ value \in Value \cup {None}
    /\ pc \in [Thread -> {"idle", "init", "store"}]
    /\ computed \in [Thread -> Value \cup {None}]
    /\ \A t \in Thread : pc[t] = "store" => computed[t] # None
    /\ result \in [Thread -> Value \cup {None}]
    /\ used \subseteq Value
    /\ override \in Value \cup {None}
    /\ racing \subseteq Thread
    /\ storer \in Thread \cup {None}

Init ==
    /\ freeThreaded \in Builds
    /\ value = None
    /\ pc = [t \in Thread |-> "idle"]
    /\ computed = [t \in Thread |-> None]
    /\ result = [t \in Thread |-> None]
    /\ used = {}
    /\ override = None
    /\ racing = {}
    /\ storer = None

\* get(): the slot is filled; clone the Arc.
GetFast(t) ==
    /\ pc[t] = "idle"
    /\ value # None
    /\ result' = [result EXCEPT ![t] = value]
    /\ UNCHANGED <<value, pc, computed, used, storer, history>>

\* Faulty variant: the initialiser is run although the slot is filled.
GetAlwaysSlow(t) ==
    /\ pc[t] = "idle"
    /\ pc' = [pc EXCEPT ![t] = "init"]
    /\ UNCHANGED <<value, computed, result, used, storer, history>>

\* get(): the slot is empty; call (self.init)().
GetSlow(t) ==
    /\ pc[t] = "idle"
    /\ value = None
    /\ pc' = [pc EXCEPT ![t] = "init"]
    /\ UNCHANGED <<value, computed, result, used, storer, history>>

\* The initialiser raised: the error is returned and the slot stays as it is.
InitFails(t) ==
    /\ pc[t] = "init"
    /\ pc' = [pc EXCEPT ![t] = "idle"]
    /\ UNCHANGED <<value, computed, result, used, storer, history>>

\* gil_enabled: the initialiser's value goes into the slot, whatever is there.
GilStore(t, v) ==
    /\ ~freeThreaded
    /\ pc[t] = "init"
    /\ v \notin used
    /\ value' = v
    /\ result' = [result EXCEPT ![t] = v]
    /\ used' = used \cup {v}
    /\ storer' = t
    /\ pc' = [pc EXCEPT ![t] = "idle"]
    /\ UNCHANGED <<computed, history>>

\* free_threaded: the initialiser returned; the write lock is still to be taken.
InitReturns(t, v) ==
    /\ freeThreaded
    /\ pc[t] = "init"
    /\ v \notin used
    /\ computed' = [computed EXCEPT ![t] = v]
    /\ used' = used \cup {v}
    /\ pc' = [pc EXCEPT ![t] = "store"]
    /\ UNCHANGED <<value, result, storer, history>>

\* free_threaded, get_slow() ends: return a value found under the write lock,
\* store ours otherwise.
Finish(t, v) ==
    /\ value' = v
    /\ result' = [result EXCEPT ![t] = v]
    /\ storer' = IF v = value THEN storer ELSE t
    /\ computed' = [computed EXCEPT ![t] = None]
    /\ pc' = [pc EXCEPT ![t] = "idle"]
    /\ UNCHANGED <<used, history>>

\* Faulty variant: the slot is not looked at again under the write lock.
StoreUnchecked(t) == pc[t] = "store" /\ Finish(t, computed[t])

\* Faulty variant: the value found is kept, but ours is returned.
StoreReturnOurs(t) ==
    /\ pc[t] = "store"
    /\ value' = IF value # None THEN value ELSE computed[t]
    /\ result' = [result EXCEPT ![t] = computed[t]]
    /\ computed' = [computed EXCEPT ![t] = None]
    /\ pc' = [pc EXCEPT ![t] = "idle"]
    /\ UNCHANGED <<used, storer, history>>

Store(t) ==
    /\ pc[t] = "store"
    /\ Finish(t, IF value # None THEN value ELSE computed[t])

set(v) ==
    /\ v \notin used
    /\ value' = v
    /\ used' = used \cup {v}
    /\ override' = v
    /\ racing' = {t \in Thread : pc[t] # "idle"}
    /\ storer' = None
    /\ UNCHANGED <<freeThreaded, pc, computed, result>>

Next ==
    \/ \E t \in Thread : GetFast(t) \/ GetSlow(t) \/ InitFails(t) \/ Store(t)
    \/ \E t \in Thread, v \in Value : GilStore(t, v) \/ InitReturns(t, v)
    \/ \E v \in Value : set(v)

Spec == Init /\ [][Next]_vars
-----------------------------------------------------------------------------
(***************************************************************************)
(* set() overrides the value for good: from then on the cell holds what    *)
(* the last set() gave it, also when an initialiser was already running.   *)
(***************************************************************************)
SetWins == override # None => value = override

(***************************************************************************)
(* The free-threaded build keeps both of its promises: set() is final, and *)
(* what get() returned is never an Arc that no one else will see (without  *)
(* a set() all threads hold the same one).                                 *)
(***************************************************************************)
FreeThreadedAgrees ==
    freeThreaded =>
        /\ SetWins
        /\ override = None =>
             \A t, u \in Thread :
                result[t] # None /\ result[u] # None => result[t] = result[u]

(***************************************************************************)
(* In that build an initialised cell changes only through set().           *)
(***************************************************************************)
StableOnceInitialised ==
    [][freeThreaded /\ value # None /\ value' # value => value' = override']_vars

(***************************************************************************)
(* In either build, a set() can only be lost to a get() that had started   *)
(* its initialiser before: a get() that begins after the set() finds the   *)
(* slot filled and never writes it.                                        *)
(***************************************************************************)
SetLostOnlyToRunningInit ==
    override # None => value = override \/ storer \in racing
=============================================================================
