------------------------------ MODULE TzStore ------------------------------
(***************************************************************************)
(* The timezone store of the Rust extension (struct TzStore of             *)
(* src/src/tz/store.rs): the cache of TzCache, the search path (an         *)
(* OncePyCell that reset_tzpath() overrides) and the cached system         *)
(* timezone.  A lookup that misses takes a snapshot of the search path,    *)
(* initialising it from the environment when it is the first, and reads    *)
(* the zone from there or else from the tzdata package.                    *)
(*                                                                         *)
(* The cache's own steps are those of TzCache; this module says what each  *)
(* of them does to the rest of the store.  freeThreaded is the build: the  *)
(* two differ in the search path cell (AfterInit).  In both, every lock    *)
(* section is a step and all threads run freely; with the GIL they do so   *)
(* only where Python code runs (the initialisers of the cells), so that    *)
(* what holds here of all interleavings holds of those.                    *)
(***************************************************************************)
EXTENDS TzCache

CONSTANTS
    TzPath,         \* settings of the search path (each a list of directories)
    EnvPath,        \* the setting that _tzpath_from_env() returns
    Provides,       \* Provides[p]: the TZ IDs readable under setting p
    Tzdata,         \* the TZ IDs of the tzdata package ({} if not installed)
    BenignKey,      \* the TZ IDs that is_valid_key() accepts
    Purpose,        \* "get": get() is called; "system": the system timezone is
    Package         \* origin of a zone from the tzdata package

ASSUME PathAssumption ==
    /\ EnvPath \in TzPath
    /\ Provides \in [TzPath -> SUBSET BenignKey]
    /\ Tzdata \subseteq BenignKey /\ BenignKey \subseteq Key
    /\ Purpose \subseteq {"get", "system"}
    /\ None \notin TzPath /\ Package \notin TzPath \cup {None}

VARIABLES
    freeThreaded,   \* the build that runs: without the GIL, or with it
    paths,      \* the search path cell, or None while not initialised
    phase,      \* where a thread that loads is: see Phase
    snapshot,   \* the Arc<Vec<PathBuf>> that its load works with
    origin,     \* where each allocation's data was read
    purpose,    \* why it looks a zone up: for get(), or for determine_system_tz()
    found,      \* determine_system_tz()'s result, on its way to the cache cell
    systemTz,   \* system_tz_cache
    chosen,     \* history: the last setting given to reset_tzpath(), or None
    overlapped, \* history: threads that were initialising the cell then
    settled,    \* history: the setting at the last clear_all, None if reset_tzpath() came since
    early,      \* history: threads that were looking up at the last clear_all
    leftover    \* history: zones those threads inserted after it

storeVars == <<paths, phase, snapshot, origin, purpose, found, systemTz>>
history == <<chosen, overlapped, settled, early, leftover>>
svars == <<vars, storeVars, history, freeThreaded>>

Phase == {"none", "peek", "paths", "init", "read"}

StoreTypeOK ==
    /\ TypeOK
    /\ freeThreaded \in BOOLEAN
    /\ paths \in TzPath \cup {None}
    /\ phase \in [Thread -> Phase]
    /\ \A t \in Thread : phase[t] \in {"paths", "init", "read"} => pc[t] = "load"
    /\ snapshot \in [Thread -> TzPath \cup {None}]
    /\ origin \in [Obj -> TzPath \cup {Package, None}]
    /\ purpose \in [Thread -> {"get", "system"}]
    /\ found \in [Thread -> Obj \cup {None}]
    /\ systemTz \in Obj \cup {None}
    /\ {chosen, settled} \subseteq TzPath \cup {None}
    /\ early \subseteq Thread /\ overlapped \subseteq Thread
    /\ leftover \subseteq Obj

StoreInit ==
    /\ Init
    /\ freeThreaded \in BOOLEAN
    /\ paths = None
    /\ phase = [t \in Thread |-> "none"]
    /\ snapshot = [t \in Thread |-> None]
    /\ origin = [o \in Obj |-> None]
    /\ purpose = [t \in Thread |-> "get"]
    /\ found = [t \in Thread |-> None]
    /\ systemTz = None
    /\ chosen = None
    /\ overlapped = {}
    /\ settled = None
    /\ early = {}
    /\ leftover = {}
-----------------------------------------------------------------------------
\* init_paths() is running for the thread.
Initialising(t) == phase[t] \in {"init", "peek"}

\* The thread is between calls into the store.
Ready(t) == pc[t] = "idle" /\ found[t] = None /\ phase[t] = "none"

\* A lookup ends with o: get() hands it to the caller, determine_system_tz()
\* keeps it to store it.
Deliver(t, why, o) ==
    /\ found' = IF why = "get" THEN found ELSE [found EXCEPT ![t] = o]
    /\ purpose' = [purpose EXCEPT ![t] = "get"]

\* get(), or determine_system_tz() with a TZ ID: the zone is in the cache.
GetHit(t, k, why) ==
    /\ Ready(t)
    /\ LookupHit(t, k)
    /\ Deliver(t, why, Upgrade(k))
    /\ UNCHANGED <<paths, phase, snapshot, origin, systemTz, history>>

GetMiss(t, k, why) ==
    /\ Ready(t)
    /\ LookupMiss(t, k)
    /\ purpose' = [purpose EXCEPT ![t] = why]
    /\ phase' = [phase EXCEPT ![t] = "paths"]
    /\ UNCHANGED <<paths, snapshot, origin, found, systemTz, history>>

\* load_tzif(): paths.get() on an initialised cell.
SnapshotPaths(t) ==
    /\ phase[t] = "paths"
    /\ want[t] \in BenignKey
    /\ paths # None
    /\ snapshot' = [snapshot EXCEPT ![t] = paths]
    /\ phase' = [phase EXCEPT ![t] = "read"]
    /\ UNCHANGED <<vars, paths, origin, purpose, found, systemTz, history>>

\* load_tzif(): paths.get() on an empty cell calls init_paths().
InitPaths(t) ==
    /\ phase[t] = "paths"
    /\ want[t] \in BenignKey
    /\ paths = None
    /\ phase' = [phase EXCEPT ![t] = "init"]
    /\ UNCHANGED <<vars, paths, snapshot, origin, purpose, found, systemTz, history>>

\* Faulty variant: the free-threaded build does not look at the cell again either.
AfterInitUnchecked == EnvPath

\* What the cell holds once init_paths() has returned: get_slow() looks at it again
\* under the write lock; with the GIL the result is assigned, whatever is there.
AfterInit == IF freeThreaded /\ paths # None THEN paths ELSE EnvPath

\* init_paths() returned.  get() returns what the cell holds now.
StorePaths(t) ==
    /\ phase[t] = "init"
    /\ paths' = AfterInit
    /\ snapshot' = [snapshot EXCEPT ![t] = paths']
    /\ phase' = [phase EXCEPT ![t] = "read"]
    /\ UNCHANGED <<vars, origin, purpose, found, systemTz, history>>

\* _get_tzpath(): the same cell read for the user, initialised if need be.
PeekPaths(t) ==
    /\ Ready(t)
    /\ paths = None
    /\ phase' = [phase EXCEPT ![t] = "peek"]
    /\ UNCHANGED <<vars, paths, snapshot, origin, purpose, found, systemTz, history>>

PeekStores(t) ==
    /\ phase[t] = "peek"
    /\ \/ paths' = AfterInit
       \/ UNCHANGED paths     \* init_paths() raised
    /\ phase' = [phase EXCEPT ![t] = "none"]
    /\ UNCHANGED <<vars, snapshot, origin, purpose, found, systemTz, history>>

\* Where load_tzif() may find k: load_tzif_from_tzpath() first, and
\* load_tzif_from_tzdata() when no file is there or it cannot be read or parsed.
Sources(t, k) ==
    (IF k \in Provides[snapshot[t]] THEN {snapshot[t]} ELSE {})
      \cup (IF k \in Tzdata THEN {Package} ELSE {})

\* A file was read and parsed.
ReadZone(t, o, source) ==
    /\ phase[t] = "read"
    /\ source \in Sources(t, want[t])
    /\ Load(t, o)
    /\ origin' = [origin EXCEPT ![o] = source]
    /\ phase' = [phase EXCEPT ![t] = "none"]
    /\ snapshot' = [snapshot EXCEPT ![t] = None]
    /\ leftover' = leftover \ {o}
    /\ UNCHANGED <<paths, purpose, found, systemTz, chosen, overlapped, settled, early>>

\* No zone: a malformed TZ ID, init_paths() raised, or no file can be read.
\* TimeZoneNotFoundError, or the initialiser's error, is raised.
GetFails(t) ==
    /\ \/ phase[t] = "paths" /\ want[t] \notin BenignKey
       \/ phase[t] \in {"init", "read"}
    /\ phase' = [phase EXCEPT ![t] = "none"]
    /\ snapshot' = [snapshot EXCEPT ![t] = None]
    /\ LoadFails(t)
    /\ purpose' = [purpose EXCEPT ![t] = "get"]
    /\ early' = early \ {t}
    /\ UNCHANGED <<paths, origin, found, systemTz, chosen, overlapped, settled, leftover>>

GetUsesTheirs(t) ==
    /\ UseTheirs(t)
    /\ Deliver(t, purpose[t], Upgrade(want[t]))
    /\ early' = early \ {t}
    /\ UNCHANGED <<paths, phase, snapshot, origin, systemTz, chosen, overlapped, settled, leftover>>

GetInserts(t) ==
    /\ InsertOurs(t)
    /\ Deliver(t, purpose[t], loaded[t])
    /\ leftover' = IF t \in early THEN leftover \cup {loaded[t]} ELSE leftover
    /\ early' = early \ {t}
    /\ UNCHANGED <<paths, phase, snapshot, origin, systemTz, chosen, overlapped, settled>>

\* determine_system_tz(): the zone of a file (type 1), or of a POSIX string
\* after the lookup of a TZ ID found nothing (type 2), has no key.
SystemKeyless(t, o) ==
    /\ Ready(t) /\ "system" \in Purpose
    /\ NewKeyless(o)
    /\ found' = [found EXCEPT ![t] = o]
    /\ origin' = [origin EXCEPT ![o] = None]
    /\ purpose' = [purpose EXCEPT ![t] = "get"]
    /\ leftover' = leftover \ {o}
    /\ UNCHANGED <<paths, phase, snapshot, systemTz, chosen, overlapped, settled, early>>

\* reset_system_tz(): the write lock.
StoreSystemTz(t) ==
    /\ found[t] # None
    /\ systemTz' = found[t]
    /\ found' = [found EXCEPT ![t] = None]
    /\ UNCHANGED <<vars, paths, phase, snapshot, origin, purpose, history>>

\* get_system_tz(): the read lock finds it.
SystemHit(t) ==
    /\ Ready(t)
    /\ systemTz # None
    /\ held' = held \cup {systemTz}
    /\ UNCHANGED <<lookup, lru, key, locals, cleared, storeVars, history>>

\* Faulty variant: the store's own references do not count.
ReleaseAny(o) == Drop(o) /\ UNCHANGED <<storeVars, history>>

\* A ZonedDateTime lets go of its zone; the store's own references stay.
Release(o) ==
    /\ o # systemTz /\ \A t \in Thread : found[t] # o
    /\ Drop(o)
    /\ UNCHANGED <<storeVars, history>>

\* reset_tzpath(p)
set_paths(p) ==
    /\ paths' = p
    /\ chosen' = p
    /\ overlapped' = {t \in Thread : Initialising(t)}
    /\ settled' = None
    /\ UNCHANGED <<vars, phase, snapshot, origin, purpose, found, systemTz, early, leftover>>

ClearAll ==
    /\ clear_all
    /\ early' = {t \in Thread : pc[t] # "idle"}
    /\ leftover' = {}
    /\ settled' = paths
    /\ UNCHANGED <<storeVars, chosen, overlapped>>

ClearOnly(ks) ==
    /\ clear_only(ks)
    /\ UNCHANGED <<storeVars, history>>

LookupNext ==
    \/ \E t \in Thread, k \in Key, why \in Purpose : GetHit(t, k, why) \/ GetMiss(t, k, why)
    \/ \E t \in Thread : \/ SnapshotPaths(t) \/ InitPaths(t) \/ StorePaths(t)
                         \/ PeekPaths(t) \/ PeekStores(t)
                         \/ GetFails(t) \/ GetUsesTheirs(t) \/ GetInserts(t)
                         \/ StoreSystemTz(t) \/ SystemHit(t)
    \/ \E t \in Thread, o \in Obj : \E source \in TzPath \cup {Package} : ReadZone(t, o, source)
    \/ \E t \in Thread, o \in Obj : SystemKeyless(t, o)
    \/ \E o \in Obj : Release(o)

ConfigNext ==
    \/ \E p \in TzPath : set_paths(p)
    \/ ClearAll
    \/ \E ks \in SUBSET Key : ClearOnly(ks)

StoreNext == (LookupNext \/ ConfigNext) /\ UNCHANGED freeThreaded

StoreSpec == StoreInit /\ [][StoreNext]_svars
-----------------------------------------------------------------------------
(***************************************************************************)
(* reset_tzpath() is final in the free-threaded build.  With the GIL it    *)
(* can be lost, but only to a call that was running init_paths() when the  *)
(* path was set and has stored its result since: a call that begins after  *)
(* reset_tzpath() never undoes it.                                         *)
(***************************************************************************)
OverrideLost ==
    ~freeThreaded /\ paths = EnvPath /\ \E t \in overlapped : ~Initialising(t)
TzPathOverrideWins == chosen # None => paths = chosen \/ OverrideLost

(***************************************************************************)
(* What the store guarantees: after clear_tzcache() a zone of the former   *)
(* search path is resolved only if a lookup that was under way during the  *)
(* clear put it back; no lookup that starts later reads one.  Where the    *)
(* override itself was lost, later lookups read the path it was lost to.   *)
(***************************************************************************)
CurrentOrigins == {settled, Package} \cup (IF OverrideLost THEN {EnvPath} ELSE {})
OnlyRacingLoadsSurviveClear ==
    settled # None =>
        \A k \in Key : Upgrade(k) # None =>
            origin[Upgrade(k)] \in CurrentOrigins \/ Upgrade(k) \in leftover

(***************************************************************************)
(* The cached system timezone outlives every eviction and clear, and a     *)
(* system timezone with a TZ ID is the very object that a lookup of the ID *)
(* returns, until a clear.                                                 *)
(***************************************************************************)
SystemTzIsInterned ==
    \A o \in {systemTz} \cup {found[t] : t \in Thread} : o # None =>
        /\ Alive(o)
        /\ key[o] # None => o \in cleared \/ Upgrade(key[o]) = o
=============================================================================
