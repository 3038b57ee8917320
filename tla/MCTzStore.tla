----------------------------- MODULE MCTzStore -----------------------------
(***************************************************************************)
(* TzStore on a small instance: one TZ ID that both settings of the search *)
(* path provide, one that only the second and the package provide, and a   *)
(* malformed one.                                                          *)
(***************************************************************************)
EXTENDS TzStore, TLC

CONSTANT MaxCalls   \* bound: calls of reset_tzpath() and clear_tzcache()

VARIABLE calls

CONSTANTS k1, k2, bad, env, user

MCKey == {k1, k2, bad}
MCBenign == {k1, k2}
MCTzPath == {env, user}
MCProvides == env :> {k1} @@ user :> {k1, k2}
MCTzdata == {k2}

MCNext ==
    /\ \/ LookupNext /\ UNCHANGED calls
       \/ calls < MaxCalls /\ ConfigNext /\ calls' = calls + 1
    /\ UNCHANGED freeThreaded

MCInit == StoreInit /\ calls = 0

MCSpec == MCInit /\ [][MCNext]_<<svars, calls>>

\* What a freed allocation last contained is never read: it is no part of the state.
\* Nor is which of the overlapped threads are done, beyond what has come of it.
LiveView ==
    LET live == {o \in Obj : ~Fresh(o)}
        pending == {t \in overlapped : ~freeThreaded /\ Initialising(t)}
    IN
    <<table, held, locals, freeThreaded, paths, phase, snapshot, purpose, found, systemTz,
      chosen, OverrideLost, pending, settled, early, calls, cleared \cap live, leftover \cap live,
      [o \in live |-> <<key[o], origin[o]>>]>>

Symmetry == Permutations(Thread) \cup Permutations(Obj)
=============================================================================
