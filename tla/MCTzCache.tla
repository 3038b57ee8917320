----------------------------- MODULE MCTzCache -----------------------------
(***************************************************************************)
(* TzCache on a small instance, with a history of the order of use.        *)
(***************************************************************************)
EXTENDS TzCache, TLC

VARIABLE since   \* since[o]: the zones used after the last use of o

Symmetry == Permutations(Thread) \cup Permutations(Key) \cup Permutations(Obj)

\* o is used: it is the most recent one, and after every other zone's last use.
Use(o) == since' = [x \in Obj |-> IF x = o THEN {} ELSE since[x] \cup {o}]

\* The uses of a zone that has gone are no uses of the one in its memory.
Renew(o) == since' = [x \in Obj |-> IF x = o THEN {} ELSE since[x] \ {o}]

\* The uses of cleared zones no longer count.
Forget(S) == since' = [x \in Obj |-> since[x] \ S]

HistoryNext ==
    \/ \E t \in Thread :
         \/ \E k \in Key : \/ LookupHit(t, k) /\ Use(Upgrade(k))
                           \/ LookupMiss(t, k) /\ UNCHANGED since
         \/ \E o \in Obj : Load(t, o) /\ Renew(o)
         \/ LoadFails(t) /\ UNCHANGED since
         \/ UseTheirs(t) /\ Use(Upgrade(want[t]))
         \/ InsertOurs(t) /\ Use(loaded[t])
    \/ \E o \in Obj : NewKeyless(o) /\ Renew(o)
    \/ \E o \in Obj : Drop(o) /\ UNCHANGED since
    \/ clear_all /\ Forget(Obj)
    \/ \E ks \in SUBSET Key : clear_only(ks) /\ Forget({o \in Obj : key[o] \in ks})

HistoryInit == Init /\ since = [o \in Obj |-> {}]

MCSpec == HistoryInit /\ [][HistoryNext]_<<vars, since>>

(***************************************************************************)
(* The LRU holds the most recently used zones, most recent first: the      *)
(* zones used since the last use of any one in it are exactly those before *)
(* it.  So an eviction takes the zone whose last use is the longest ago,   *)
(* and a hit counts as a use.                                              *)
(***************************************************************************)
LruIsMostRecentlyUsed ==
    \A i \in DOMAIN lru : since[lru[i]] = {lru[j] : j \in 1 .. i - 1}

=============================================================================
