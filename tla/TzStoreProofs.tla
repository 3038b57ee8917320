--------------------------- MODULE TzStoreProofs ---------------------------
(***************************************************************************)
(* Proofs about TzCache and TzStore, for any number of threads, TZ IDs and *)
(* allocations and any LRU capacity.  The first part is about the cache    *)
(* alone.  The store drives its cache only through the cache's own         *)
(* operations, so that what is proved of TzCache holds of the cache inside *)
(* the store.                                                              *)
(***************************************************************************)
EXTENDS TzStore, MCTzCache, SequenceTheorems, TLAPS


Elems(s) == {s[i] : i \in DOMAIN s}
Distinct(s) == \A i, j \in DOMAIN s : s[i] = s[j] => i = j

\* new_to_lru puts o first, drops at most the last element, and keeps the bound.
LEMMA NewToLru ==
    ASSUME NEW o \in Obj, NEW s \in Seq(Obj), Len(s) <= LRU_CAPACITY
    PROVE  LET r == new_to_lru(o, s) IN
           /\ r \in Seq(Obj)
           /\ Len(r) <= LRU_CAPACITY
           /\ o \in Elems(r)
           /\ Elems(r) \subseteq Elems(s) \cup {o}
           /\ Distinct(s) /\ o \notin Elems(s) => Distinct(r)
           /\ r[1] = o
           /\ \A i \in 2 .. Len(r) : i - 1 \in DOMAIN s /\ r[i] = s[i - 1]
<1> DEFINE q == IF Len(s) = LRU_CAPACITY THEN SubSeq(s, 1, Len(s) - 1) ELSE s
           r == <<o>> \o q
<1>1. /\ q \in Seq(Obj)
      /\ Len(q) <= LRU_CAPACITY - 1
      /\ Len(q) <= Len(s)
      /\ \A i \in 1 .. Len(q) : q[i] = s[i]
  BY CapacityAssumption
<1> HIDE DEF q
<1>2. /\ r \in Seq(Obj)
      /\ Len(r) = Len(q) + 1
      /\ r[1] = o
      /\ \A i \in 2 .. Len(r) : i - 1 \in 1 .. Len(q) /\ r[i] = q[i - 1]
  BY <1>1
<1> HIDE DEF r
<1>3. Len(r) <= LRU_CAPACITY
  BY <1>1, <1>2, CapacityAssumption
<1>4. \A i \in 2 .. Len(r) : i - 1 \in DOMAIN s /\ r[i] = s[i - 1]
  BY <1>1, <1>2
<1>5. o \in Elems(r)
  BY <1>1, <1>2 DEF Elems
<1>6. Elems(r) \subseteq Elems(s) \cup {o}
  BY <1>2, <1>4 DEF Elems
<1>7. ASSUME Distinct(s), o \notin Elems(s)
      PROVE  Distinct(r)
  <2> SUFFICES ASSUME NEW i \in DOMAIN r, NEW j \in DOMAIN r, r[i] = r[j]
               PROVE  i = j
    BY DEF Distinct
  <2>1. i \in 1 .. Len(r) /\ j \in 1 .. Len(r)
    BY <1>2
  <2>2. CASE i = 1 \/ j = 1
    BY <2>1, <2>2, <1>2, <1>4, <1>7 DEF Elems
  <2>3. CASE i # 1 /\ j # 1
    BY <2>1, <2>3, <1>4, <1>7 DEF Distinct
  <2> QED BY <2>2, <2>3
<1> QED
  BY <1>2, <1>3, <1>4, <1>5, <1>6, <1>7 DEF new_to_lru, r, q

\* promote_lru of an element: it moves from its position to the front, and the
\* elements before it move one to the right.
LEMMA PromoteShape ==
    ASSUME NEW o \in Obj, NEW s \in Seq(Obj), Distinct(s), o \in Elems(s)
    PROVE  LET r == promote_lru(o, s) IN
           /\ r \in Seq(Obj)
           /\ Len(r) = Len(s)
           /\ r[1] = o
           /\ \E p \in 1 .. Len(s) :
                /\ s[p] = o
                /\ \A i \in 2 .. Len(r) : r[i] = IF i - 1 < p THEN s[i - 1] ELSE s[i]
<1> DEFINE p == Position(o, s)
           q == RemoveAt(s, p)
           r == <<o>> \o q
<1>1. p \in 1 .. Len(s) /\ s[p] = o
  <2>1. PICK i \in DOMAIN s : s[i] = o
    BY DEF Elems
  <2>2. \A j \in 1 .. i - 1 : j \in DOMAIN s /\ s[j] # o
    BY <2>1 DEF Distinct
  <2> QED BY <2>1, <2>2 DEF Position
<1> HIDE DEF p
<1>2. /\ q \in Seq(Obj)
      /\ Len(q) = Len(s) - 1
      /\ \A i \in 1 .. Len(q) : q[i] = IF i < p THEN s[i] ELSE s[i + 1]
  <2> DEFINE a == SubSeq(s, 1, p - 1)
             b == SubSeq(s, p + 1, Len(s))
  <2>1. a \in Seq(Obj) /\ Len(a) = p - 1 /\ \A i \in 1 .. p - 1 : a[i] = s[i]
    BY <1>1
  <2>2. /\ b \in Seq(Obj)
        /\ Len(b) = Len(s) - p
        /\ \A i \in 1 .. Len(s) - p : b[i] = s[i + p]
    BY <1>1
  <2>3. q = a \o b
    BY DEF RemoveAt
  <2> HIDE DEF a, b, q
  <2>4. q \in Seq(Obj) /\ Len(q) = Len(s) - 1
    <3>1. q \in Seq(Obj) /\ Len(q) = Len(a) + Len(b)
      BY <2>1, <2>2, <2>3, ConcatProperties
    <3> QED BY <3>1, <1>1, <2>1, <2>2
  <2>5. ASSUME NEW i \in 1 .. Len(q)
        PROVE  q[i] = IF i < p THEN s[i] ELSE s[i + 1]
    <3>1. CASE i < p
      BY <3>1, <1>1, <2>1, <2>2, <2>3
    <3>2. CASE i >= p
      <4>1. q[i] = b[i - (p - 1)]
        BY <3>2, <1>1, <2>1, <2>2, <2>3, <2>4
      <4> QED BY <4>1, <3>2, <1>1, <2>2, <2>4, SMTT(40)
    <3> QED BY <1>1, <2>4, <3>1, <3>2
  <2> QED BY <2>4, <2>5
<1> HIDE DEF q
<1>3. /\ r \in Seq(Obj)
      /\ Len(r) = Len(s)
      /\ r[1] = o
      /\ \A i \in 2 .. Len(r) : r[i] = IF i - 1 < p THEN s[i - 1] ELSE s[i]
  BY <1>1, <1>2
<1>4. promote_lru(o, s) = r
  BY DEF promote_lru, Elems, r, q, p
<1> HIDE DEF r
<1> QED BY <1>1, <1>3, <1>4

\* promote_lru puts o first and adds no other element; duplicates stay absent.
LEMMA PromoteLru ==
    ASSUME NEW o \in Obj, NEW s \in Seq(Obj), Len(s) <= LRU_CAPACITY, Distinct(s)
    PROVE  LET r == promote_lru(o, s) IN
           /\ r \in Seq(Obj)
           /\ Len(r) <= LRU_CAPACITY
           /\ o \in Elems(r)
           /\ Elems(r) \subseteq Elems(s) \cup {o}
           /\ Distinct(r)
<1>1. CASE o \in Elems(s)
  <2> DEFINE r == promote_lru(o, s)
  <2>1. r \in Seq(Obj) /\ Len(r) = Len(s) /\ r[1] = o
    BY <1>1, PromoteShape
  <2>2. PICK p \in 1 .. Len(s) :
          /\ s[p] = o
          /\ \A i \in 2 .. Len(r) : r[i] = IF i - 1 < p THEN s[i - 1] ELSE s[i]
    BY <1>1, PromoteShape
  <2> HIDE DEF r
  <2>4. o \in Elems(r) /\ Elems(r) \subseteq Elems(s) \cup {o}
    BY <2>1, <2>2 DEF Elems
  <2>5. Distinct(r)
    <3> SUFFICES ASSUME NEW i \in 1 .. Len(r), NEW j \in 1 .. Len(r), r[i] = r[j]
                 PROVE  i = j
      BY <2>1 DEF Distinct
    <3> DEFINE at(n) == IF n = 1 THEN p ELSE IF n - 1 < p THEN n - 1 ELSE n
    <3>1. r[i] = s[at(i)] /\ at(i) \in DOMAIN s
      BY <2>1, <2>2
    <3>2. r[j] = s[at(j)] /\ at(j) \in DOMAIN s
      BY <2>1, <2>2
    <3>3. at(i) = at(j)
      BY <3>1, <3>2 DEF Distinct
    <3> QED BY <3>3, <2>1, <2>2
  <2> QED BY <2>1, <2>4, <2>5 DEF r
<1>2. CASE o \notin Elems(s)
  <2>1. promote_lru(o, s) = new_to_lru(o, s)
    BY <1>2 DEF promote_lru, Elems
  <2> QED BY <2>1, <1>2, NewToLru
<1> QED BY <1>1, <1>2
-----------------------------------------------------------------------------
(***************************************************************************)
(* The inductive invariant.  SharedIdentity is not inductive alone: that   *)
(* InsertOurs does not displace a zone in use needs the LRU and the table  *)
(* to agree (what is alive is found by Upgrade), and that it adds no       *)
(* duplicate needs the loaded zone to be private to its thread.            *)
(***************************************************************************)
ThreadsOK ==
    \A t \in Thread : /\ pc[t] # "idle" => want[t] \in Key
                      /\ pc[t] = "insert" => loaded[t] # None

IndInv ==
    /\ TypeOK
    /\ LruCoherent
    /\ SharedIdentity
    /\ LoadedIsPrivate
    /\ ThreadsOK

LEMMA InitInd == Init => IndInv
  BY CapacityAssumption, NoneAssumption
  DEF Init, IndInv, TypeOK, LruCoherent, SharedIdentity, LoadedIsPrivate,
      ThreadsOK, InLru

\* The LRU's elements, read through Elems and Distinct.
LEMMA LruFacts ==
    ASSUME IndInv
    PROVE  /\ lru \in Seq(Obj)
           /\ Len(lru) <= LRU_CAPACITY
           /\ Distinct(lru)
           /\ InLru = Elems(lru)
           /\ \A o \in Elems(lru) : o \in Obj /\ key[o] \in Key /\ lookup[key[o]] = o
  BY DEF IndInv, TypeOK, LruCoherent, InLru, Elems, Distinct

\* A successful upgrade returns the zone filed under the key, alive and unloaded.
LEMMA UpgradeFacts ==
    ASSUME IndInv, NEW k \in Key
    PROVE  /\ Upgrade(k) # None =>
                /\ Upgrade(k) \in Obj
                /\ Upgrade(k) = lookup[k]
                /\ key[Upgrade(k)] = k
           /\ Upgrade(k) = None =>
                \A o \in InLru \cup held : lookup[k] # o
  BY NoneAssumption
  DEF IndInv, TypeOK, LruCoherent, Upgrade, Alive, InLru

\* A step that makes u, the zone that k resolves to, the front of the LRU.
LEMMA PromoteStep ==
    ASSUME IndInv, NEW k \in Key, Upgrade(k) # None,
           lru' = promote_lru(Upgrade(k), lru),
           held' = held \cup {Upgrade(k)},
           UNCHANGED <<lookup, key, cleared>>,
           ASSUME NEW t \in Thread PROVE loaded'[t] \in {loaded[t], None}
    PROVE  /\ lru' \in Seq(Obj) /\ Len(lru') <= LRU_CAPACITY /\ held' \subseteq Obj
           /\ LruCoherent'
           /\ SharedIdentity'
           /\ \A t \in Thread : loaded[t] # None =>
                  loaded[t] \notin held' \cup InLru'
<1> DEFINE u == Upgrade(k)
<1>1. u \in Obj /\ u = lookup[k] /\ key[u] = k
  BY UpgradeFacts
<1>2. /\ lru' \in Seq(Obj)
      /\ Len(lru') <= LRU_CAPACITY
      /\ Elems(lru') \subseteq Elems(lru) \cup {u}
      /\ Distinct(lru')
  BY <1>1, PromoteLru, LruFacts
<1>3. \A o \in Elems(lru') : o \in Obj /\ key[o] \in Key /\ lookup[key[o]] = o
  BY <1>1, <1>2, LruFacts
<1> HIDE DEF u
<1>4. held' = held \cup {u} /\ lookup' = lookup /\ key' = key /\ cleared' = cleared
  BY DEF u
<1>5. LruCoherent'
  BY <1>2, <1>3, <1>4 DEF LruCoherent, Elems, Distinct, IndInv
<1>6. SharedIdentity' /\ held' \subseteq Obj
  BY <1>1, <1>4 DEF SharedIdentity, IndInv, TypeOK
<1>8. ASSUME NEW t \in Thread, loaded[t] # None
      PROVE  loaded[t] \notin held' \cup InLru'
  <2>1. /\ loaded[t] \notin held \cup InLru
        /\ \A j \in Key : lookup[j] # loaded[t]
    BY <1>8 DEF IndInv, LoadedIsPrivate
  <2>2. InLru' \subseteq InLru \cup {u}
    BY <1>2, LruFacts DEF InLru, Elems
  <2> QED BY <2>1, <2>2, <1>1, <1>4
<1> QED BY <1>2, <1>5, <1>6, <1>8

\* Every step of the cache preserves the invariant, action by action.
LEMMA StepInd == IndInv /\ [Next]_vars => IndInv'
<1> SUFFICES ASSUME IndInv, [Next]_vars PROVE IndInv'
  OBVIOUS
<1> USE NoneAssumption, CapacityAssumption
<1>1. ASSUME NEW t \in Thread, NEW k \in Key, LookupHit(t, k)
      PROVE  IndInv'
  <2>1. /\ lru' \in Seq(Obj) /\ Len(lru') <= LRU_CAPACITY /\ held' \subseteq Obj
        /\ LruCoherent' /\ SharedIdentity'
        /\ \A v \in Thread : loaded[v] # None => loaded[v] \notin held' \cup InLru'
    BY <1>1, PromoteStep DEF LookupHit, locals
  <2>2. TypeOK' /\ ThreadsOK'
    BY <1>1, <2>1 DEF IndInv, TypeOK, ThreadsOK, LookupHit, locals
  <2>3. LoadedIsPrivate'
    BY <1>1, <2>1 DEF IndInv, LoadedIsPrivate, LookupHit, locals
  <2> QED BY <2>1, <2>2, <2>3 DEF IndInv
<1>2. ASSUME NEW t \in Thread, NEW k \in Key, LookupMiss(t, k)
      PROVE  IndInv'
  <2>1. TypeOK' /\ ThreadsOK'
    BY <1>2 DEF IndInv, TypeOK, ThreadsOK, LookupMiss, table
  <2>2. LruCoherent' /\ SharedIdentity'
    BY <1>2 DEF IndInv, LruCoherent, SharedIdentity, LookupMiss, table
  <2>3. LoadedIsPrivate'
    BY <1>2 DEF IndInv, TypeOK, LoadedIsPrivate, LookupMiss, table, InLru
  <2> QED BY <2>1, <2>2, <2>3 DEF IndInv
<1>3. ASSUME NEW t \in Thread, NEW o \in Obj, Load(t, o)
      PROVE  IndInv'
  <2>1. TypeOK' /\ ThreadsOK'
    BY <1>3 DEF IndInv, TypeOK, ThreadsOK, Load, table
  <2>2. /\ o \notin InLru \cup held
        /\ \A v \in Thread : loaded[v] # o
        /\ \A k \in Key : lookup[k] # o
    BY <1>3 DEF Load, Fresh, Alive
  <2>3. LruCoherent'
    BY <1>3, <2>2
    DEF IndInv, TypeOK, LruCoherent, Load, table, InLru
  <2>4. SharedIdentity'
    BY <1>3, <2>2 DEF IndInv, TypeOK, SharedIdentity, Load, table
  <2>5. LoadedIsPrivate'
    BY <1>3, <2>2 DEF IndInv, TypeOK, LoadedIsPrivate, Load, table, InLru
  <2> QED BY <2>1, <2>3, <2>4, <2>5 DEF IndInv
<1>4. ASSUME NEW t \in Thread, LoadFails(t)
      PROVE  IndInv'
  <2>1. TypeOK' /\ ThreadsOK'
    BY <1>4 DEF IndInv, TypeOK, ThreadsOK, LoadFails, Return, table
  <2>2. LruCoherent' /\ SharedIdentity'
    BY <1>4 DEF IndInv, LruCoherent, SharedIdentity, LoadFails, table
  <2>3. LoadedIsPrivate'
    BY <1>4 DEF IndInv, TypeOK, LoadedIsPrivate, LoadFails, Return, table, InLru
  <2> QED BY <2>1, <2>2, <2>3 DEF IndInv
<1>5. ASSUME NEW t \in Thread, UseTheirs(t)
      PROVE  IndInv'
  <2>1. want[t] \in Key
    BY <1>5 DEF IndInv, ThreadsOK, UseTheirs
  <2>2. \A v \in Thread : loaded'[v] \in {loaded[v], None}
    BY <1>5 DEF IndInv, TypeOK, UseTheirs, Return
  <2>3. /\ lru' \in Seq(Obj) /\ Len(lru') <= LRU_CAPACITY /\ held' \subseteq Obj
        /\ LruCoherent' /\ SharedIdentity'
        /\ \A v \in Thread : loaded[v] # None => loaded[v] \notin held' \cup InLru'
    BY <1>5, <2>1, <2>2, PromoteStep DEF UseTheirs
  <2>4. TypeOK' /\ ThreadsOK'
    BY <1>5, <2>3 DEF IndInv, TypeOK, ThreadsOK, UseTheirs, Return
  <2>5. LoadedIsPrivate'
    BY <1>5, <2>2, <2>3 DEF IndInv, TypeOK, LoadedIsPrivate, UseTheirs, Return
  <2> QED BY <2>3, <2>4, <2>5 DEF IndInv
<1>6. ASSUME NEW t \in Thread, InsertOurs(t)
      PROVE  IndInv'
  <2> DEFINE k == want[t]
             o == loaded[t]
  <2>1. /\ k \in Key /\ o \in Obj /\ key[o] = k
        /\ o \notin held \cup InLru
        /\ \A j \in Key : lookup[j] # o
        /\ \A v \in Thread \ {t} : loaded[v] # o
    BY <1>6 DEF IndInv, TypeOK, ThreadsOK, LoadedIsPrivate, InsertOurs
  <2>2. \A p \in InLru \cup held : lookup[k] # p
    BY <1>6, <2>1, UpgradeFacts DEF InsertOurs
  <2>3. /\ lru' \in Seq(Obj)
        /\ Len(lru') <= LRU_CAPACITY
        /\ Elems(lru') \subseteq Elems(lru) \cup {o}
        /\ Distinct(lru')
    BY <1>6, <2>1, LruFacts, NewToLru DEF InsertOurs
  <2>4. /\ lookup' = [lookup EXCEPT ![k] = o] /\ held' = held \cup {o}
        /\ key' = key /\ cleared' = cleared
        /\ loaded' = [loaded EXCEPT ![t] = None]
        /\ pc' = [pc EXCEPT ![t] = "idle"]
        /\ want' = [want EXCEPT ![t] = None]
    BY <1>6 DEF InsertOurs, Return
  <2> HIDE DEF k, o
  <2>5. TypeOK' /\ ThreadsOK'
    BY <2>1, <2>3, <2>4 DEF IndInv, TypeOK, ThreadsOK
  <2>6. \A p \in Elems(lru') : p \in Obj /\ key[p] \in Key /\ lookup'[key[p]] = p
    BY <2>1, <2>2, <2>3, <2>4, LruFacts DEF IndInv, TypeOK
  <2>7. LruCoherent'
    BY <2>1, <2>3, <2>4, <2>6 DEF IndInv, TypeOK, LruCoherent, Elems, Distinct
  <2>9. SharedIdentity'
    BY <2>1, <2>2, <2>4 DEF IndInv, TypeOK, SharedIdentity
  <2>10. LoadedIsPrivate'
    <3>1. InLru' \subseteq InLru \cup {o}
      BY <2>3, LruFacts DEF InLru, Elems
    <3> QED BY <3>1, <2>1, <2>4 DEF IndInv, TypeOK, LoadedIsPrivate
  <2> QED BY <2>5, <2>7, <2>9, <2>10 DEF IndInv
<1>7. ASSUME NEW o \in Obj, Drop(o)
      PROVE  IndInv'
  BY <1>7 DEF IndInv, TypeOK, LruCoherent, SharedIdentity, LoadedIsPrivate,
              ThreadsOK, InLru, Drop, table, locals
<1>8. CASE clear_all
  <2>1. TypeOK' /\ ThreadsOK'
    BY <1>8 DEF IndInv, TypeOK, ThreadsOK, clear_all, locals
  <2>2. LruCoherent'
    BY <1>8 DEF IndInv, TypeOK, LruCoherent, clear_all
  <2>3. SharedIdentity'
    BY <1>8 DEF IndInv, TypeOK, SharedIdentity, clear_all
  <2>4. LoadedIsPrivate'
    BY <1>8 DEF IndInv, TypeOK, LoadedIsPrivate, InLru, clear_all, locals
  <2> QED BY <2>1, <2>2, <2>3, <2>4 DEF IndInv
<1>9. ASSUME NEW ks \in SUBSET Key, clear_only(ks)
      PROVE  IndInv'
  <2>0. PICK n \in 0 .. Len(lru) : \E f \in [1 .. n -> DOMAIN lru] :
          /\ \A i, j \in 1 .. n : i < j => f[i] < f[j]
          /\ {f[i] : i \in 1 .. n} = {i \in DOMAIN lru : key[lru[i]] \notin ks}
          /\ lru' = [i \in 1 .. n |-> lru[f[i]]]
    BY <1>9 DEF clear_only
  <2>1. PICK kept \in [1 .. n -> DOMAIN lru] :
          /\ \A i, j \in 1 .. n : i < j => kept[i] < kept[j]
          /\ {kept[i] : i \in 1 .. n} = {i \in DOMAIN lru : key[lru[i]] \notin ks}
          /\ lru' = [i \in 1 .. n |-> lru[kept[i]]]
    BY <2>0
  <2>2. /\ lru' \in Seq(Obj) /\ Len(lru') = n /\ Len(lru') <= LRU_CAPACITY
        /\ DOMAIN lru' = 1 .. n
        /\ \A i \in 1 .. n : lru'[i] = lru[kept[i]] /\ kept[i] \in DOMAIN lru
    BY <2>1 DEF IndInv, TypeOK
  <2>3. \A i \in 1 .. n : key[lru'[i]] \in Key \ ks
    <3>1. \A i \in 1 .. n : key[lru[kept[i]]] \notin ks
      BY <2>1
    <3> QED BY <3>1, <2>2 DEF IndInv, LruCoherent
  <2>4. TypeOK' /\ ThreadsOK'
    BY <1>9, <2>2 DEF IndInv, TypeOK, ThreadsOK, clear_only, locals
  <2>5. Distinct(lru')
    <3> SUFFICES ASSUME NEW i \in 1 .. n, NEW j \in 1 .. n, lru'[i] = lru'[j]
                 PROVE  i = j
      BY <2>2 DEF Distinct
    <3>1. kept[i] = kept[j]
      BY <2>2 DEF IndInv, LruCoherent
    <3>2. kept[i] \in Nat /\ kept[j] \in Nat
      BY <2>2 DEF IndInv, TypeOK
    <3> QED BY <3>1, <3>2, <2>1
  <2>6. lookup' = [j \in Key |-> IF j \in ks THEN None ELSE lookup[j]] /\ key' = key
    BY <1>9 DEF clear_only
  <2>7. LruCoherent'
    <3>1. \A i \in DOMAIN lru' : lookup'[key'[lru'[i]]] = lru'[i]
      BY <2>2, <2>3, <2>6 DEF IndInv, LruCoherent
    <3>2. \A j \in Key : lookup'[j] # None => key'[lookup'[j]] = j
      BY <2>6 DEF IndInv, LruCoherent
    <3> QED BY <3>1, <3>2, <2>2, <2>3, <2>5, <2>6 DEF LruCoherent, Distinct
  <2>8. SharedIdentity'
    BY <1>9 DEF IndInv, TypeOK, SharedIdentity, clear_only
  <2>9. LoadedIsPrivate'
    <3>1. InLru' \subseteq InLru
      BY <2>2 DEF InLru
    <3> QED BY <1>9, <2>6, <3>1 DEF IndInv, TypeOK, LoadedIsPrivate, clear_only, locals
  <2> QED BY <2>4, <2>7, <2>8, <2>9 DEF IndInv
<1>10. ASSUME NEW o \in Obj, NewKeyless(o)
       PROVE  IndInv'
  <2>1. TypeOK' /\ ThreadsOK'
    BY <1>10 DEF IndInv, TypeOK, ThreadsOK, NewKeyless, table, locals
  <2>2. /\ o \notin InLru \cup held
        /\ \A v \in Thread : loaded[v] # o
        /\ \A k \in Key : lookup[k] # o
    BY <1>10 DEF NewKeyless, Fresh, Alive
  <2>3. LruCoherent'
    BY <1>10, <2>2 DEF IndInv, TypeOK, LruCoherent, NewKeyless, table, InLru
  <2>4. SharedIdentity'
    BY <1>10, <2>2 DEF IndInv, TypeOK, SharedIdentity, NewKeyless, table
  <2>5. LoadedIsPrivate'
    BY <1>10, <2>2 DEF IndInv, TypeOK, LoadedIsPrivate, NewKeyless, table, locals, InLru
  <2> QED BY <2>1, <2>3, <2>4, <2>5 DEF IndInv
<1>11. CASE UNCHANGED vars
  BY <1>11 DEF IndInv, TypeOK, LruCoherent, SharedIdentity, LoadedIsPrivate,
               ThreadsOK, InLru, vars
<1> QED
  BY <1>1, <1>2, <1>3, <1>4, <1>5, <1>6, <1>7, <1>8, <1>9, <1>10, <1>11 DEF Next, Get

LEMMA Invariance == Spec => []IndInv
  BY InitInd, StepInd, PTL DEF Spec

\* Type correctness: the lookup table, the LRU and the locals keep their types,
\* and the LRU never exceeds LRU_CAPACITY.
THEOREM TypeCorrect == Spec => []TypeOK
  BY Invariance, PTL DEF IndInv

\* In every reachable state the LRU and the lookup table agree.
THEOREM LruCoherence == Spec => []LruCoherent
  BY Invariance, PTL DEF IndInv

\* Two ZonedDateTimes of one TZ ID share their TimeZone unless a clear intervened.
THEOREM IdentityIsShared == Spec => []SharedIdentity
  BY Invariance, PTL DEF IndInv

\* A zone that was loaded and not yet inserted is known to its thread alone.
THEOREM LoadedZonesArePrivate == Spec => []LoadedIsPrivate
  BY Invariance, PTL DEF IndInv
-----------------------------------------------------------------------------
(***************************************************************************)
(* The refinement: what a key resolves to is a function of the table, the  *)
(* LRU and the zones in use; the locals of the threads do not matter.      *)
(***************************************************************************)
LEMMA CanonFacts ==
    ASSUME IndInv, NEW k \in Key
    PROVE  /\ Upgrade(k) = IF lookup[k] \in InLru \cup held THEN lookup[k] ELSE None
           /\ Upgrade(k) \in Obj \cup {None}
           /\ \A j \in Key \ {k} : lookup[k] = lookup[j] => lookup[k] = None
           /\ None \notin InLru \cup held
<1>1. \A t \in Thread : lookup[k] = loaded[t] => lookup[k] = None
  BY DEF IndInv, LoadedIsPrivate
<1>2. None \notin InLru \cup held
  BY NoneAssumption DEF IndInv, TypeOK, InLru
<1>3. Upgrade(k) = IF lookup[k] \in InLru \cup held THEN lookup[k] ELSE None
  BY <1>1, <1>2 DEF Upgrade, Alive
<1>4. Upgrade(k) \in Obj \cup {None}
  BY <1>3 DEF IndInv, TypeOK
<1>5. \A j \in Key \ {k} : lookup[k] = lookup[j] => lookup[k] = None
  BY DEF IndInv, LruCoherent
<1> QED BY <1>2, <1>3, <1>4, <1>5

LEMMA CanonFactsPrime ==
    ASSUME IndInv', NEW k \in Key
    PROVE  /\ Upgrade(k)' = IF lookup'[k] \in InLru' \cup held' THEN lookup'[k] ELSE None
           /\ Upgrade(k)' \in Obj \cup {None}
           /\ None \notin InLru' \cup held'
<1>1. \A t \in Thread : lookup'[k] = loaded'[t] => lookup'[k] = None
  BY DEF IndInv, LoadedIsPrivate
<1>2. None \notin InLru' \cup held'
  BY NoneAssumption DEF IndInv, TypeOK, InLru
<1>3. Upgrade(k)' = IF lookup'[k] \in InLru' \cup held' THEN lookup'[k] ELSE None
  BY <1>1, <1>2 DEF Upgrade, Alive
<1>4. Upgrade(k)' \in Obj \cup {None}
  BY <1>3 DEF IndInv, TypeOK
<1> QED BY <1>2, <1>3, <1>4

\* A step that leaves the table and the zones in use alone is a stuttering step.
LEMMA StutterStep ==
    ASSUME IndInv, IndInv', UNCHANGED <<lookup, lru, held>>
    PROVE  UNCHANGED Interned!absVars
<1>1. \A k \in Key : Upgrade(k)' = Upgrade(k)
  BY CanonFacts, CanonFactsPrime DEF InLru
<1> QED BY <1>1 DEF Interned!absVars

\* A step that hands o out as the zone of k and evicts at most unused zones.
LEMMA ResolveStep ==
    ASSUME IndInv, IndInv', NEW k \in Key, NEW o \in Obj,
           Upgrade(k) = o \/ (Upgrade(k) = None /\ o \notin held
                                 /\ \A j \in Key : lookup[j] # o),
           lookup'[k] = o,
           \A j \in Key \ {k} : lookup'[j] = lookup[j],
           held' = held \cup {o},
           InLru' \subseteq InLru \cup {o}
    PROVE  Interned!Resolve(k, o)
<1>1. Upgrade(k)' = o
  BY CanonFactsPrime
<1>2. ASSUME NEW j \in Key \ {k}
      PROVE  \/ Upgrade(j)' = Upgrade(j)
             \/ Upgrade(j)' = None /\ Upgrade(j) \notin held
  <2>1. lookup[j] = o => FALSE
    BY CanonFacts, NoneAssumption
  <2> QED BY <2>1, CanonFacts, CanonFactsPrime, NoneAssumption
<1>3. \A j \in Key : Upgrade(j) = o => lookup[j] = o
  BY CanonFacts, NoneAssumption
<1>4. \A j \in Key : Upgrade(j)' \in Obj \cup {None}
  BY CanonFactsPrime
<1> QED
  BY <1>1, <1>2, <1>3, <1>4 DEF Interned!Resolve, Interned!MayForget

LEMMA StepRefines ==
    IndInv /\ IndInv' /\ [Next]_vars => [Interned!Next]_(Interned!absVars)
<1> SUFFICES ASSUME IndInv, IndInv', [Next]_vars
             PROVE  Interned!Next \/ UNCHANGED Interned!absVars
  OBVIOUS
<1> USE NoneAssumption
<1>1. ASSUME NEW t \in Thread, NEW k \in Key, LookupHit(t, k)
      PROVE  Interned!Next
  <2> DEFINE o == Upgrade(k)
  <2>1. o \in Obj /\ o = lookup[k]
    BY <1>1, UpgradeFacts DEF LookupHit
  <2>2. InLru' \subseteq InLru \cup {o}
    <3>1. Elems(lru') \subseteq Elems(lru) \cup {o}
      BY <1>1, <2>1, PromoteLru, LruFacts DEF LookupHit
    <3> QED BY <3>1, LruFacts DEF InLru, Elems
  <2>3. lookup' = lookup /\ held' = held \cup {o}
    BY <1>1 DEF LookupHit
  <2>4. Interned!Resolve(k, o)
    BY <2>1, <2>2, <2>3, ResolveStep
  <2> QED BY <2>1, <2>4 DEF Interned!Next
<1>2. ASSUME NEW t \in Thread, NEW k \in Key, LookupMiss(t, k)
      PROVE  UNCHANGED Interned!absVars
  BY <1>2, StutterStep DEF LookupMiss, table
<1>3. ASSUME NEW t \in Thread, NEW o \in Obj, Load(t, o)
      PROVE  UNCHANGED Interned!absVars
  BY <1>3, StutterStep DEF Load, table
<1>4. ASSUME NEW t \in Thread, LoadFails(t)
      PROVE  UNCHANGED Interned!absVars
  BY <1>4, StutterStep DEF LoadFails, table
<1>5. ASSUME NEW t \in Thread, UseTheirs(t)
      PROVE  Interned!Next
  <2> DEFINE k == want[t]
             o == Upgrade(k)
  <2>1. k \in Key /\ o \in Obj /\ o = lookup[k]
    BY <1>5, UpgradeFacts DEF UseTheirs, IndInv, ThreadsOK
  <2>2. InLru' \subseteq InLru \cup {o}
    <3>1. Elems(lru') \subseteq Elems(lru) \cup {o}
      BY <1>5, <2>1, PromoteLru, LruFacts DEF UseTheirs
    <3> QED BY <3>1, LruFacts DEF InLru, Elems
  <2>3. lookup' = lookup /\ held' = held \cup {o}
    BY <1>5 DEF UseTheirs
  <2>4. Interned!Resolve(k, o)
    BY <2>1, <2>2, <2>3, ResolveStep
  <2> QED BY <2>1, <2>4 DEF Interned!Next
<1>6. ASSUME NEW t \in Thread, InsertOurs(t)
      PROVE  Interned!Next
  <2> DEFINE k == want[t]
             o == loaded[t]
  <2>1. /\ k \in Key /\ o \in Obj
        /\ o \notin held
        /\ \A j \in Key : lookup[j] # o
    BY <1>6 DEF IndInv, TypeOK, ThreadsOK, LoadedIsPrivate, InsertOurs
  <2>2. InLru' \subseteq InLru \cup {o}
    <3>1. Elems(lru') \subseteq Elems(lru) \cup {o}
      BY <1>6, <2>1, NewToLru, LruFacts DEF InsertOurs
    <3> QED BY <3>1, LruFacts DEF InLru, Elems
  <2>3. /\ lookup'[k] = o
        /\ \A j \in Key \ {k} : lookup'[j] = lookup[j]
        /\ held' = held \cup {o}
        /\ Upgrade(k) = None
    BY <1>6, <2>1 DEF InsertOurs, IndInv, TypeOK
  <2>4. Interned!Resolve(k, o)
    BY <2>1, <2>2, <2>3, ResolveStep
  <2> QED BY <2>1, <2>4 DEF Interned!Next
<1>7. ASSUME NEW o \in Obj, Drop(o)
      PROVE  Interned!Next
  <2>1. o \in held /\ held' = held \ {o} /\ lookup' = lookup /\ lru' = lru
    BY <1>7 DEF Drop, table
  <2>2. \A k \in Key : \/ Upgrade(k)' = Upgrade(k)
                       \/ Upgrade(k)' = None /\ Upgrade(k) \notin held'
    BY <2>1, CanonFacts, CanonFactsPrime DEF InLru
  <2>3. \A k \in Key : Upgrade(k)' \in Obj \cup {None}
    BY CanonFactsPrime
  <2> QED BY <2>1, <2>2, <2>3 DEF Interned!Next, Interned!Release
<1>8. ASSUME NEW ks \in SUBSET Key,
             lookup' = [k \in Key |-> IF k \in ks THEN None ELSE lookup[k]],
             InLru' \subseteq InLru, held' = held
      PROVE  Interned!Next
  <2>1. \A k \in ks : Upgrade(k)' = None
    BY <1>8, CanonFactsPrime
  <2>2. \A k \in Key \ ks : \/ Upgrade(k)' = Upgrade(k)
                            \/ Upgrade(k)' = None /\ Upgrade(k) \notin held
    BY <1>8, CanonFacts, CanonFactsPrime
  <2>3. \A k \in Key : Upgrade(k)' \in Obj \cup {None}
    BY CanonFactsPrime
  <2>4. Interned!Clear(ks)
    BY <1>8, <2>1, <2>2, <2>3 DEF Interned!Clear, Interned!MayForget
  <2> QED BY <2>4 DEF Interned!Next
<1>9. CASE clear_all
  <2>1. /\ lookup' = [k \in Key |-> IF k \in Key THEN None ELSE lookup[k]]
        /\ InLru' \subseteq InLru
        /\ held' = held
    BY <1>9 DEF clear_all, InLru
  <2> QED BY <2>1, <1>8
<1>10. ASSUME NEW ks \in SUBSET Key, clear_only(ks)
       PROVE  Interned!Next
  <2>1. InLru' \subseteq InLru
    <3>1. PICK n \in 0 .. Len(lru) : \E f \in [1 .. n -> DOMAIN lru] :
            lru' = [i \in 1 .. n |-> lru[f[i]]]
      BY <1>10 DEF clear_only
    <3> QED BY <3>1 DEF InLru
  <2> QED BY <2>1, <1>8, <1>10 DEF clear_only
<1>11. ASSUME NEW o \in Obj, NewKeyless(o)
       PROVE  Interned!Next
  <2>1. /\ o \notin held /\ o \notin InLru
        /\ \A k \in Key : lookup[k] # o
        /\ held' = held \cup {o} /\ lookup' = lookup /\ lru' = lru
    BY <1>11 DEF NewKeyless, Fresh, Alive, table
  <2>2. \A k \in Key : Upgrade(k)' = Upgrade(k) /\ Upgrade(k) # o
    BY <2>1, CanonFacts, CanonFactsPrime DEF InLru
  <2> QED BY <2>1, <2>2 DEF Interned!Next, Interned!Adopt
<1>12. CASE UNCHANGED vars
  BY <1>12, StutterStep DEF vars
<1> QED
  BY <1>1, <1>2, <1>3, <1>4, <1>5, <1>6, <1>7, <1>9, <1>10, <1>11, <1>12 DEF Next, Get

\* The cache of the Rust extension is a weak interning table.
THEOREM CacheInterns == Spec => ImplementsInternTable
<1>1. Init => Interned!Init
  BY NoneAssumption DEF Init, Interned!Init, Upgrade
<1>2. QED
  BY <1>1, Invariance, StepRefines, PTL
  DEF Spec, ImplementsInternTable, Interned!Spec

-----------------------------------------------------------------------------
(***************************************************************************)
(* The order of use.  What the LRU holds before a zone is what was used    *)
(* after it, and one use at a time keeps it so.                            *)
(***************************************************************************)
Recent(s, f) == \A i \in DOMAIN s : f[s[i]] = {s[j] : j \in 1 .. i - 1}

\* The history after a use of o.
Used(o, f) == [x \in Obj |-> IF x = o THEN {} ELSE f[x] \cup {o}]

\* A use that puts a new zone in front, and perhaps evicts the last one.
LEMMA NewIsRecent ==
    ASSUME NEW o \in Obj, NEW s \in Seq(Obj), Len(s) <= LRU_CAPACITY, Distinct(s),
           o \notin Elems(s), NEW f, Recent(s, f)
    PROVE  Recent(new_to_lru(o, s), Used(o, f))
<1> DEFINE r == new_to_lru(o, s)
<1>1. /\ r \in Seq(Obj) /\ r[1] = o
      /\ \A i \in 2 .. Len(r) : i - 1 \in DOMAIN s /\ r[i] = s[i - 1]
  BY NewToLru
<1> HIDE DEF r
<1> SUFFICES ASSUME NEW i \in 1 .. Len(r)
             PROVE  Used(o, f)[r[i]] = {r[j] : j \in 1 .. i - 1}
  <2>1. DOMAIN r = 1 .. Len(r)
    BY <1>1
  <2> QED BY <2>1 DEF Recent, r
<1>2. CASE i = 1
  BY <1>1, <1>2 DEF Used
<1>3. CASE i # 1
  <2>1. i - 1 \in DOMAIN s /\ r[i] = s[i - 1] /\ r[i] \in Obj /\ r[i] # o
    BY <1>1, <1>3 DEF Elems
  <2>2. Used(o, f)[r[i]] = {s[j] : j \in 1 .. i - 2} \cup {o}
    BY <2>1 DEF Used, Recent
  <2>3. ASSUME NEW x \in {s[j] : j \in 1 .. i - 2} \cup {o}
        PROVE  x \in {r[j] : j \in 1 .. i - 1}
    <3>1. CASE x = o
      BY <3>1, <1>1, <1>3
    <3>2. CASE x # o
      <4>1. PICK j \in 1 .. i - 2 : x = s[j]
        BY <2>3, <3>2
      <4>2. j + 1 \in 2 .. Len(r) /\ j + 1 \in 1 .. i - 1 /\ (j + 1) - 1 = j
        BY <1>1, <4>1
      <4>3. r[j + 1] = s[j]
        BY <4>2, <1>1
      <4> QED BY <4>1, <4>2, <4>3
    <3> QED BY <3>1, <3>2
  <2>4. ASSUME NEW j \in 1 .. i - 1
        PROVE  r[j] \in {s[k] : k \in 1 .. i - 2} \cup {o}
    <3>1. CASE j = 1
      BY <3>1, <1>1
    <3>2. CASE j # 1
      <4>1. j \in 2 .. Len(r) /\ j - 1 \in 1 .. i - 2
        BY <3>2
      <4> QED BY <4>1, <1>1
    <3> QED BY <3>1, <3>2
  <2> QED BY <2>2, <2>3, <2>4
<1> QED BY <1>2, <1>3

\* A use of any zone: it moves to the front or enters there.
LEMMA PromoteIsRecent ==
    ASSUME NEW o \in Obj, NEW s \in Seq(Obj), Len(s) <= LRU_CAPACITY, Distinct(s),
           NEW f, Recent(s, f)
    PROVE  Recent(promote_lru(o, s), Used(o, f))
<1>1. CASE o \notin Elems(s)
  <2>1. promote_lru(o, s) = new_to_lru(o, s)
    BY <1>1 DEF promote_lru, Elems
  <2> QED BY <1>1, <2>1, NewIsRecent
<1>2. CASE o \in Elems(s)
  <2> DEFINE r == promote_lru(o, s)
  <2>1. r \in Seq(Obj) /\ Len(r) = Len(s) /\ r[1] = o
    BY <1>2, PromoteShape
  <2>2. PICK p \in 1 .. Len(s) :
          /\ s[p] = o
          /\ \A i \in 2 .. Len(r) : r[i] = IF i - 1 < p THEN s[i - 1] ELSE s[i]
    BY <1>2, PromoteShape
  <2> HIDE DEF r
  <2> SUFFICES ASSUME NEW i \in 1 .. Len(r)
               PROVE  Used(o, f)[r[i]] = {r[j] : j \in 1 .. i - 1}
    <3>1. DOMAIN r = 1 .. Len(r)
      BY <2>1
    <3> QED BY <3>1 DEF Recent, r
  <2>3. CASE i = 1
    BY <2>1, <2>3 DEF Used
  <2>4. CASE i # 1
    <3> DEFINE at == IF i - 1 < p THEN i - 1 ELSE i
    <3>1. at \in 1 .. Len(s) /\ at # p /\ r[i] = s[at] /\ r[i] \in Obj /\ r[i] # o
      <4>1. at \in 1 .. Len(s) /\ at # p /\ i \in 2 .. Len(r)
        BY <2>1, <2>2, <2>4
      <4>2. r[i] = s[at]
        BY <4>1, <2>2
      <4>3. s[at] # s[p] /\ s[at] \in Obj
        BY <4>1 DEF Distinct
      <4> QED BY <4>1, <4>2, <4>3, <2>2
    <3>2. Used(o, f)[r[i]] = {s[j] : j \in 1 .. at - 1} \cup {o}
      BY <3>1 DEF Used, Recent
    <3>3. ASSUME NEW x \in {s[j] : j \in 1 .. at - 1} \cup {o}
          PROVE  x \in {r[j] : j \in 1 .. i - 1}
      <4>1. CASE x = o
        BY <4>1, <2>1, <2>4
      <4>2. CASE x # o
        <5>1. PICK j \in 1 .. at - 1 : x = s[j]
          BY <3>3, <4>2
        <5>2. CASE j < p
          <6>1. j + 1 \in 2 .. Len(r) /\ j + 1 \in 1 .. i - 1 /\ (j + 1) - 1 = j
            BY <2>1, <3>1, <5>1, <5>2
          <6>2. r[j + 1] = s[j]
            BY <6>1, <2>2, <5>2
          <6> QED BY <5>1, <6>1, <6>2
        <5>3. CASE j > p
          <6>1. j \in 2 .. Len(r) /\ j \in 1 .. i - 1 /\ ~(j - 1 < p)
            BY <2>1, <3>1, <5>1, <5>3
          <6>2. r[j] = s[j]
            BY <6>1, <2>2
          <6> QED BY <5>1, <6>1, <6>2
        <5> QED BY <5>1, <5>2, <5>3, <4>2, <2>2
      <4> QED BY <4>1, <4>2
    <3>4. ASSUME NEW j \in 1 .. i - 1
          PROVE  r[j] \in {s[k] : k \in 1 .. at - 1} \cup {o}
      <4>1. CASE j = 1
        BY <4>1, <2>1
      <4>2. CASE j # 1
        <5>1. j \in 2 .. Len(r)
          BY <4>2
        <5>2. r[j] = IF j - 1 < p THEN s[j - 1] ELSE s[j]
          BY <5>1, <2>2
        <5>3. CASE j - 1 < p
          BY <5>2, <5>3, <5>1, <2>1
        <5>4. CASE ~(j - 1 < p)
          BY <5>2, <5>4, <5>1, <2>1
        <5> QED BY <5>3, <5>4
      <4> QED BY <4>1, <4>2
    <3> QED BY <3>2, <3>3, <3>4, ZenonT(40)
  <2> QED BY <2>3, <2>4
<1> QED BY <1>1, <1>2

\* A step that also records the use is a step of the cache.
LEMMA HistoryStepIsStep ==
    ASSUME [HistoryNext]_<<vars, since>>
    PROVE  [Next]_vars
  BY DEF HistoryNext, Next, Get

\* Every step of the cache keeps the LRU in the order of use.
LEMMA RecentStep ==
    ASSUME IndInv, LruIsMostRecentlyUsed, [HistoryNext]_<<vars, since>>
    PROVE  LruIsMostRecentlyUsed'
<1> USE NoneAssumption, CapacityAssumption
<1>1. Recent(lru, since) /\ lru \in Seq(Obj) /\ Len(lru) <= LRU_CAPACITY /\ Distinct(lru)
  BY LruFacts DEF LruIsMostRecentlyUsed, Recent
<1>2. ASSUME Recent(lru', since')
      PROVE  LruIsMostRecentlyUsed'
  BY <1>2 DEF LruIsMostRecentlyUsed, Recent
<1>3. ASSUME NEW o \in Obj, Use(o), lru' = promote_lru(o, lru)
      PROVE  LruIsMostRecentlyUsed'
  <2>1. since' = Used(o, since)
    BY <1>3 DEF Use, Used
  <2>2. Recent(lru', since')
    BY <2>1, <1>1, <1>3, PromoteIsRecent
  <2> QED BY <2>2, <1>2
<1>4. ASSUME NEW t \in Thread, NEW k \in Key, LookupHit(t, k), Use(Upgrade(k))
      PROVE  LruIsMostRecentlyUsed'
  <2>1. Upgrade(k) \in Obj /\ lru' = promote_lru(Upgrade(k), lru)
    BY <1>4, UpgradeFacts DEF LookupHit
  <2> QED BY <2>1, <1>3, <1>4
<1>5. ASSUME NEW t \in Thread, UseTheirs(t), Use(Upgrade(want[t]))
      PROVE  LruIsMostRecentlyUsed'
  <2>1. want[t] \in Key
    BY <1>5 DEF IndInv, ThreadsOK, UseTheirs
  <2>2. Upgrade(want[t]) \in Obj /\ lru' = promote_lru(Upgrade(want[t]), lru)
    BY <1>5, <2>1, UpgradeFacts DEF UseTheirs
  <2> QED BY <2>2, <1>3, <1>5
<1>6. ASSUME NEW t \in Thread, InsertOurs(t), Use(loaded[t])
      PROVE  LruIsMostRecentlyUsed'
  <2>1. loaded[t] \in Obj /\ loaded[t] \notin Elems(lru)
    BY <1>6, LruFacts DEF IndInv, TypeOK, ThreadsOK, LoadedIsPrivate, InsertOurs
  <2>2. since' = Used(loaded[t], since) /\ lru' = new_to_lru(loaded[t], lru)
    BY <1>6 DEF Use, Used, InsertOurs
  <2>3. Recent(lru', since')
    BY <2>1, <2>2, <1>1, NewIsRecent
  <2> QED BY <2>3, <1>2
<1>7. ASSUME NEW o \in Obj, Fresh(o), Renew(o), UNCHANGED lru
      PROVE  LruIsMostRecentlyUsed'
  <2>1. o \notin Elems(lru)
    BY <1>7, LruFacts DEF Fresh, Alive
  <2>2. ASSUME NEW i \in DOMAIN lru
        PROVE  since'[lru[i]] = since[lru[i]]
    <3>1. lru[i] \in Obj /\ lru[i] # o
      BY <1>1, <2>1 DEF Elems
    <3>2. o \notin since[lru[i]]
      BY <1>1, <2>1 DEF Recent, Elems
    <3> QED BY <3>1, <3>2, <1>7 DEF Renew
  <2>3. Recent(lru, since')
    BY <2>2, <1>1 DEF Recent
  <2> QED BY <2>3, <1>2, <1>7
<1>8. ASSUME UNCHANGED <<lru, since>>
      PROVE  LruIsMostRecentlyUsed'
  BY <1>8 DEF LruIsMostRecentlyUsed
<1>9. ASSUME clear_all
      PROVE  LruIsMostRecentlyUsed'
  BY <1>9 DEF LruIsMostRecentlyUsed, clear_all
<1>10. ASSUME NEW ks \in SUBSET Key, clear_only(ks), Forget({o \in Obj : key[o] \in ks})
       PROVE  LruIsMostRecentlyUsed'
  <2>1. PICK n \in 0 .. Len(lru) : \E f \in [1 .. n -> DOMAIN lru] :
          /\ \A i, j \in 1 .. n : i < j => f[i] < f[j]
          /\ {f[i] : i \in 1 .. n} = {i \in DOMAIN lru : key[lru[i]] \notin ks}
          /\ lru' = [i \in 1 .. n |-> lru[f[i]]]
    BY <1>10 DEF clear_only
  <2>2. PICK kept \in [1 .. n -> DOMAIN lru] :
          /\ \A i, j \in 1 .. n : i < j => kept[i] < kept[j]
          /\ {kept[i] : i \in 1 .. n} = {i \in DOMAIN lru : key[lru[i]] \notin ks}
          /\ lru' = [i \in 1 .. n |-> lru[kept[i]]]
    BY <2>1
  <2>3. DOMAIN lru' = 1 .. n /\ \A i \in 1 .. n : lru'[i] = lru[kept[i]]
    BY <2>2
  <2>4. \A i \in 1 .. n : kept[i] \in 1 .. Len(lru) /\ key[lru[kept[i]]] \notin ks
    BY <2>2, <1>1
  <2>5. \A m \in 1 .. Len(lru) : key[lru[m]] \notin ks => \E i \in 1 .. n : kept[i] = m
    BY <2>2, <1>1
  <2> SUFFICES ASSUME NEW i \in 1 .. n
               PROVE  since'[lru[kept[i]]] = {lru'[j] : j \in 1 .. i - 1}
    BY <2>3 DEF LruIsMostRecentlyUsed
  <2>6. lru[kept[i]] \in Obj /\ since[lru[kept[i]]] = {lru[j] : j \in 1 .. kept[i] - 1}
    BY <1>1, <2>4 DEF Recent
  <2>7. since'[lru[kept[i]]] = {lru[j] : j \in 1 .. kept[i] - 1} \ {o \in Obj : key[o] \in ks}
    BY <1>10, <2>6 DEF Forget
  <2>8. ASSUME NEW j \in 1 .. kept[i] - 1, key[lru[j]] \notin ks
        PROVE  lru[j] \in {lru'[m] : m \in 1 .. i - 1}
    <3>1. j \in 1 .. Len(lru)
      BY <2>4
    <3>2. PICK m \in 1 .. n : kept[m] = j
      BY <3>1, <2>5, <2>8
    <3>3. m < i
      <4>1. kept[m] < kept[i] /\ kept[m] \in Int /\ kept[i] \in Int
        BY <3>2, <2>4
      <4>2. i < m => kept[i] < kept[m]
        BY <2>2
      <4> QED BY <4>1, <4>2
    <3> QED BY <3>2, <3>3, <2>3, SMTT(40)
  <2>9. ASSUME NEW m \in 1 .. i - 1
        PROVE  /\ lru'[m] \in {lru[j] : j \in 1 .. kept[i] - 1}
               /\ key[lru'[m]] \notin ks
    <3>1. m \in 1 .. n /\ m < i
      OBVIOUS
    <3>2. kept[m] < kept[i] /\ kept[m] \in 1 .. Len(lru) /\ kept[i] \in 1 .. Len(lru)
      BY <3>1, <2>2, <2>4
    <3> QED BY <3>1, <3>2, <2>3, <2>4
  <2>10. \A j \in 1 .. kept[i] - 1 : lru[j] \in Obj
    BY <2>4, <1>1
  <2> DEFINE A == {lru[j] : j \in 1 .. kept[i] - 1}
             C == {o \in Obj : key[o] \in ks}
             B == {lru'[j] : j \in 1 .. i - 1}
  <2>11. ASSUME NEW o \in A \ C PROVE o \in B
    <3>1. PICK j \in 1 .. kept[i] - 1 : o = lru[j]
      OBVIOUS
    <3> QED BY <2>8, <2>10, <3>1
  <2>12. ASSUME NEW o \in B PROVE o \in A \ C
    <3>1. PICK m \in 1 .. i - 1 : o = lru'[m]
      OBVIOUS
    <3> QED BY <2>9, <3>1
  <2>13. A \ C = B
    <3> HIDE DEF A, B, C
    <3> QED BY <2>11, <2>12
  <2> QED BY <2>7, <2>13
<1>11. ASSUME NEW t \in Thread, NEW o \in Obj, Load(t, o), Renew(o)
       PROVE  LruIsMostRecentlyUsed'
  BY <1>7, <1>11 DEF Load, table
<1>12. ASSUME NEW o \in Obj, NewKeyless(o), Renew(o)
       PROVE  LruIsMostRecentlyUsed'
  BY <1>7, <1>12 DEF NewKeyless, table
<1>13. ASSUME NEW t \in Thread, UNCHANGED since,
              LoadFails(t) \/ \E k \in Key : LookupMiss(t, k)
       PROVE  LruIsMostRecentlyUsed'
  BY <1>8, <1>13 DEF LoadFails, LookupMiss, table
<1>14. ASSUME NEW o \in Obj, Drop(o), UNCHANGED since
       PROVE  LruIsMostRecentlyUsed'
  BY <1>8, <1>14 DEF Drop, table
<1>15. CASE UNCHANGED <<vars, since>>
  BY <1>8, <1>15 DEF vars
<1> QED
  BY <1>4, <1>5, <1>6, <1>9, <1>10, <1>11, <1>12, <1>13, <1>14, <1>15 DEF HistoryNext

\* The LRU always holds the most recently used zones, most recent first, so an
\* eviction takes the one whose last use is the longest ago, for any number of
\* threads, zones and slots.
THEOREM LruKeepsMostRecentlyUsed == MCSpec => []LruIsMostRecentlyUsed
<1>1. HistoryInit => IndInv /\ LruIsMostRecentlyUsed
  BY InitInd DEF HistoryInit, Init, LruIsMostRecentlyUsed
<1>2. IndInv /\ LruIsMostRecentlyUsed /\ [HistoryNext]_<<vars, since>>
        => (IndInv /\ LruIsMostRecentlyUsed)'
  BY StepInd, HistoryStepIsStep, RecentStep
<1> QED BY <1>1, <1>2, PTL DEF MCSpec

-----------------------------------------------------------------------------
(***************************************************************************)
(* The one step of the store that is not a step of the cache is the fast   *)
(* path of get_system_tz(), which adds a reference without asking the      *)
(* cache.  It changes nothing the cache can see because the store already  *)
(* owns a reference to the system timezone.                                *)
(***************************************************************************)
StoreOwns ==
    /\ found \in [Thread -> Obj \cup {None}]
    /\ systemTz # None => systemTz \in held
    /\ \A t \in Thread : found[t] # None => found[t] \in held

LEMMA StoreInitOwns == StoreInit => StoreOwns
  BY DEF StoreInit, StoreOwns

\* A lookup that delivers o, which the caller now holds.
LEMMA DeliverOwns ==
    ASSUME StoreOwns, NEW t \in Thread, NEW why, NEW o \in Obj,
           Deliver(t, why, o), held' = held \cup {o}, systemTz' = systemTz
    PROVE  StoreOwns'
  BY DEF StoreOwns, Deliver

\* Steps that leave the system timezone alone and drop no reference.
LEMMA KeepOwns ==
    ASSUME StoreOwns, held \subseteq held', found' = found, systemTz' = systemTz
    PROVE  StoreOwns'
  BY DEF StoreOwns

LEMMA StoreStep ==
    ASSUME IndInv, StoreOwns, [StoreNext]_svars
    PROVE  StoreOwns' /\ (Next \/ UNCHANGED vars)
<1> USE NoneAssumption
<1>1. ASSUME NEW t \in Thread, NEW k \in Key, NEW why \in Purpose, GetHit(t, k, why)
      PROVE  StoreOwns' /\ Next
  <2>1. Upgrade(k) \in Obj
    BY <1>1, UpgradeFacts DEF GetHit, LookupHit
  <2>2. StoreOwns'
    BY <1>1, <2>1, DeliverOwns DEF GetHit, LookupHit
  <2> QED BY <1>1, <2>2 DEF GetHit, Next, Get
<1>2. ASSUME NEW t \in Thread, NEW k \in Key, NEW why \in Purpose, GetMiss(t, k, why)
      PROVE  StoreOwns' /\ Next
  BY <1>2, KeepOwns DEF GetMiss, LookupMiss, Next, Get
<1>3. ASSUME NEW t \in Thread, \/ SnapshotPaths(t) \/ InitPaths(t) \/ StorePaths(t)
                              \/ PeekPaths(t) \/ PeekStores(t)
      PROVE  StoreOwns' /\ UNCHANGED vars
  BY <1>3, KeepOwns
  DEF SnapshotPaths, InitPaths, StorePaths, PeekPaths, PeekStores, vars
<1>4. ASSUME NEW t \in Thread, GetFails(t)
      PROVE  StoreOwns' /\ Next
  BY <1>4, KeepOwns DEF GetFails, LoadFails, Next, Get
<1>5. ASSUME NEW t \in Thread, GetUsesTheirs(t)
      PROVE  StoreOwns' /\ Next
  <2>1. want[t] \in Key
    BY <1>5 DEF GetUsesTheirs, UseTheirs, IndInv, ThreadsOK
  <2>2. Upgrade(want[t]) \in Obj
    BY <1>5, <2>1, UpgradeFacts DEF GetUsesTheirs, UseTheirs
  <2>3. StoreOwns'
    BY <1>5, <2>2, DeliverOwns DEF GetUsesTheirs, UseTheirs
  <2> QED BY <1>5, <2>3 DEF GetUsesTheirs, Next, Get
<1>6. ASSUME NEW t \in Thread, GetInserts(t)
      PROVE  StoreOwns' /\ Next
  <2>1. loaded[t] \in Obj
    BY <1>6 DEF GetInserts, InsertOurs, IndInv, TypeOK, ThreadsOK
  <2>2. StoreOwns'
    BY <1>6, <2>1, DeliverOwns DEF GetInserts, InsertOurs
  <2> QED BY <1>6, <2>2 DEF GetInserts, Next, Get
<1>7. ASSUME NEW t \in Thread, StoreSystemTz(t)
      PROVE  StoreOwns' /\ UNCHANGED vars
  BY <1>7 DEF StoreSystemTz, StoreOwns, vars
<1>8. ASSUME NEW t \in Thread, SystemHit(t)
      PROVE  StoreOwns' /\ UNCHANGED vars
  <2>1. held' = held
    BY <1>8 DEF SystemHit, StoreOwns
  <2>2. found' = found /\ systemTz' = systemTz
    BY <1>8 DEF SystemHit, storeVars
  <2>3. StoreOwns'
    BY <2>1, <2>2, KeepOwns
  <2> QED BY <1>8, <2>1, <2>3 DEF SystemHit, vars, locals
<1>9. ASSUME NEW t \in Thread, NEW o \in Obj, NEW source \in TzPath \cup {Package},
             ReadZone(t, o, source)
      PROVE  StoreOwns' /\ Next
  BY <1>9, KeepOwns DEF ReadZone, Load, Next, Get
<1>10. ASSUME NEW t \in Thread, NEW o \in Obj, SystemKeyless(t, o)
       PROVE  StoreOwns' /\ Next
  BY <1>10 DEF SystemKeyless, NewKeyless, StoreOwns, Next
<1>11. ASSUME NEW o \in Obj, Release(o)
       PROVE  StoreOwns' /\ Next
  BY <1>11 DEF Release, Drop, StoreOwns, storeVars, Next
<1>12. ASSUME NEW p \in TzPath, set_paths(p)
       PROVE  StoreOwns' /\ UNCHANGED vars
  BY <1>12, KeepOwns DEF set_paths, vars
<1>13. CASE ClearAll
  BY <1>13, KeepOwns DEF ClearAll, clear_all, storeVars, Next
<1>14. ASSUME NEW ks \in SUBSET Key, ClearOnly(ks)
       PROVE  StoreOwns' /\ Next
  BY <1>14, KeepOwns DEF ClearOnly, clear_only, storeVars, Next
<1>15. CASE UNCHANGED svars
  BY <1>15, KeepOwns DEF svars, storeVars, vars
<1> QED
  BY <1>1, <1>2, <1>3, <1>4, <1>5, <1>6, <1>7, <1>8, <1>9, <1>10, <1>11, <1>12,
     <1>13, <1>14, <1>15
  DEF StoreNext, LookupNext, ConfigNext

\* The cache's invariant holds inside the store, and the store owns what it returns.
LEMMA StoreInvariance == StoreSpec => [](IndInv /\ StoreOwns)
<1>1. StoreInit => IndInv /\ StoreOwns
  BY InitInd, StoreInitOwns DEF StoreInit
<1>2. IndInv /\ StoreOwns /\ [StoreNext]_svars => (IndInv /\ StoreOwns)'
  <2> SUFFICES ASSUME IndInv, StoreOwns, [StoreNext]_svars
               PROVE  IndInv' /\ StoreOwns'
    OBVIOUS
  <2>1. StoreOwns' /\ (Next \/ UNCHANGED vars)
    BY StoreStep
  <2> QED BY <2>1, StepInd
<1>3. QED BY <1>1, <1>2, PTL DEF StoreSpec

\* The store with its search path and system timezone implements the cache.
THEOREM StoreImplementsCache == StoreSpec => Spec
<1>1. StoreInit => Init
  BY DEF StoreInit
<1>2. IndInv /\ StoreOwns /\ [StoreNext]_svars => [Next]_vars
  BY StoreStep
<1>3. QED BY <1>1, <1>2, StoreInvariance, PTL DEF StoreSpec, Spec

\* Sharing of TimeZone objects holds for the whole store.
THEOREM StoreSharesIdentity == StoreSpec => []SharedIdentity
  BY StoreImplementsCache, IdentityIsShared, PTL

(***************************************************************************)
(* The system timezone the store caches, or is about to cache, is alive,   *)
(* and is what its TZ ID resolves to unless the cache was cleared.         *)
(***************************************************************************)
THEOREM SystemTzInterned == StoreSpec => []SystemTzIsInterned
<1>1. IndInv /\ StoreOwns => SystemTzIsInterned
  <2> SUFFICES ASSUME IndInv, StoreOwns,
                      NEW o \in {systemTz} \cup {found[t] : t \in Thread}, o # None
               PROVE  /\ Alive(o)
                      /\ key[o] # None => o \in cleared \/ Upgrade(key[o]) = o
    BY DEF SystemTzIsInterned
  <2>1. o \in held /\ o \in Obj
    BY DEF StoreOwns, IndInv, TypeOK
  <2>2. Alive(o)
    BY <2>1 DEF Alive
  <2>3. ASSUME key[o] # None, o \notin cleared
        PROVE  Upgrade(key[o]) = o
    BY <2>1, <2>2, <2>3, NoneAssumption DEF IndInv, SharedIdentity, Upgrade
  <2> QED BY <2>2, <2>3
<1>2. QED BY <1>1, StoreInvariance, PTL

(***************************************************************************)
(* The search path.  Once it is set the cell is never empty, so whoever    *)
(* runs init_paths() was doing so when it was last set (overlapped); and   *)
(* what a call stores is the path of the environment, if anything.         *)
(***************************************************************************)
OverrideInv ==
    /\ phase \in [Thread -> Phase] /\ overlapped \subseteq Thread
    /\ chosen = None => paths \in {None, EnvPath}
    /\ chosen # None =>
        /\ paths # None
        /\ \A t \in Thread : Initialising(t) => t \in overlapped
        /\ paths = chosen \/ OverrideLost

\* Steps that leave the cell alone, and begin no initialisation of a filled one.
CellRests ==
    /\ UNCHANGED <<freeThreaded, paths, chosen, overlapped>>
    /\ phase' \in [Thread -> Phase]
    /\ \A t \in Thread : Initialising(t)' => Initialising(t) \/ paths = None

\* A call that was running init_paths() stores its result.
CellStored(t) ==
    /\ UNCHANGED <<freeThreaded, chosen, overlapped>>
    /\ Initialising(t)
    /\ paths' = AfterInit
    /\ phase' \in [Thread -> Phase]
    /\ \A u \in Thread : Initialising(u)' <=> Initialising(u) /\ u # t

\* Besides reset_tzpath() there are no other steps.
LEMMA CellSteps ==
    ASSUME phase \in [Thread -> Phase], [StoreNext]_svars
    PROVE  CellRests \/ (\E t \in Thread : CellStored(t)) \/ \E p \in TzPath : set_paths(p)
<1>1. freeThreaded' = freeThreaded
  BY DEF StoreNext, svars
<1> USE <1>1 DEF CellRests, CellStored, Initialising, Phase
<1>2. ASSUME NEW t \in Thread, StorePaths(t) \/ PeekStores(t)
      PROVE  CellStored(t) \/ CellRests
  BY <1>2 DEF StorePaths, PeekStores, history
<1>3. ASSUME NEW t \in Thread, NEW k \in Key, NEW why \in Purpose,
             GetHit(t, k, why) \/ GetMiss(t, k, why)
      PROVE  CellRests
  BY <1>3 DEF GetHit, GetMiss, history
<1>4. ASSUME NEW t \in Thread, SnapshotPaths(t) \/ InitPaths(t) \/ PeekPaths(t) \/ GetFails(t)
      PROVE  CellRests
  BY <1>4 DEF SnapshotPaths, InitPaths, PeekPaths, GetFails, history
<1>5. ASSUME NEW t \in Thread,
             \/ GetUsesTheirs(t) \/ GetInserts(t) \/ StoreSystemTz(t) \/ SystemHit(t)
      PROVE  CellRests
  BY <1>5 DEF GetUsesTheirs, GetInserts, StoreSystemTz, SystemHit, storeVars, history
<1>6. ASSUME NEW t \in Thread, NEW o \in Obj,
             \/ \E source \in TzPath \cup {Package} : ReadZone(t, o, source)
             \/ SystemKeyless(t, o)
      PROVE  CellRests
  BY <1>6 DEF ReadZone, SystemKeyless, history
<1>7. ASSUME NEW o \in Obj, Release(o)
      PROVE  CellRests
  BY <1>7 DEF Release, storeVars, history
<1>8. ASSUME NEW ks \in SUBSET Key, ClearAll \/ ClearOnly(ks)
      PROVE  CellRests
  BY <1>8 DEF ClearAll, ClearOnly, storeVars, history
<1>9. CASE UNCHANGED svars
  BY <1>9 DEF svars, storeVars, history
<1> QED
  BY <1>2, <1>3, <1>4, <1>5, <1>6, <1>7, <1>8, <1>9 DEF StoreNext, LookupNext, ConfigNext

\* Where a path was set, it is overwritten only with the GIL, and then it is lost.
LEMMA StoredOver ==
    ASSUME OverrideInv, NEW t \in Thread, CellStored(t), chosen # None, paths' # paths
    PROVE  paths' = EnvPath /\ OverrideLost'
BY DEF OverrideInv, OverrideLost, CellStored, AfterInit

LEMMA OverrideStep == OverrideInv /\ [StoreNext]_svars => OverrideInv'
<1> SUFFICES ASSUME OverrideInv, [StoreNext]_svars
             PROVE  OverrideInv'
  OBVIOUS
<1>1. CASE CellRests
  BY <1>1 DEF CellRests, OverrideInv, OverrideLost
<1>2. ASSUME NEW t \in Thread, CellStored(t)
      PROVE  OverrideInv'
  <2>1. CASE paths' = paths
    BY <1>2, <2>1 DEF CellStored, OverrideInv, OverrideLost
  <2>2. CASE paths' # paths /\ chosen # None
    <3>1. paths' = EnvPath /\ OverrideLost'
      BY <1>2, <2>2, StoredOver
    <3> QED BY <1>2, <2>2, <3>1, PathAssumption, NoneAssumption DEF CellStored, OverrideInv
  <2>3. CASE paths' # paths /\ chosen = None
    BY <1>2, <2>3 DEF CellStored, AfterInit, OverrideInv
  <2> QED BY <2>1, <2>2, <2>3
<1>3. ASSUME NEW p \in TzPath, set_paths(p)
      PROVE  OverrideInv'
  BY <1>3, PathAssumption DEF set_paths, OverrideInv, Initialising
<1>4. phase \in [Thread -> Phase]
  BY DEF OverrideInv
<1> QED BY <1>1, <1>2, <1>3, <1>4, CellSteps

LEMMA OverrideInvariance == StoreSpec => []OverrideInv
<1>1. StoreInit => OverrideInv
  BY DEF StoreInit, OverrideInv, Phase
<1>2. QED BY <1>1, OverrideStep, PTL DEF StoreSpec

(***************************************************************************)
(* In the free-threaded build reset_tzpath() is final: the cell is looked  *)
(* at again before it is filled.  In the build with the GIL only a lookup  *)
(* or a _get_tzpath() that was reading the search path from the            *)
(* environment when reset_tzpath() was called can undo it.                 *)
(***************************************************************************)
THEOREM TzPathOverrideIsFinal == StoreSpec => []TzPathOverrideWins
<1>1. OverrideInv => TzPathOverrideWins
  BY DEF OverrideInv, TzPathOverrideWins
<1>2. QED BY <1>1, OverrideInvariance, PTL
-----------------------------------------------------------------------------
(***************************************************************************)
(* What survives clear_all.  Since the last clear, and as long as          *)
(* reset_tzpath() is not called, the search path is the one it had then    *)
(* (settled) or, with the GIL, the one that the override was lost to; and  *)
(* every thread that was not looking up during the clear works with that:  *)
(* its snapshot and the zone it has loaded are of it.  Then so is every    *)
(* entry of the table that none of the early threads has made, whether the *)
(* zone is alive or not.                                                   *)
(***************************************************************************)
OfPath(o) == origin[o] \in CurrentOrigins

SettledInv ==
    settled # None =>
        /\ paths \in CurrentOrigins
        /\ \A t \in Thread \ early : phase[t] = "read" => snapshot[t] \in CurrentOrigins
        /\ \A t \in Thread \ early : loaded[t] # None => OfPath(loaded[t])
        /\ \A k \in Key : lookup[k] # None => OfPath(lookup[k]) \/ lookup[k] \in leftover

LEMMA StoreInitTypes == StoreInit => StoreTypeOK /\ SettledInv
<1> SUFFICES ASSUME StoreInit PROVE StoreTypeOK /\ SettledInv
  OBVIOUS
<1>1. TypeOK
  BY InitInd DEF StoreInit, IndInv
<1> QED BY <1>1, PathAssumption DEF StoreInit, StoreTypeOK, SettledInv, Phase

\* A step of the store keeps the types, given that its cache does.
LEMMA StoreTypesStep ==
    ASSUME IndInv, IndInv', StoreTypeOK, [StoreNext]_svars
    PROVE  StoreTypeOK'
<1> USE PathAssumption, NoneAssumption DEF StoreTypeOK, Phase
<1>0. TypeOK /\ TypeOK' /\ freeThreaded' = freeThreaded
  BY DEF IndInv, StoreNext, svars
<1>1. ASSUME NEW t \in Thread, NEW k \in Key, NEW why \in Purpose, GetHit(t, k, why)
      PROVE  StoreTypeOK'
  <2>1. Upgrade(k) \in Obj
    BY <1>1, UpgradeFacts DEF GetHit, LookupHit
  <2> QED BY <1>0, <1>1, <2>1 DEF GetHit, LookupHit, Deliver, locals, history
<1>2. ASSUME NEW t \in Thread, NEW k \in Key, NEW why \in Purpose, GetMiss(t, k, why)
      PROVE  StoreTypeOK'
  BY <1>0, <1>2 DEF GetMiss, LookupMiss, Ready, TypeOK, history
<1>3. ASSUME NEW t \in Thread, \/ SnapshotPaths(t) \/ InitPaths(t) \/ StorePaths(t)
                              \/ PeekPaths(t) \/ PeekStores(t)
      PROVE  StoreTypeOK'
  BY <1>0, <1>3
  DEF SnapshotPaths, InitPaths, StorePaths, PeekPaths, PeekStores, AfterInit, Ready, vars,
      history
<1>4. ASSUME NEW t \in Thread, GetFails(t)
      PROVE  StoreTypeOK'
  BY <1>0, <1>4 DEF GetFails, LoadFails, Return, TypeOK
<1>5. ASSUME NEW t \in Thread, GetUsesTheirs(t)
      PROVE  StoreTypeOK'
  <2>1. Upgrade(want[t]) \in Obj
    BY <1>5, UpgradeFacts DEF GetUsesTheirs, UseTheirs, IndInv, ThreadsOK
  <2> QED BY <1>0, <1>5, <2>1 DEF GetUsesTheirs, UseTheirs, Return, Deliver, TypeOK
<1>6. ASSUME NEW t \in Thread, GetInserts(t)
      PROVE  StoreTypeOK'
  <2>1. loaded[t] \in Obj
    BY <1>6 DEF GetInserts, InsertOurs, IndInv, TypeOK, ThreadsOK
  <2> QED BY <1>0, <1>6, <2>1 DEF GetInserts, InsertOurs, Return, Deliver, TypeOK
<1>7. ASSUME NEW t \in Thread, StoreSystemTz(t) \/ SystemHit(t)
      PROVE  StoreTypeOK'
  BY <1>0, <1>7 DEF StoreSystemTz, SystemHit, vars, locals, storeVars, history
<1>8. ASSUME NEW t \in Thread, NEW o \in Obj, NEW source \in TzPath \cup {Package},
             ReadZone(t, o, source)
      PROVE  StoreTypeOK'
  BY <1>0, <1>8 DEF ReadZone, Load, TypeOK
<1>9. ASSUME NEW t \in Thread, NEW o \in Obj, SystemKeyless(t, o)
      PROVE  StoreTypeOK'
  BY <1>0, <1>9 DEF SystemKeyless, NewKeyless, locals
<1>10. ASSUME NEW o \in Obj, Release(o)
       PROVE  StoreTypeOK'
  BY <1>0, <1>10 DEF Release, Drop, locals, storeVars, history
<1>11. ASSUME NEW p \in TzPath, set_paths(p)
       PROVE  StoreTypeOK'
  BY <1>0, <1>11 DEF set_paths, vars
<1>12. ASSUME NEW ks \in SUBSET Key, ClearAll \/ ClearOnly(ks)
       PROVE  StoreTypeOK'
  BY <1>0, <1>12 DEF ClearAll, clear_all, ClearOnly, clear_only, locals, storeVars, history
<1>13. CASE UNCHANGED svars
  BY <1>0, <1>13 DEF svars, vars, storeVars, history
<1> QED
  BY <1>1, <1>2, <1>3, <1>4, <1>5, <1>6, <1>7, <1>8, <1>9, <1>10, <1>11, <1>12, <1>13
  DEF StoreNext, LookupNext, ConfigNext

\* Until the path is set again a lost override stays lost, and the path is current.
LEMMA OriginsStay ==
    ASSUME OverrideInv, SettledInv, settled # None, [StoreNext]_svars, settled' = settled
    PROVE  CurrentOrigins \subseteq CurrentOrigins' /\ paths' \in CurrentOrigins'
<1>1. paths \in CurrentOrigins /\ paths # None
  BY PathAssumption DEF SettledInv, CurrentOrigins
<1>2. CASE CellRests
  BY <1>1, <1>2 DEF CellRests, CurrentOrigins, OverrideLost, OverrideInv
<1>3. ASSUME NEW t \in Thread, CellStored(t)
      PROVE  CurrentOrigins \subseteq CurrentOrigins' /\ paths' \in CurrentOrigins'
  <2>1. CASE paths' = paths
    BY <1>1, <1>3, <2>1 DEF CellStored, CurrentOrigins, OverrideLost, OverrideInv
  <2>2. CASE paths' # paths
    <3>1. chosen # None
      BY <1>1, <1>3, <2>2 DEF OverrideInv, CellStored, AfterInit
    <3>2. paths' = EnvPath /\ OverrideLost'
      BY <1>3, <2>2, <3>1, StoredOver
    <3> QED BY <3>2 DEF CurrentOrigins
  <2> QED BY <2>1, <2>2
<1>4. ASSUME NEW p \in TzPath, set_paths(p)
      PROVE  FALSE
  BY <1>4 DEF set_paths
<1>5. phase \in [Thread -> Phase]
  BY DEF OverrideInv
<1> QED BY <1>2, <1>3, <1>4, <1>5, CellSteps

LEMMA SettledStep ==
    ASSUME IndInv, StoreTypeOK, OverrideInv, SettledInv, [StoreNext]_svars
    PROVE  SettledInv'
<1> USE PathAssumption, NoneAssumption DEF SettledInv, OfPath
<1>s. ASSUME settled # None, settled' = settled
      PROVE  CurrentOrigins \subseteq CurrentOrigins' /\ paths' \in CurrentOrigins'
  BY <1>s, OriginsStay
<1>0. /\ origin \in [Obj -> TzPath \cup {Package, None}]
      /\ phase \in [Thread -> Phase]
      /\ snapshot \in [Thread -> TzPath \cup {None}]
      /\ \A t \in Thread : phase[t] \in {"paths", "init", "read"} => pc[t] = "load"
      /\ TypeOK
      /\ \A t \in Thread : pc[t] # "insert" => loaded[t] = None
      /\ \A t \in Thread : pc[t] = "insert" => loaded[t] # None /\ want[t] # None
  BY DEF StoreTypeOK, IndInv, ThreadsOK, LoadedIsPrivate
<1>1. ASSUME NEW t \in Thread, NEW k \in Key, NEW why \in Purpose,
             GetHit(t, k, why) \/ GetMiss(t, k, why)
      PROVE  SettledInv'
  BY <1>0, <1>s, <1>1 DEF GetHit, LookupHit, GetMiss, LookupMiss, locals, table, history
<1>2. ASSUME NEW t \in Thread, \/ SnapshotPaths(t) \/ InitPaths(t) \/ StorePaths(t)
                              \/ PeekPaths(t) \/ PeekStores(t)
      PROVE  SettledInv'
  BY <1>0, <1>s, <1>2
  DEF SnapshotPaths, InitPaths, StorePaths, PeekPaths, PeekStores, vars, history
<1>3. ASSUME NEW t \in Thread, GetFails(t)
      PROVE  SettledInv'
  BY <1>0, <1>s, <1>3 DEF GetFails, LoadFails, Return, table, TypeOK
<1>4. ASSUME NEW t \in Thread, GetUsesTheirs(t)
      PROVE  SettledInv'
  BY <1>0, <1>s, <1>4 DEF GetUsesTheirs, UseTheirs, Return, TypeOK
<1>5. ASSUME NEW t \in Thread, GetInserts(t)
      PROVE  SettledInv'
  BY <1>0, <1>s, <1>5 DEF GetInserts, InsertOurs, Return, TypeOK
<1>6. ASSUME NEW t \in Thread, StoreSystemTz(t) \/ SystemHit(t)
      PROVE  SettledInv'
  BY <1>s, <1>6 DEF StoreSystemTz, SystemHit, vars, locals, storeVars, history
<1>7. ASSUME NEW t \in Thread, NEW o \in Obj, NEW source \in TzPath \cup {Package},
             ReadZone(t, o, source)
      PROVE  SettledInv'
  <2>1. /\ \A k \in Key : lookup[k] # o
        /\ \A u \in Thread : loaded[u] # o
    BY <1>7 DEF ReadZone, Load, Fresh, Alive
  <2>2. t \notin early /\ settled # None => source \in CurrentOrigins
    BY <1>7 DEF ReadZone, Sources, CurrentOrigins
  <2> QED BY <1>0, <1>s, <1>7, <2>1, <2>2 DEF ReadZone, Load, TypeOK, table
<1>8. ASSUME NEW t \in Thread, NEW o \in Obj, SystemKeyless(t, o)
      PROVE  SettledInv'
  <2>1. /\ \A k \in Key : lookup[k] # o
        /\ \A u \in Thread : loaded[u] # o
    BY <1>8 DEF SystemKeyless, NewKeyless, Fresh, Alive
  <2> QED BY <1>0, <1>s, <1>8, <2>1 DEF SystemKeyless, NewKeyless, TypeOK, table, locals
<1>9. ASSUME NEW o \in Obj, Release(o)
      PROVE  SettledInv'
  BY <1>s, <1>9 DEF Release, Drop, locals, table, storeVars, history
<1>10. ASSUME NEW p \in TzPath, set_paths(p)
       PROVE  SettledInv'
  BY <1>10 DEF set_paths
<1>11. CASE ClearAll
  BY <1>0, <1>11 DEF ClearAll, clear_all, locals, storeVars, CurrentOrigins
<1>12. ASSUME NEW ks \in SUBSET Key, ClearOnly(ks)
       PROVE  SettledInv'
  BY <1>0, <1>s, <1>12 DEF ClearOnly, clear_only, locals, storeVars, history
<1>13. CASE UNCHANGED svars
  BY <1>s, <1>13 DEF svars, vars, storeVars, history
<1> QED
  BY <1>1, <1>2, <1>3, <1>4, <1>5, <1>6, <1>7, <1>8, <1>9, <1>10, <1>11, <1>12, <1>13
  DEF StoreNext, LookupNext, ConfigNext

LEMMA SettledInvariance == StoreSpec => [](IndInv /\ StoreTypeOK /\ SettledInv)
<1>1. StoreInit => StoreTypeOK /\ SettledInv
  BY StoreInitTypes
<1>2. /\ IndInv /\ IndInv' /\ StoreTypeOK /\ OverrideInv /\ SettledInv /\ [StoreNext]_svars
      => StoreTypeOK' /\ SettledInv'
  BY StoreTypesStep, SettledStep
<1>3. QED BY <1>1, <1>2, StoreInvariance, OverrideInvariance, PTL DEF StoreSpec

\* Every variable of the store and of its cache keeps its type, and a thread has a
\* snapshot of the search path only while it loads.
THEOREM StoreTypeCorrect == StoreSpec => []StoreTypeOK
  BY SettledInvariance, PTL

(***************************************************************************)
(* clear_tzcache() after reset_tzpath(): for any number of threads, paths  *)
(* and TZ IDs, no lookup that starts after the clear ever puts a zone of   *)
(* the former path into the cache; only one that was under way can.  The   *)
(* path is the one at the clear or, in the build with the GIL, the one of  *)
(* the environment where a running init_paths() undid reset_tzpath().      *)
(***************************************************************************)
THEOREM OnlyRacingLoadsAreStale == StoreSpec => []OnlyRacingLoadsSurviveClear
<1>1. SettledInv => OnlyRacingLoadsSurviveClear
  BY NoneAssumption DEF SettledInv, OfPath, OnlyRacingLoadsSurviveClear, Upgrade
<1>2. QED BY <1>1, SettledInvariance, PTL
=============================================================================
