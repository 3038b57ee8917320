-------------------------- MODULE PyTzStoreProofs --------------------------
(***************************************************************************)
(* Proofs about the pure-Python timezone store, for any number of threads, *)
(* TZ IDs and objects, any size of the LRU, with and without the lock.     *)
(***************************************************************************)
EXTENDS PyTzStore, FiniteSetTheorems, TLAPS

\* Where get_tz has an instance, and where it is under way at all.
Holding == {"setdefault", "store", "pop", "insert", "len", "popitem", "setKey", "setVal"}
Getting == Holding \cup {"fast", "lookup", "load"}

(***************************************************************************)
(* The inductive invariant behind TablesAgree.  An OrderedDict has an      *)
(* entry per key; whatever a table or a local variable holds is filed, or  *)
(* about to be filed, under its own TZ ID.                                 *)
(***************************************************************************)
LocalsOK ==
    \A t \in Thread :
        /\ pc[t] \in Getting => want[t] \in Key
        /\ pc[t] \in Holding <=> instance[t] # None
        /\ instance[t] # None => key[instance[t]] = want[t]
        /\ pc[t] = "insert" <=> popped[t] # None
        /\ popped[t] # None => key[popped[t]] = want[t]
        /\ pc[t] \in {"popLookup", "popLru"} => purge[t] # << >>

UniqueKeys == \A i, j \in DOMAIN lru : lru[i][1] = lru[j][1] => i = j

LookupFiled == \A k \in Key : lookup[k] # None => key[lookup[k]] = k
LruFiled == \A i \in DOMAIN lru : key[lru[i][2]] = lru[i][1]

FiledInv == TypeOK /\ LocalsOK /\ UniqueKeys /\ LookupFiled /\ LruFiled

(***************************************************************************)
(* While the calls do not overlap: what is true of the tables at each step *)
(* of the one thread that is in the store.                                 *)
(***************************************************************************)
OneThread == \A t, u \in Thread : pc[t] # "idle" /\ pc[u] # "idle" => t = u

InLru(k) == \E i \in DOMAIN lru : lru[i][1] = k

FastPathRight ==
    /\ lastKey # None /\ (\A t \in Thread : pc[t] # "setVal") =>
            lastVal # None /\ key[lastVal] = lastKey
    /\ \A t \in Thread : /\ pc[t] \in {"fast", "setVal"} => lastKey = want[t]
                         /\ pc[t] \in {"clearVal", "clearKeyVal"} => lastKey = None

LruFindable ==
    /\ \A i \in DOMAIN lru :
        \/ lookup[lru[i][1]] = lru[i][2]
        \/ \E t \in Thread : \/ pc[t] = "clearLru"
                             \/ pc[t] = "popLru" /\ lru[i][1] = Head(purge[t])
    /\ \A t \in Thread :
        /\ pc[t] \in {"load", "setdefault", "store"} => ~InLru(want[t])
        /\ pc[t] = "pop" => lookup[want[t]] = instance[t]
        /\ pc[t] = "insert" => lookup[want[t]] = popped[t]

AloneInv == alone => OneThread /\ FastPathRight /\ LruFindable

(***************************************************************************)
(* The length of the LRU: whoever has inserted has yet to look at it.      *)
(***************************************************************************)
Evicting == {t \in Thread : pc[t] \in {"len", "popitem"}}

Exclusive == \A t, u \in Thread : pc[t] \in Section /\ pc[u] \in Section => t = u

LimitInv ==
    /\ Len(lru) <= _TZCACHE_LRU_SIZE + Cardinality(Evicting)
    /\ locked => /\ Exclusive
                 /\ \A t \in Thread : pc[t] = "popitem" => Len(lru) > _TZCACHE_LRU_SIZE

-----------------------------------------------------------------------------
Entries == Key \X Obj

LEMMA EntryFields == ASSUME NEW e \in Entries PROVE e[1] \in Key /\ e[2] \in Obj
  BY DEF Entries

\* OrderedDict.pop(k): the other entries stay, in their order.
LEMMA WithoutFacts ==
    ASSUME NEW d \in Seq(Entries), NEW k,
           \A i, j \in DOMAIN d : d[i][1] = d[j][1] => i = j
    PROVE  /\ Without(d, k) \in Seq(Entries)
           /\ Len(Without(d, k)) <= Len(d)
           /\ \A i \in DOMAIN Without(d, k) :
                \E j \in DOMAIN d : Without(d, k)[i] = d[j] /\ d[j][1] # k
           /\ \A i, j \in DOMAIN Without(d, k) : Without(d, k)[i][1] = Without(d, k)[j][1] => i = j
<1>1. CASE ~Has(d, k)
  BY <1>1 DEF Without, Has
<1>2. CASE Has(d, k)
  <2>1. PICK x \in DOMAIN d : x = Index(d, k) /\ d[x][1] = k
    BY <1>2 DEF Has, Index
  <2>2. PICK n \in Nat : Len(d) = n + 1
    <3>1. Len(d) - 1 \in Nat /\ Len(d) = (Len(d) - 1) + 1
      BY <2>1
    <3> QED BY <3>1
  <2> DEFINE w == Without(d, k)
  <2>3. w = [i \in 1 .. n |-> IF i < x THEN d[i] ELSE d[i + 1]]
    BY <1>2, <2>1, <2>2 DEF Without
  <2> HIDE DEF w
  <2>4. \A i \in 1 .. n : (i < x => w[i] = d[i]) /\ (i >= x => w[i] = d[i + 1])
    BY <2>1, <2>3
  <2>5. w \in Seq(Entries) /\ Len(w) = n
    <3>1. \A i \in 1 .. n : w[i] \in Entries
      BY <2>2, <2>4
    <3> QED BY <2>3, <3>1
  <2>6. ASSUME NEW i \in 1 .. n
        PROVE  \E j \in DOMAIN d : w[i] = d[j] /\ d[j][1] # k
    <3>1. CASE i < x
      BY <2>1, <2>2, <2>4, <3>1
    <3>2. CASE i >= x
      <4>1. i + 1 \in DOMAIN d /\ i + 1 # x
        BY <2>1, <2>2, <3>2
      <4> QED BY <2>1, <2>4, <3>2, <4>1
    <3> QED BY <2>1, <3>1, <3>2
  <2>7. ASSUME NEW i \in 1 .. n, NEW j \in 1 .. n, w[i][1] = w[j][1]
        PROVE  i = j
    BY <2>1, <2>2, <2>4, <2>7, SMTT(40)
  <2> QED BY <2>2, <2>5, <2>6, <2>7, SMTT(40) DEF w
<1> QED BY <1>1, <1>2

\* d[k] = o: every other entry stays.
LEMMA WithFacts ==
    ASSUME NEW d \in Seq(Entries), NEW k \in Key, NEW o \in Obj,
           \A i, j \in DOMAIN d : d[i][1] = d[j][1] => i = j
    PROVE  /\ With(d, k, o) \in Seq(Entries)
           /\ Len(With(d, k, o)) <= Len(d) + 1
           /\ \A i \in DOMAIN With(d, k, o) :
                \/ With(d, k, o)[i][1] = k /\ With(d, k, o)[i][2] = o
                \/ \E j \in DOMAIN d : With(d, k, o)[i] = d[j]
           /\ \A i, j \in DOMAIN With(d, k, o) :
                With(d, k, o)[i][1] = With(d, k, o)[j][1] => i = j
<1>0. PICK e \in Entries : e = <<k, o>> /\ e[1] = k /\ e[2] = o
  <2>1. <<k, o>> \in Entries /\ <<k, o>>[1] = k /\ <<k, o>>[2] = o
    BY DEF Entries
  <2> QED BY <2>1, Zenon
<1> DEFINE w == With(d, k, o)
<1>1. CASE Has(d, k)
  <2>1. w = [i \in 1 .. Len(d) |-> IF d[i][1] = k THEN e ELSE d[i]]
    BY <1>0, <1>1 DEF With
  <2> HIDE DEF w
  <2>2. \A i \in 1 .. Len(d) : w[i] = IF d[i][1] = k THEN e ELSE d[i]
    BY <2>1
  <2>3. \A i \in 1 .. Len(d) : w[i] \in Entries /\ w[i][1] = d[i][1]
    BY <1>0, <2>2
  <2>4. w \in Seq(Entries) /\ Len(w) = Len(d)
    BY <2>1, <2>3
  <2>5. \A i \in 1 .. Len(d) : (w[i][1] = k /\ w[i][2] = o) \/ \E j \in DOMAIN d : w[i] = d[j]
    BY <1>0, <2>2
  <2>6. \A i, j \in 1 .. Len(d) : w[i][1] = w[j][1] => i = j
    BY <2>3
  <2> QED BY <2>4, <2>5, <2>6, SMTT(40) DEF w
<1>2. CASE ~Has(d, k)
  <2>1. w = Append(d, e) /\ \A i \in DOMAIN d : d[i][1] # k
    BY <1>0, <1>2 DEF With, Has
  <2> HIDE DEF w
  <2>2. w \in Seq(Entries) /\ Len(w) = Len(d) + 1 /\ w[Len(d) + 1] = e
    BY <2>1
  <2>3. \A i \in 1 .. Len(d) : w[i] = d[i]
    BY <2>1
  <2>4. ASSUME NEW i \in 1 .. Len(d) + 1, NEW j \in 1 .. Len(d) + 1, w[i][1] = w[j][1]
        PROVE  i = j
    <3>1. CASE i \in 1 .. Len(d) /\ j \in 1 .. Len(d)
      BY <2>3, <2>4, <3>1
    <3>2. CASE i = Len(d) + 1 \/ j = Len(d) + 1
      BY <1>0, <2>1, <2>2, <2>3, <2>4, <3>2
    <3> QED BY <3>1, <3>2
  <2>5. \A i \in 1 .. Len(d) + 1 : (w[i][1] = k /\ w[i][2] = o) \/ \E j \in DOMAIN d : w[i] = d[j]
    BY <1>0, <2>2, <2>3
  <2> QED BY <2>2, <2>4, <2>5 DEF w
<1> QED BY <1>1, <1>2

-----------------------------------------------------------------------------
Op(t) == get_tz(t) \/ clear(t) \/ Drop(t)

\* What any step does to the LRU.
LEMMA LruStep ==
    ASSUME FiledInv, NEW t \in Thread, Op(t)
    PROVE  /\ lru' \in Seq(Entries)
           /\ UniqueKeys'
           /\ \A i \in DOMAIN lru' :
                \/ \E j \in DOMAIN lru : lru'[i] = lru[j]
                \/ pc[t] = "insert" /\ lru'[i][1] = want[t] /\ lru'[i][2] = popped[t]
<1>0. lru \in Seq(Entries) /\ UniqueKeys
  BY DEF FiledInv, TypeOK, Entries
<1>1. CASE UNCHANGED lru
  BY <1>0, <1>1 DEF UniqueKeys
<1>2. CASE LruPop(t)
  <2>1. lru' = Without(lru, want[t])
    BY <1>2 DEF LruPop
  <2> QED BY <1>0, <2>1, WithoutFacts DEF UniqueKeys
<1>3. CASE PopLru(t)
  <2>1. lru' = Without(lru, Head(purge[t]))
    BY <1>3 DEF PopLru
  <2> QED BY <1>0, <2>1, WithoutFacts DEF UniqueKeys
<1>4. CASE LruInsert(t)
  <2>1. lru' = With(lru, want[t], popped[t]) /\ pc[t] = "insert"
    BY <1>4 DEF LruInsert
  <2>2. want[t] \in Key /\ popped[t] \in Obj
    BY <2>1 DEF FiledInv, TypeOK, LocalsOK, Getting, Holding
  <2> QED BY <1>0, <2>1, <2>2, WithFacts DEF UniqueKeys
<1>5. CASE LruPopItem(t) /\ lru # << >>
  <2>1. lru' = Tail(lru)
    BY <1>5 DEF LruPopItem
  <2>2. /\ lru' \in Seq(Entries) /\ Len(lru') = Len(lru) - 1
        /\ \A i \in 1 .. Len(lru') : i + 1 \in 1 .. Len(lru) /\ lru'[i] = lru[i + 1]
    BY <1>0, <1>5, <2>1
  <2>3. ASSUME NEW i \in 1 .. Len(lru'), NEW j \in 1 .. Len(lru'), lru'[i][1] = lru'[j][1]
        PROVE  i = j
    <3>1. i + 1 \in DOMAIN lru /\ j + 1 \in DOMAIN lru
      BY <1>0, <2>2
    <3>2. lru'[i] = lru[i + 1] /\ lru'[j] = lru[j + 1]
      BY <2>2
    <3>3. lru[i + 1][1] = lru[j + 1][1]
      BY <2>3, <3>2
    <3>4. i + 1 = j + 1
      BY <1>0, <3>1, <3>3 DEF UniqueKeys
    <3> QED BY <3>4
  <2>4. \A i \in 1 .. Len(lru') : \E j \in DOMAIN lru : lru'[i] = lru[j]
    BY <1>0, <2>2
  <2>5. DOMAIN lru' = 1 .. Len(lru')
    BY <2>2
  <2> QED BY <2>2, <2>3, <2>4, <2>5 DEF UniqueKeys
<1>6. CASE ClearLru(t)
  BY <1>6 DEF ClearLru, UniqueKeys
<1> QED BY <1>1, <1>2, <1>3, <1>4, <1>5, <1>6
        DEF Op, get_tz, clear, cells, args, CompareKey, FastPath, LookupGet, Load, LoadFails, SetDefault,
            Store, LruLen, LruPopItem, SetLastKey, SetLastVal, Drop, ClearKey, ClearVal, ClearLookup,
            ClearByKeys, ClearKeysKey, ClearKeyVal, ClearKeys, PopLookup

\* A zone that anybody can see keeps its TZ ID.
LEMMA KeyStep ==
    ASSUME FiledInv, NEW t \in Thread, Op(t)
    PROVE  /\ key' \in [Obj -> Key \cup {None}]
           /\ \A o \in Obj : Alive(o) \/ (\E k \in Key : lookup[k] = o) => key'[o] = key[o]
<1>1. CASE UNCHANGED key
  BY <1>1 DEF FiledInv, TypeOK
<1>2. ASSUME NEW o \in Obj, Load(t, o)
      PROVE  /\ key' = [key EXCEPT ![o] = want[t]] /\ want[t] \in Key
             /\ ~Alive(o) /\ \A k \in Key : lookup[k] # o
  BY <1>2 DEF Load, FiledInv, LocalsOK, Getting
<1> QED BY <1>1, <1>2, ZenonT(40)
        DEF Op, get_tz, clear, cells, args, CompareKey, FastPath, LookupGet, LoadFails, SetDefault,
            Store, LruPop, LruInsert, LruLen, LruPopItem, SetLastKey, SetLastVal, Drop, ClearKey, ClearVal,
            ClearLookup, ClearLru, ClearByKeys, ClearKeysKey, ClearKeyVal, ClearKeys, PopLookup, PopLru,
            FiledInv, TypeOK

\* The local variables of the threads, and what the tables are given.
LEMMA LocalsStep ==
    ASSUME FiledInv, NEW t \in Thread, Op(t), locked' = locked, alone' \in BOOLEAN
    PROVE  TypeOK' /\ LocalsOK' /\ LookupFiled'
<1>0. lru' \in Seq(Key \X Obj) /\ key' \in [Obj -> Key \cup {None}]
  BY LruStep, KeyStep DEF Entries
<1>1. \A o \in Obj : Alive(o) \/ (\E k \in Key : lookup[k] = o) => key'[o] = key[o]
  BY KeyStep
<1>2. \A u \in Thread : /\ instance[u] # None => key'[instance[u]] = want[u]
                        /\ popped[u] # None => key'[popped[u]] = want[u]
  BY <1>1 DEF Alive, FiledInv, TypeOK, LocalsOK
<1>3. \A k \in Key : lookup[k] # None => key'[lookup[k]] = k
  BY <1>1 DEF FiledInv, LookupFiled, LruFiled, TypeOK
<1>4. \A i \in DOMAIN lru : lru[i] \in Key \X Obj /\ key'[lru[i][2]] = lru[i][1]
  BY <1>1 DEF Alive, FiledInv, LookupFiled, LruFiled, TypeOK
<1> HIDE DEF Alive
<1> USE AbsentAssumption DEF FiledInv, TypeOK, LocalsOK, LookupFiled, Getting, Holding,
        Section, Steps, cells, args, goto
<1>5. CASE FastPath(t)
  BY <1>0, <1>2, <1>3, <1>5 DEF FastPath, Return
<1>6. CASE LookupGet(t)
  BY <1>0, <1>2, <1>3, <1>6 DEF LookupGet, Resolve
<1>7. CASE LoadFails(t)
  BY <1>0, <1>2, <1>3, <1>7 DEF LoadFails
<1>8. CASE SetDefault(t)
  <2>1. CASE Resolve(want[t]) # None
    <3>1. Resolve(want[t]) = lookup[want[t]] /\ want[t] \in Key
      BY <1>8, <2>1 DEF SetDefault, Resolve
    <3>2. /\ instance' = [instance EXCEPT ![t] = lookup[want[t]]] /\ pc' = [pc EXCEPT ![t] = "pop"]
          /\ pc[t] = "setdefault"
      BY <1>8, <2>1, <3>1 DEF SetDefault
    <3> QED BY <1>0, <1>2, <1>3, <1>8, <2>1, <3>1, <3>2 DEF SetDefault
  <2>2. CASE Resolve(want[t]) = None
    <3>1. pc' = [pc EXCEPT ![t] = "store"] /\ pc[t] = "setdefault" /\ UNCHANGED instance
      BY <1>8, <2>2 DEF SetDefault
    <3> QED BY <1>0, <1>2, <1>3, <1>8, <3>1, SMTT(30) DEF SetDefault
  <2> QED BY <2>1, <2>2
<1>9. CASE Store(t)
  BY <1>0, <1>2, <1>3, <1>9 DEF Store
<1>10. CASE LruPop(t)
  <2>1. PICK o \in Obj : popped' = [popped EXCEPT ![t] = o] /\ key'[o] = want[t]
    <3>1. CASE Has(lru, want[t])
      <4>1. PICK x \in DOMAIN lru : x = Index(lru, want[t]) /\ lru[x][1] = want[t]
        BY <3>1 DEF Has, Index
      <4>2. lru[x] \in Entries /\ key'[lru[x][2]] = want[t]
        BY <1>4, <4>1 DEF Entries
      <4>3. lru[x][2] \in Obj
        BY <4>2, EntryFields
      <4>4. popped' = [popped EXCEPT ![t] = lru[x][2]]
        BY <1>10, <3>1, <4>1 DEF LruPop, Entry
      <4> QED BY <4>2, <4>3, <4>4
    <3>2. CASE ~Has(lru, want[t])
      BY <1>2, <1>10, <3>2 DEF LruPop
    <3> QED BY <3>1, <3>2
  <2> QED BY <1>0, <1>2, <1>3, <1>10, <2>1 DEF LruPop
<1>11. CASE LruInsert(t)
  BY <1>0, <1>2, <1>3, <1>11 DEF LruInsert
<1>12. CASE LruLen(t)
  BY <1>0, <1>2, <1>3, <1>12 DEF LruLen
<1>13. CASE LruPopItem(t)
  BY <1>0, <1>2, <1>3, <1>13 DEF LruPopItem
<1>14. CASE SetLastKey(t)
  BY <1>0, <1>2, <1>3, <1>14 DEF SetLastKey
<1>15. CASE SetLastVal(t)
  BY <1>0, <1>2, <1>3, <1>15 DEF SetLastVal, Return
<1>16. CASE ClearKey(t)
  BY <1>0, <1>2, <1>3, <1>16 DEF ClearKey
<1>17. CASE ClearVal(t)
  BY <1>0, <1>2, <1>3, <1>17 DEF ClearVal
<1>18. CASE ClearLookup(t)
  BY <1>0, <1>2, <1>3, <1>18 DEF ClearLookup
<1>19. CASE ClearLru(t)
  BY <1>0, <1>2, <1>3, <1>19 DEF ClearLru
<1>20. CASE ClearKeyVal(t)
  BY <1>0, <1>2, <1>3, <1>20 DEF ClearKeyVal
<1>21. CASE ClearKeys(t)
  BY <1>0, <1>2, <1>3, <1>21 DEF ClearKeys
<1>22. CASE PopLookup(t)
  BY <1>0, <1>2, <1>3, <1>22 DEF PopLookup
<1>23. CASE PopLru(t)
  <2>1. purge[t] \in Seq(Key) /\ purge[t] # << >>
    BY <1>23 DEF PopLru
  <2>2. Tail(purge[t]) \in Seq(Key) /\ (Len(purge[t]) # 1 => Tail(purge[t]) # << >>)
    <3> DEFINE w == Tail(purge[t])
    <3>1. w \in Seq(Key) /\ Len(w) = Len(purge[t]) - 1 /\ Len(purge[t]) \in Nat
      BY <2>1
    <3> HIDE DEF w
    <3>2. Len(purge[t]) # 1 => w # << >>
      BY <3>1
    <3> QED BY <3>1, <3>2 DEF w
  <2> QED BY <1>0, <1>2, <1>3, <1>23, <2>2 DEF PopLru
<1>24. CASE Drop(t)
  BY <1>0, <1>2, <1>3, <1>24 DEF Drop
<1>25. ASSUME NEW k \in Key, CompareKey(t, k)
       PROVE  TypeOK' /\ LocalsOK' /\ LookupFiled'
  BY <1>0, <1>2, <1>3, <1>25 DEF CompareKey
<1>26. ASSUME NEW o \in Obj, Load(t, o)
       PROVE  TypeOK' /\ LocalsOK' /\ LookupFiled'
  BY <1>0, <1>2, <1>3, <1>26 DEF Load
<1>27. ASSUME NEW m \in 0 .. MaxKeys, NEW ks \in [1 .. m -> Key], ClearByKeys(t, ks)
       PROVE  TypeOK' /\ LocalsOK' /\ LookupFiled'
  BY KeysAssumption, <1>0, <1>2, <1>3, <1>27 DEF ClearByKeys
<1>28. CASE ClearKeysKey(t)
  BY <1>0, <1>2, <1>3, <1>28 DEF ClearKeysKey
<1> QED BY <1>5, <1>6, <1>7, <1>8, <1>9, <1>10, <1>11, <1>12, <1>13, <1>14, <1>15, <1>16, <1>17, <1>18,
           <1>19, <1>20, <1>21, <1>22, <1>23, <1>24, <1>25, <1>26, <1>27, <1>28 DEF Op, get_tz, clear

LEMMA FiledStep == FiledInv /\ [Next]_vars => FiledInv'
<1> SUFFICES ASSUME FiledInv, Next PROVE FiledInv'
  BY ZenonT(40) DEF FiledInv, TypeOK, LocalsOK, UniqueKeys, LookupFiled, LruFiled, vars
<1>1. PICK t \in Thread : Op(t)
  BY DEF Next, Op
<1>2. TypeOK' /\ LocalsOK' /\ LookupFiled'
  BY <1>1, LocalsStep DEF Next
<1>3. UniqueKeys'
  BY <1>1, LruStep
<1>4. ASSUME NEW i \in DOMAIN lru' PROVE key'[lru'[i][2]] = lru'[i][1]
  <2>1. \A o \in Obj : Alive(o) => key'[o] = key[o]
    BY <1>1, KeyStep
  <2>2. CASE \E j \in DOMAIN lru : lru'[i] = lru[j]
    <3>1. PICK j \in DOMAIN lru : lru'[i] = lru[j]
      BY <2>2
    <3>2. lru[j] \in Entries /\ Alive(lru[j][2]) /\ key[lru[j][2]] = lru[j][1]
      BY DEF FiledInv, TypeOK, LruFiled, Alive, Entries
    <3> QED BY <2>1, <3>1, <3>2, EntryFields
  <2>3. CASE pc[t] = "insert" /\ lru'[i][1] = want[t] /\ lru'[i][2] = popped[t]
    <3>1. popped[t] \in Obj /\ Alive(popped[t]) /\ key[popped[t]] = want[t]
      BY <2>3 DEF FiledInv, TypeOK, LocalsOK, Alive
    <3> QED BY <2>1, <2>3, <3>1
  <2> QED BY <1>1, <2>2, <2>3, LruStep
<1> QED BY <1>2, <1>3, <1>4 DEF FiledInv, LruFiled

LEMMA FiledInit == Init => FiledInv
  BY AbsentAssumption, LockAssumption
     DEF Init, FiledInv, TypeOK, LocalsOK, UniqueKeys, LookupFiled, LruFiled, Getting, Holding, Steps

LEMMA FiledInvariance == Spec => []FiledInv
  BY FiledInit, FiledStep, PTL DEF Spec

-----------------------------------------------------------------------------
\* What AloneInv says when t is the only thread in the store.
FastPathRightFor(t) ==
    /\ lastKey # None /\ pc[t] # "setVal" => lastVal # None /\ key[lastVal] = lastKey
    /\ pc[t] \in {"fast", "setVal"} => lastKey = want[t]
    /\ pc[t] \in {"clearVal", "clearKeyVal"} => lastKey = None

LruFindableFor(t) ==
    /\ \A i \in DOMAIN lru :
        \/ lookup[lru[i][1]] = lru[i][2]
        \/ pc[t] = "clearLru"
        \/ pc[t] = "popLru" /\ lru[i][1] = Head(purge[t])
    /\ pc[t] \in {"load", "setdefault", "store"} => ~InLru(want[t])
    /\ pc[t] = "pop" => lookup[want[t]] = instance[t]
    /\ pc[t] = "insert" => lookup[want[t]] = popped[t]

LEMMA OtherThreads ==
    ASSUME FiledInv, NEW t \in Thread, Op(t), NEW u \in Thread, u # t
    PROVE  /\ pc'[u] = pc[u] /\ want'[u] = want[u] /\ instance'[u] = instance[u]
           /\ popped'[u] = popped[u] /\ purge'[u] = purge[u]
  BY DEF FiledInv, TypeOK, Op, get_tz, clear, goto, cells, args, CompareKey, Return, FastPath, LookupGet,
         Load, LoadFails, SetDefault, Store, LruPop, LruInsert, LruLen, LruPopItem, SetLastKey, SetLastVal,
         Drop, ClearKey, ClearVal, ClearLookup, ClearLru, ClearByKeys, ClearKeysKey, ClearKeyVal, ClearKeys,
         PopLookup, PopLru

\* A call begins outside the store, or goes on inside.
LEMMA BeginsOrGoesOn ==
    ASSUME FiledInv, NEW t \in Thread, Op(t)
    PROVE  Drop(t) \/ pc[t] # "idle" \/ pc'[t] # "idle"
  BY DEF FiledInv, TypeOK, Op, get_tz, clear, goto, cells, args, CompareKey, Return, FastPath, LookupGet,
         Load, LoadFails, SetDefault, Store, LruPop, LruInsert, LruLen, LruPopItem, SetLastKey, SetLastVal,
         ClearKey, ClearVal, ClearLookup, ClearLru, ClearByKeys, ClearKeysKey, ClearKeyVal, ClearKeys,
         PopLookup, PopLru

LEMMA FastPathStep ==
    ASSUME FiledInv, NEW t \in Thread, Op(t), FastPathRightFor(t)
    PROVE  FastPathRightFor(t)'
<1>1. lastVal # None => lastVal \in Obj /\ key'[lastVal] = key[lastVal]
  BY KeyStep DEF FiledInv, TypeOK, Alive
<1>2. instance[t] # None => key'[instance[t]] = want[t]
  BY KeyStep DEF FiledInv, TypeOK, LocalsOK, Alive
<1> USE AbsentAssumption
    DEF FastPathRightFor, FiledInv, TypeOK, LocalsOK, Getting, Holding, goto, cells, args
<1>3. CASE SetLastKey(t)
  BY <1>3 DEF SetLastKey
<1>4. CASE SetLastVal(t)
  BY <1>2, <1>4 DEF SetLastVal, Return
<1>5. CASE ClearKey(t) \/ ClearVal(t) \/ ClearKeysKey(t) \/ ClearKeyVal(t)
  BY <1>5 DEF ClearKey, ClearVal, ClearKeysKey, ClearKeyVal
<1>6. ASSUME NEW n \in Nat, NEW ks \in [1 .. n -> Key], ClearByKeys(t, ks)
      PROVE  FastPathRightFor(t)'
  BY <1>1, <1>6 DEF ClearByKeys
<1>7. ASSUME NEW k \in Key, CompareKey(t, k)
      PROVE  FastPathRightFor(t)'
  BY <1>1, <1>7 DEF CompareKey
<1>8. CASE /\ UNCHANGED <<lastKey, lastVal>>
           /\ pc[t] # "setVal" /\ pc'[t] \notin {"fast", "setVal", "clearVal", "clearKeyVal"}
  BY <1>1, <1>8
<1> QED BY KeysAssumption, <1>3, <1>4, <1>5, <1>6, <1>7, <1>8
        DEF Op, get_tz, clear, Return, FastPath, LookupGet, Load, LoadFails, SetDefault, Store, LruPop,
            LruInsert, LruLen, LruPopItem, Drop, ClearLookup, ClearLru, ClearKeys, PopLookup, PopLru

LEMMA FindableStep ==
    ASSUME FiledInv, NEW t \in Thread, Op(t), LruFindableFor(t)
    PROVE  LruFindableFor(t)'
<1>0. /\ lru \in Seq(Entries) /\ UniqueKeys
      /\ \A i \in DOMAIN lru : lru[i] \in Entries /\ lru[i][1] \in Key /\ lru[i][2] \in Obj
  <2>1. lru \in Seq(Entries) /\ UniqueKeys
    BY DEF FiledInv, TypeOK, Entries
  <2> QED BY <2>1, EntryFields
<1> USE AbsentAssumption DEF LruFindableFor, InLru, FiledInv, TypeOK, LocalsOK, Getting, Holding, goto, cells, args
<1>1. CASE LookupGet(t)
  <2>1. CASE Resolve(want[t]) = None
    <3>1. ASSUME NEW i \in DOMAIN lru, lru[i][1] = want[t] PROVE FALSE
      <4>1. lookup[want[t]] = lru[i][2] /\ Alive(lru[i][2])
        BY <1>1, <3>1 DEF LookupGet, Alive
      <4> QED BY <1>0, <2>1, <4>1 DEF Resolve
    <3> QED BY <1>1, <2>1, <3>1 DEF LookupGet
  <2>2. CASE Resolve(want[t]) # None
    <3>1. Resolve(want[t]) = lookup[want[t]]
      BY <2>2 DEF Resolve
    <3> QED BY <1>1, <2>2, <3>1 DEF LookupGet
  <2> QED BY <2>1, <2>2
<1>2. CASE SetDefault(t)
  <2>1. CASE Resolve(want[t]) = None
    BY <1>2, <2>1 DEF SetDefault
  <2>2. CASE Resolve(want[t]) # None
    <3>1. Resolve(want[t]) = lookup[want[t]]
      BY <2>2 DEF Resolve
    <3> QED BY <1>2, <2>2, <3>1 DEF SetDefault
  <2> QED BY <2>1, <2>2
<1>3. CASE Store(t)
  BY <1>0, <1>3 DEF Store
<1>4. CASE LruPop(t)
  <2>1. /\ pc[t] = "pop" /\ pc'[t] = "insert" /\ lru' = Without(lru, want[t]) /\ UNCHANGED <<lookup, want>>
        /\ popped'[t] = IF Has(lru, want[t]) THEN Entry(lru, want[t]) ELSE instance[t]
    BY <1>4 DEF LruPop
  <2>2. popped'[t] = lookup[want[t]]
    <3>1. CASE Has(lru, want[t])
      <4>1. PICK x \in DOMAIN lru : x = Index(lru, want[t]) /\ lru[x][1] = want[t]
        BY <3>1 DEF Has, Index
      <4> QED BY <2>1, <3>1, <4>1 DEF Entry
    <3> QED BY <2>1, <3>1
  <2>3. ASSUME NEW i \in DOMAIN lru' PROVE lookup'[lru'[i][1]] = lru'[i][2]
    <3>1. PICK j \in DOMAIN lru : lru'[i] = lru[j]
      BY <1>0, <2>1, WithoutFacts DEF UniqueKeys
    <3> QED BY <2>1, <3>1
  <2> QED BY <2>1, <2>2, <2>3
<1>5. CASE LruInsert(t)
  <2>1. /\ pc[t] = "insert" /\ pc'[t] = "len" /\ UNCHANGED <<lookup, want>>
    BY <1>5 DEF LruInsert
  <2>2. ASSUME NEW i \in DOMAIN lru' PROVE lookup'[lru'[i][1]] = lru'[i][2]
    <3>1. CASE \E j \in DOMAIN lru : lru'[i] = lru[j]
      BY <2>1, <3>1
    <3>2. CASE lru'[i][1] = want[t] /\ lru'[i][2] = popped[t]
      BY <2>1, <3>2
    <3> HIDE DEF FiledInv
    <3> QED BY <3>1, <3>2, LruStep
  <2> QED BY <2>1, <2>2
<1>6. CASE LruPopItem(t)
  <2>1. /\ pc[t] = "popitem" /\ pc'[t] = "setKey" /\ UNCHANGED <<lookup, want>>
    BY <1>6 DEF LruPopItem
  <2>2. ASSUME NEW i \in DOMAIN lru' PROVE lookup'[lru'[i][1]] = lru'[i][2]
    <3>1. PICK j \in DOMAIN lru : lru'[i] = lru[j]
      <4> HIDE DEF FiledInv
      <4> QED BY <2>1, LruStep
    <3> QED BY <2>1, <3>1
  <2> QED BY <2>1, <2>2
<1>7. CASE PopLru(t)
  <2>1. /\ pc[t] = "popLru" /\ pc'[t] \in {"idle", "popLookup"} /\ UNCHANGED lookup
        /\ lru' = Without(lru, Head(purge[t]))
    BY <1>7 DEF PopLru
  <2>2. ASSUME NEW i \in DOMAIN lru' PROVE lookup'[lru'[i][1]] = lru'[i][2]
    <3>1. PICK j \in DOMAIN lru : lru'[i] = lru[j] /\ lru[j][1] # Head(purge[t])
      BY <1>0, <2>1, WithoutFacts DEF UniqueKeys
    <3> QED BY <2>1, <3>1
  <2> QED BY <2>1, <2>2
<1>8. CASE ClearLookup(t)
  BY <1>8 DEF ClearLookup
<1>9. CASE ClearLru(t)
  BY <1>9 DEF ClearLru
<1>10. CASE PopLookup(t)
  BY <1>0, <1>10 DEF PopLookup
<1>11. CASE /\ UNCHANGED <<lookup, lru>>
            /\ pc[t] \notin {"pop", "insert", "clearLru", "popLru"}
            /\ pc'[t] \notin {"pop", "insert", "load", "store"}
            /\ pc'[t] = "setdefault" => pc[t] = "load" /\ want'[t] = want[t]
  BY <1>11
<1> QED BY <1>1, <1>2, <1>3, <1>4, <1>5, <1>6, <1>7, <1>8, <1>9, <1>10, <1>11
        DEF Op, get_tz, clear, CompareKey, Return, FastPath, Load, LoadFails, LruLen, SetLastKey,
            SetLastVal, Drop, ClearKey, ClearVal, ClearByKeys, ClearKeysKey, ClearKeyVal, ClearKeys

LEMMA AloneStep == FiledInv /\ AloneInv /\ [Next]_vars => AloneInv'
<1>1. ASSUME FiledInv, AloneInv, Next, alone' PROVE AloneInv'
  <2>1. PICK t \in Thread : Op(t)
    BY <1>1 DEF Next, Op
  <2>2. OneThread /\ OneThread' /\ FastPathRight /\ LruFindable
    BY <1>1 DEF Next, AloneInv, OneThread
  <2>3. \A u \in Thread : u # t =>
            /\ pc'[u] = pc[u] /\ want'[u] = want[u] /\ instance'[u] = instance[u]
            /\ popped'[u] = popped[u] /\ purge'[u] = purge[u]
    BY <1>1, <2>1, OtherThreads
  <2>4. CASE Drop(t)
    BY <2>2, <2>4 DEF Drop, cells, AloneInv, FastPathRight, LruFindable, InLru
  <2>5. CASE ~Drop(t)
    <3>1. \A u \in Thread : u # t => pc[u] = "idle" /\ pc'[u] = "idle"
      BY <1>1, <2>1, <2>2, <2>3, <2>5, BeginsOrGoesOn DEF OneThread
    <3>2. FastPathRightFor(t) /\ LruFindableFor(t)
      BY <2>2, <3>1 DEF FastPathRight, LruFindable, FastPathRightFor, LruFindableFor
    <3>3. FastPathRightFor(t)' /\ LruFindableFor(t)'
      BY <1>1, <2>1, <3>2, FastPathStep, FindableStep
    <3> QED BY <2>2, <3>1, <3>3
            DEF AloneInv, FastPathRight, LruFindable, FastPathRightFor, LruFindableFor
  <2> QED BY <2>4, <2>5
<1>2. CASE UNCHANGED vars
  BY <1>2 DEF vars, AloneInv, OneThread, FastPathRight, LruFindable, InLru
<1> QED BY <1>1, <1>2 DEF AloneInv

LEMMA AloneInit == Init => AloneInv
  BY DEF Init, AloneInv, OneThread, FastPathRight, LruFindable

LEMMA AloneInvariance == Spec => []AloneInv
<1>1. FiledInv /\ AloneInv /\ [Next]_vars => AloneInv'
  BY AloneStep
<1> QED BY <1>1, AloneInit, FiledInvariance, PTL DEF Spec

(***************************************************************************)
(* Both dicts of the pure-Python store file every zone under its own TZ    *)
(* ID, however the steps of any number of threads interleave, and agree    *)
(* with each other after any sequence of calls that did not overlap.       *)
(***************************************************************************)
THEOREM PyTablesAgree == Spec => []TablesAgree
<1>1. FiledInv /\ AloneInv => TablesAgree
  BY DEF FiledInv, LookupFiled, LruFiled, AloneInv, LruFindable, TablesAgree, AtRest
<1> QED BY <1>1, FiledInvariance, AloneInvariance, PTL

(***************************************************************************)
(* get_tz returns the zone it was asked for, also from the fast path, as   *)
(* long as no two calls have overlapped.                                   *)
(***************************************************************************)
THEOREM PyAloneReturnsZone == Spec => AloneReturnsZoneOfKey
<1>1. ASSUME FiledInv, AloneInv, Next, alone, NEW u \in Thread
      PROVE  ReturnsOwnZone(u)
  <2>1. PICK t \in Thread : Op(t)
    BY <1>1 DEF Next, Op
  <2>2. SUFFICES ASSUME pc[u] \in {"fast", "setVal"}, pc'[u] = "idle"
                 PROVE  result'[u] # None /\ key[result'[u]] = want[u]
    BY DEF ReturnsOwnZone
  <2>3. u = t
    BY <1>1, <2>1, <2>2, OtherThreads
  <2>4. \A v \in Thread : v # u => pc[v] = "idle"
    BY <1>1, <2>2 DEF AloneInv, OneThread
  <2>5. want[u] \in Key /\ lastKey = want[u]
    BY <1>1, <2>2 DEF AloneInv, FastPathRight, FiledInv, LocalsOK, Getting, Holding
  <2>6. CASE pc[u] = "fast"
    <3>1. lastVal # None /\ key[lastVal] = want[u]
      BY <1>1, <2>4, <2>5, <2>6, AbsentAssumption DEF AloneInv, FastPathRight
    <3>2. result' = [result EXCEPT ![u] = lastVal]
      BY <2>1, <2>3, <2>6
         DEF Op, get_tz, clear, Return, CompareKey, FastPath, LookupGet, Load, LoadFails, SetDefault, Store,
             LruPop, LruInsert, LruLen, LruPopItem, SetLastKey, SetLastVal, Drop, ClearKey, ClearVal,
             ClearLookup, ClearLru, ClearByKeys, ClearKeysKey, ClearKeyVal, ClearKeys,
         PopLookup, PopLru
    <3> QED BY <1>1, <3>1, <3>2 DEF FiledInv, TypeOK
  <2>7. CASE pc[u] = "setVal"
    <3>1. instance[u] # None /\ key[instance[u]] = want[u]
      BY <1>1, <2>7 DEF FiledInv, LocalsOK, Holding
    <3>2. result' = [result EXCEPT ![u] = instance[u]]
      BY <2>1, <2>3, <2>7
         DEF Op, get_tz, clear, Return, CompareKey, FastPath, LookupGet, Load, LoadFails, SetDefault, Store,
             LruPop, LruInsert, LruLen, LruPopItem, SetLastKey, SetLastVal, Drop, ClearKey, ClearVal,
             ClearLookup, ClearLru, ClearByKeys, ClearKeysKey, ClearKeyVal, ClearKeys,
         PopLookup, PopLru
    <3> QED BY <1>1, <3>1, <3>2 DEF FiledInv, TypeOK
  <2> QED BY <2>2, <2>6, <2>7
<1>2. FiledInv /\ AloneInv /\ [Next]_vars => [alone => \A t \in Thread : ReturnsOwnZone(t)]_vars
  BY <1>1
<1> QED BY <1>2, FiledInvariance, AloneInvariance, PTL DEF Spec, AloneReturnsZoneOfKey

-----------------------------------------------------------------------------
\* How far a step moves the length of the LRU and the threads that evict.
LEMMA LengthStep ==
    ASSUME FiledInv, NEW t \in Thread, Op(t)
    PROVE  \/ LruInsert(t) /\ Len(lru') <= Len(lru) + 1
           \/ LruPopItem(t) /\ Len(lru) > 0 /\ Len(lru') = Len(lru) - 1
           \/ LruPopItem(t) /\ Len(lru) = 0 /\ Len(lru') = 0
           \/ LruLen(t) /\ lru' = lru
           \/ Len(lru') <= Len(lru) /\ pc[t] \notin {"len", "popitem"} /\ pc'[t] \notin {"len", "popitem"}
<1>0. lru \in Seq(Entries) /\ UniqueKeys
  BY DEF FiledInv, TypeOK, Entries
<1>1. CASE LruInsert(t)
  <2>1. lru' = With(lru, want[t], popped[t]) /\ pc[t] = "insert"
    BY <1>1 DEF LruInsert
  <2>2. want[t] \in Key /\ popped[t] \in Obj
    BY <2>1 DEF FiledInv, TypeOK, LocalsOK, Getting, Holding
  <2> QED BY <1>0, <1>1, <2>1, <2>2, WithFacts DEF UniqueKeys
<1>2. CASE LruPopItem(t)
  <2>1. CASE lru = << >>
    BY <1>2, <2>1 DEF LruPopItem
  <2>2. CASE lru # << >>
    BY <1>0, <1>2, <2>2 DEF LruPopItem
  <2> QED BY <2>1, <2>2
<1>3. CASE LruLen(t)
  BY <1>3 DEF LruLen, cells
<1>4. CASE LruPop(t)
  <2>1. lru' = Without(lru, want[t])
    BY <1>4 DEF LruPop
  <2>2. Len(lru') <= Len(lru)
    BY <1>0, <2>1, WithoutFacts DEF UniqueKeys
  <2> QED BY <1>4, <2>2 DEF LruPop, goto, FiledInv, TypeOK
<1>5. CASE PopLru(t)
  <2>1. lru' = Without(lru, Head(purge[t]))
    BY <1>5 DEF PopLru
  <2>2. Len(lru') <= Len(lru)
    BY <1>0, <2>1, WithoutFacts DEF UniqueKeys
  <2> QED BY <1>5, <2>2 DEF PopLru, goto, FiledInv, TypeOK
<1>6. CASE ClearLru(t)
  BY <1>0, <1>6 DEF ClearLru, goto, FiledInv, TypeOK
<1>7. CASE UNCHANGED lru /\ pc[t] \notin {"len", "popitem"} /\ pc'[t] \notin {"len", "popitem"}
  BY <1>0, <1>7
<1> QED BY <1>1, <1>2, <1>3, <1>4, <1>5, <1>6, <1>7
        DEF FiledInv, TypeOK, Op, get_tz, clear, goto, cells, args, CompareKey, Return, FastPath, LookupGet,
            Load, LoadFails, SetDefault, Store, SetLastKey, SetLastVal, Drop, ClearKey, ClearVal,
            ClearLookup, ClearByKeys, ClearKeysKey, ClearKeyVal, ClearKeys, PopLookup

LEMMA EvictingFinite == IsFiniteSet(Evicting) /\ Cardinality(Evicting) \in Nat
  BY ThreadAssumption, FS_Subset, FS_CardinalityType DEF Evicting

\* Without the lock: an insertion is paid for by a thread that will look.
LEMMA CountStep ==
    ASSUME FiledInv, NEW t \in Thread, Op(t), Len(lru) <= _TZCACHE_LRU_SIZE + Cardinality(Evicting)
    PROVE  Len(lru') <= _TZCACHE_LRU_SIZE + Cardinality(Evicting')
<1>0. /\ IsFiniteSet(Evicting) /\ Cardinality(Evicting) \in Nat
      /\ IsFiniteSet(Evicting') /\ Cardinality(Evicting') \in Nat
      /\ Len(lru) \in Nat /\ Len(lru') \in Nat /\ _TZCACHE_LRU_SIZE \in Nat
  <2>1. IsFiniteSet(Evicting') /\ Cardinality(Evicting') \in Nat
    BY ThreadAssumption, FS_Subset, FS_CardinalityType DEF Evicting
  <2> QED BY <2>1, EvictingFinite, SizeAssumption, LruStep DEF FiledInv, TypeOK
<1>1. \A u \in Thread : u # t => pc'[u] = pc[u]
  BY OtherThreads
<1>2. pc \in [Thread -> Steps] /\ pc'[t] = pc'[t]
  BY DEF FiledInv, TypeOK
<1>3. CASE LruInsert(t) /\ Len(lru') <= Len(lru) + 1
  <2>1. pc[t] = "insert" /\ pc'[t] = "len"
    BY <1>2, <1>3 DEF LruInsert, goto
  <2>2. Evicting' = Evicting \cup {t} /\ t \notin Evicting
    BY <1>1, <2>1 DEF Evicting
  <2>3. Cardinality(Evicting') = Cardinality(Evicting) + 1
    BY <1>0, <2>2, FS_AddElement
  <2> QED BY <1>0, <1>3, <2>3
<1>4. CASE LruPopItem(t) /\ Len(lru) > 0 /\ Len(lru') = Len(lru) - 1
  <2>1. pc[t] = "popitem" /\ pc'[t] = "setKey"
    BY <1>2, <1>4 DEF LruPopItem, goto
  <2>2. Evicting' = Evicting \ {t} /\ t \in Evicting
    BY <1>1, <2>1 DEF Evicting
  <2>3. Cardinality(Evicting') = Cardinality(Evicting) - 1
    BY <1>0, <2>2, FS_RemoveElement
  <2> QED BY <1>0, <1>4, <2>3
<1>5. CASE LruLen(t) /\ lru' = lru
  <2>1. CASE Len(lru) > _TZCACHE_LRU_SIZE
    <3>1. Evicting' = Evicting
      BY <1>1, <1>2, <1>5, <2>1 DEF Evicting, LruLen, goto
    <3> QED BY <1>5, <3>1
  <2>2. CASE Len(lru) <= _TZCACHE_LRU_SIZE
    BY <1>0, <1>5, <2>2
  <2> QED BY <1>0, <2>1, <2>2
<1>6. CASE Len(lru') <= Len(lru) /\ pc[t] \notin {"len", "popitem"} /\ pc'[t] \notin {"len", "popitem"}
  <2>1. Evicting' = Evicting
    BY <1>1, <1>6 DEF Evicting
  <2> QED BY <1>0, <1>6, <2>1
<1>7. CASE Len(lru') = 0
  BY <1>0, <1>7
<1> QED BY <1>3, <1>4, <1>5, <1>6, <1>7, LengthStep

\* With the lock: one thread at a time is in the sections.
LEMMA ExclusiveStep ==
    ASSUME FiledInv, NEW t \in Thread, Op(t), locked, locked', Exclusive,
           \A u \in Thread : pc[u] = "popitem" => Len(lru) > _TZCACHE_LRU_SIZE
    PROVE  Exclusive' /\ \A u \in Thread : pc'[u] = "popitem" => Len(lru') > _TZCACHE_LRU_SIZE
<1>1. \A u \in Thread : u # t => pc'[u] = pc[u]
  BY OtherThreads
<1>2. /\ pc[t] \notin Section /\ pc'[t] \in Section => \A u \in Thread : u # t => pc[u] \notin Section
      /\ lru' = lru \/ pc[t] \in Section \/ \A u \in Thread : u # t => pc[u] \notin Section
      /\ pc'[t] = "popitem" => Len(lru') > _TZCACHE_LRU_SIZE
  BY DEF FiledInv, TypeOK, Section, Acquire, Op, get_tz, clear, goto, cells, args, CompareKey, Return,
         FastPath, LookupGet, Load, LoadFails, SetDefault, Store, LruPop, LruInsert, LruLen, LruPopItem,
         SetLastKey, SetLastVal, Drop, ClearKey, ClearVal, ClearLookup, ClearLru, ClearByKeys, ClearKeysKey,
         ClearKeyVal, ClearKeys, PopLookup, PopLru
<1>3. Exclusive'
  BY <1>1, <1>2 DEF Exclusive
<1>4. ASSUME NEW u \in Thread, pc'[u] = "popitem" PROVE Len(lru') > _TZCACHE_LRU_SIZE
  BY <1>1, <1>2, <1>4 DEF Exclusive, Section
<1> QED BY <1>3, <1>4

LEMMA LimitStep == FiledInv /\ LimitInv /\ [Next]_vars => LimitInv'
<1>1. ASSUME FiledInv, LimitInv, Next PROVE LimitInv'
  <2>1. PICK t \in Thread : Op(t)
    BY <1>1 DEF Next, Op
  <2>2. Len(lru') <= _TZCACHE_LRU_SIZE + Cardinality(Evicting')
    BY <1>1, <2>1, CountStep DEF LimitInv
  <2>3. locked' = locked
    BY <1>1 DEF Next
  <2> QED BY <1>1, <2>1, <2>2, <2>3, ExclusiveStep DEF LimitInv
<1>2. CASE UNCHANGED vars
  BY <1>2 DEF vars, LimitInv, Evicting, Exclusive
<1> QED BY <1>1, <1>2

LEMMA LimitInit == Init => LimitInv
<1> SUFFICES ASSUME Init PROVE LimitInv
  OBVIOUS
<1>1. Evicting = {} /\ lru = << >>
  BY DEF Init, Evicting
<1>2. Len(lru) = 0
  BY <1>1
<1> QED BY <1>1, <1>2, EvictingFinite, SizeAssumption DEF Init, LimitInv, Exclusive, Section

LEMMA LimitInvImplies == FiledInv /\ LimitInv => LruWithinLimit
<1> SUFFICES ASSUME FiledInv, LimitInv PROVE LruWithinLimit
  OBVIOUS
<1>0. Len(lru) \in Nat /\ _TZCACHE_LRU_SIZE \in Nat
  BY SizeAssumption DEF FiledInv, TypeOK
<1>1. ASSUME Evicting = {} PROVE Len(lru) <= _TZCACHE_LRU_SIZE
  <2>1. Cardinality(Evicting) = 0
    BY <1>1, FS_EmptySet
  <2> QED BY <1>0, <2>1 DEF LimitInv
<1>2. AtRest => Evicting = {}
  BY DEF AtRest, Evicting
<1>3. ASSUME locked PROVE Len(lru) <= _TZCACHE_LRU_SIZE + 1
  <2>1. CASE Evicting = {}
    BY <1>0, <1>1, <2>1
  <2>2. CASE Evicting # {}
    <3>1. PICK t : Evicting = {t}
      BY <1>3, <2>2, ZenonT(40) DEF Evicting, LimitInv, Exclusive, Section
    <3>2. Cardinality(Evicting) = 1
      BY <3>1, FS_Singleton
    <3> QED BY <1>0, <3>2 DEF LimitInv
  <2> QED BY <2>1, <2>2
<1>4. Len(lru) > _TZCACHE_LRU_SIZE => \E t \in Thread : pc[t] \in {"len", "popitem"}
  BY <1>0, <1>1 DEF Evicting
<1> QED BY <1>1, <1>2, <1>3, <1>4 DEF LruWithinLimit, LimitInv

(***************************************************************************)
(* The LRU of the pure-Python store is within its limit whenever no thread *)
(* is in the store, with and without the lock; with it, it never exceeds   *)
(* the limit by more than the entry being inserted, and popitem never      *)
(* finds an empty dict.                                                    *)
(***************************************************************************)
THEOREM PyLruWithinLimit == Spec => []LruWithinLimit
<1>1. FiledInv /\ LimitInv /\ [Next]_vars => LimitInv'
  BY LimitStep
<1> QED BY <1>1, LimitInit, LimitInvImplies, FiledInvariance, PTL DEF Spec
=============================================================================
