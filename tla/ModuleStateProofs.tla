------------------------- MODULE ModuleStateProofs -------------------------
(***************************************************************************)
(* Proofs about the parts of the module state, for any threads, values and *)
(* objects and any range of the clock.                                     *)
(***************************************************************************)
EXTENDS ModuleState, FiniteSetTheorems, TLAPS

-----------------------------------------------------------------------------
(***************************************************************************)
(* OncePyCell.                                                             *)
(***************************************************************************)
(***************************************************************************)
(* The inductive invariant, of both builds: the threads that initialise    *)
(* after a set() are those that did so before it, because the slot is      *)
(* never emptied; and only they can displace the value.                    *)
(***************************************************************************)
CellInv ==
    /\ TypeOK
    /\ \A t \in Thread : pc[t] = "store" => freeThreaded /\ computed[t] # None
    /\ override # None =>
         /\ value # None
         /\ \A t \in Thread : pc[t] # "idle" => t \in racing
         /\ value = override \/ storer \in racing
         /\ freeThreaded => value = override
    /\ freeThreaded /\ override = None =>
         \A t \in Thread : result[t] # None => result[t] = value

LEMMA CellInit == Init => CellInv
  BY NoValueAssumption, BuildAssumption DEF Init, CellInv, TypeOK

LEMMA CellStep == CellInv /\ [Next]_vars => CellInv'
<1> SUFFICES ASSUME CellInv, [Next]_vars PROVE CellInv'
  OBVIOUS
<1> USE NoValueAssumption, BuildAssumption DEF CellInv, TypeOK, history
<1>1. ASSUME NEW t \in Thread, GetFast(t) PROVE CellInv'
  BY <1>1 DEF GetFast
<1>2. ASSUME NEW t \in Thread, GetSlow(t) PROVE CellInv'
  BY <1>2 DEF GetSlow
<1>3. ASSUME NEW t \in Thread, InitFails(t) PROVE CellInv'
  BY <1>3 DEF InitFails
<1>4. ASSUME NEW t \in Thread, NEW v \in Value, GilStore(t, v) PROVE CellInv'
  BY <1>4 DEF GilStore
<1>5. ASSUME NEW t \in Thread, NEW v \in Value, InitReturns(t, v) PROVE CellInv'
  BY <1>5 DEF InitReturns
<1>6. ASSUME NEW t \in Thread, Store(t) PROVE CellInv'
  <2>1. CASE value # None
    BY <1>6, <2>1 DEF Store, Finish
  <2>2. CASE value = None
    BY <1>6, <2>2 DEF Store, Finish
  <2> QED BY <2>1, <2>2
<1>7. ASSUME NEW v \in Value, set(v) PROVE CellInv'
  BY <1>7 DEF set
<1>8. CASE UNCHANGED vars
  BY <1>8 DEF vars
<1> QED
  BY <1>1, <1>2, <1>3, <1>4, <1>5, <1>6, <1>7, <1>8 DEF Next

LEMMA CellInvariance == Spec => []CellInv
  BY CellInit, CellStep, PTL DEF Spec

\* Every variable of the cell keeps its type.
THEOREM CellTypeCorrect == Spec => []TypeOK
  BY CellInvariance, PTL DEF CellInv

\* In the free-threaded build set() is final and first uses agree on one value.
THEOREM FreeThreadedBuildAgrees == Spec => []FreeThreadedAgrees
<1>1. CellInv => FreeThreadedAgrees
  BY DEF CellInv, FreeThreadedAgrees, SetWins
<1>2. QED BY <1>1, CellInvariance, PTL

\* In the free-threaded build an initialised cell changes only through set().
THEOREM FreeThreadedIsStable == Spec => StableOnceInitialised
<1>1. CellInv /\ CellInv' /\ [Next]_vars =>
          [freeThreaded /\ value # None /\ value' # value => value' = override']_vars
  <2> SUFFICES ASSUME CellInv, [Next]_vars, freeThreaded, value # None, value' # value
               PROVE  value' = override'
    OBVIOUS
  <2>1. ASSUME NEW t \in Thread, Store(t) PROVE FALSE
    BY <2>1 DEF Store, Finish
  <2> QED
    BY <2>1 DEF Next, vars, GetFast, GetSlow, InitFails, GilStore, InitReturns, set
<1>2. QED BY <1>1, CellInvariance, PTL DEF Spec, StableOnceInitialised

\* In both builds only an initialiser that ran during set() can displace its value.
THEOREM SetLostOnlyToRace == Spec => []SetLostOnlyToRunningInit
<1>1. CellInv => SetLostOnlyToRunningInit
  BY DEF CellInv, SetLostOnlyToRunningInit
<1>2. QED BY <1>1, CellInvariance, PTL
-----------------------------------------------------------------------------
(***************************************************************************)
(* OncePyObj.  A thread owns a reference while it has an object of its own *)
(* and has not lost the compare-and-swap, and the cell owns one to what it *)
(* points to: together they are what the counts say.                       *)
(***************************************************************************)
Owners(o) == {t \in Thread : objPc[t] = "cas" /\ mine[t] = o}

ObjTypes ==
    /\ ptr \in Object \cup {None}
    /\ refs \in [Object -> Nat]
    /\ objPc \in [Thread -> {"idle", "init", "cas"}]
    /\ mine \in [Thread -> Object \cup {None}]
    /\ objResult \in [Thread -> Object \cup {None}]
    /\ dropped \in BOOLEAN

ObjInv ==
    /\ ObjTypes
    /\ \A t \in Thread : objPc[t] = "cas" => mine[t] \in Object
    /\ \A t \in Thread : objResult[t] # None => objResult[t] = ptr
    /\ dropped => ptr = None /\ \A t \in Thread : objPc[t] = "idle"
    /\ \A o \in Object : refs[o] = Cardinality(Owners(o)) + IF ptr = o THEN 1 ELSE 0

LEMMA OwnersFinite ==
    ASSUME NEW o
    PROVE  /\ IsFiniteSet(Owners(o)) /\ Cardinality(Owners(o)) \in Nat
           /\ Cardinality(Thread) \in Nat /\ Cardinality(Owners(o)) <= Cardinality(Thread)
<1>1. Owners(o) \in SUBSET Thread
  BY DEF Owners
<1>2. IsFiniteSet(Owners(o)) /\ Cardinality(Owners(o)) <= Cardinality(Thread)
  BY <1>1, ThreadsAssumption, FS_Subset
<1> QED BY <1>2, ThreadsAssumption, FS_CardinalityType

LEMMA ObjInit == Obj!Init => ObjInv
<1> SUFFICES ASSUME Obj!Init PROVE ObjInv
  OBVIOUS
<1>1. \A o \in Object : Owners(o) = {}
  BY DEF Owners, Obj!Init
<1>2. \A o \in Object : Cardinality(Owners(o)) = 0
  BY <1>1, FS_EmptySet
<1>3. \A o \in Object : refs[o] = Cardinality(Owners(o)) + IF ptr = o THEN 1 ELSE 0
  BY <1>2, NullAssumption DEF Obj!Init
<1>4. ObjTypes
  BY DEF ObjTypes, Obj!Init
<1> QED BY <1>3, <1>4, NullAssumption DEF ObjInv, Obj!Init

LEMMA ObjStep == ObjInv /\ [Obj!Next]_objVars => ObjInv'
<1> SUFFICES ASSUME ObjInv, [Obj!Next]_objVars PROVE ObjInv'
  OBVIOUS
<1> USE NullAssumption DEF ObjInv, ObjTypes
<1>1. ASSUME NEW t \in Thread, Obj!GetFast(t) \/ Obj!GetSlow(t) \/ Obj!InitFails(t) PROVE ObjInv'
  <2>1. \A o \in Object : Owners(o)' = Owners(o)
    BY <1>1 DEF Owners, Obj!GetFast, Obj!GetSlow, Obj!InitFails
  <2>2. \A o \in Object : Cardinality(Owners(o))' = Cardinality(Owners(o))
    BY <2>1
  <2> HIDE DEF Owners
  <2> QED BY <1>1, <2>2 DEF Obj!GetFast, Obj!GetSlow, Obj!InitFails
<1>2. ASSUME NEW t \in Thread, NEW o \in Object, Obj!InitReturns(t, o) PROVE ObjInv'
  <2>1. t \notin Owners(o) /\ Owners(o)' = Owners(o) \cup {t}
    BY <1>2 DEF Owners, Obj!InitReturns
  <2>2. \A p \in Object \ {o} : Owners(p)' = Owners(p)
    BY <1>2 DEF Owners, Obj!InitReturns
  <2>3. Cardinality(Owners(o))' = Cardinality(Owners(o)) + 1
    BY <2>1, OwnersFinite, FS_AddElement
  <2>4. \A p \in Object \ {o} : Cardinality(Owners(p))' = Cardinality(Owners(p))
    BY <2>2
  <2>5. \A p \in Object : refs'[p] = Cardinality(Owners(p))' + IF ptr' = p THEN 1 ELSE 0
    BY <1>2, <2>3, <2>4, OwnersFinite DEF Obj!InitReturns
  <2> QED BY <1>2, <2>5 DEF Obj!InitReturns
<1>3. ASSUME NEW t \in Thread, Obj!CasWins(t) \/ Obj!CasLoses(t) PROVE ObjInv'
  <2>0. PICK o \in Object : o = mine[t] /\ objPc[t] = "cas"
    BY <1>3 DEF Obj!CasWins, Obj!CasLoses
  <2>1. t \in Owners(o) /\ Owners(o)' = Owners(o) \ {t}
    BY <1>3, <2>0 DEF Owners, Obj!CasWins, Obj!CasLoses, Obj!Finish
  <2>2. \A p \in Object \ {o} : Owners(p)' = Owners(p)
    BY <1>3, <2>0 DEF Owners, Obj!CasWins, Obj!CasLoses, Obj!Finish
  <2>3. Cardinality(Owners(o))' = Cardinality(Owners(o)) - 1
    BY <2>1, OwnersFinite, FS_RemoveElement
  <2>4. \A p \in Object \ {o} : Cardinality(Owners(p))' = Cardinality(Owners(p))
    BY <2>2
  <2>5. \A p \in Object : Cardinality(Owners(p)) \in Nat /\ Cardinality(Owners(p))' \in Nat
    <3>1. \A p \in Object : IsFiniteSet(Owners(p)) /\ Cardinality(Owners(p)) \in Nat
      BY OwnersFinite
    <3>2. IsFiniteSet(Owners(o) \ {t})
      BY <2>1, <3>1, FS_RemoveElement
    <3>3. Cardinality(Owners(o) \ {t}) \in Nat
      BY <3>2, FS_CardinalityType
    <3> QED BY <2>1, <2>4, <3>1, <3>3
  <2>6. CASE Obj!CasWins(t)
    <3>1. \A p \in Object : refs'[p] = Cardinality(Owners(p))' + IF ptr' = p THEN 1 ELSE 0
      BY <2>6, <2>0, <2>3, <2>4, <2>5 DEF Obj!CasWins
    <3> QED BY <2>0, <2>6, <3>1 DEF Obj!CasWins, Obj!Finish
  <2>7. CASE Obj!CasLoses(t)
    <3>1. \A p \in Object : refs'[p] = Cardinality(Owners(p))' + IF ptr' = p THEN 1 ELSE 0
      BY <2>7, <2>0, <2>3, <2>4, <2>5 DEF Obj!CasLoses
    <3>2. refs' \in [Object -> Nat]
      BY <2>7, <2>5, <3>1 DEF Obj!CasLoses
    <3> QED BY <2>0, <2>7, <3>1, <3>2 DEF Obj!CasLoses, Obj!Finish
  <2> QED BY <1>3, <2>6, <2>7
<1>4. CASE Obj!Drop
  <2>1. \A o \in Object : Owners(o)' = Owners(o)
    BY <1>4 DEF Owners, Obj!Drop
  <2>2. \A o \in Object : Cardinality(Owners(o))' = Cardinality(Owners(o))
    BY <2>1
  <2>3. \A o \in Object : refs'[o] = Cardinality(Owners(o))' + IF ptr' = o THEN 1 ELSE 0
    BY <1>4, <2>2, OwnersFinite DEF Obj!Drop
  <2>4. refs' \in [Object -> Nat]
    BY <1>4, OwnersFinite DEF Obj!Drop
  <2> QED BY <1>4, <2>3, <2>4 DEF Obj!Drop
<1>5. CASE UNCHANGED objVars
  <2>1. \A o \in Object : Owners(o)' = Owners(o)
    BY <1>5 DEF Owners, objVars
  <2>2. \A o \in Object : Cardinality(Owners(o))' = Cardinality(Owners(o))
    BY <2>1
  <2> QED BY <1>5, <2>2 DEF objVars
<1> QED
  BY <1>1, <1>2, <1>3, <1>4, <1>5 DEF Obj!Next

LEMMA ObjInvImplies == ObjInv => ReferencesBalance
<1> SUFFICES ASSUME ObjInv PROVE ReferencesBalance
  OBVIOUS
<1>0. \A o \in Object : /\ Cardinality(Owners(o)) \in Nat /\ Cardinality(Thread) \in Nat
                        /\ Cardinality(Owners(o)) <= Cardinality(Thread)
  BY OwnersFinite
<1>1. \A o \in Object : refs[o] \in 0 .. Cardinality(Thread) + 1
  BY <1>0 DEF ObjInv
<1>2. refs \in [Object -> 0 .. Cardinality(Thread) + 1]
  BY <1>1 DEF ObjInv, ObjTypes
<1>3. Obj!TypeOK
  <2>1. Obj!Cardinality(Thread) = Cardinality(Thread)
    BY DEF Obj!Cardinality, Cardinality
  <2> QED BY <1>2, <2>1 DEF Obj!TypeOK, ObjInv, ObjTypes
<1>4. Obj!BorrowedIsOwned
  BY <1>0 DEF Obj!BorrowedIsOwned, ObjInv, ObjTypes
<1>5. ASSUME \A t \in Thread : objPc[t] = "idle", NEW o \in Object
      PROVE  refs[o] = IF o = ptr THEN 1 ELSE 0
  <2>1. Owners(o) = {}
    BY <1>5 DEF Owners
  <2>2. Cardinality(Owners(o)) = 0
    BY <2>1, FS_EmptySet
  <2> QED BY <2>2 DEF ObjInv
<1>6. Obj!OneReferenceAtRest
  BY <1>5 DEF Obj!OneReferenceAtRest
<1> QED BY <1>3, <1>4, <1>6 DEF ReferencesBalance

LEMMA ObjStateStep == ObjInv /\ [StateNext]_<<part, vars, objVars, patchVars>> => ObjInv'
<1> SUFFICES ASSUME ObjInv, [StateNext]_<<part, vars, objVars, patchVars>> PROVE ObjInv'
  OBVIOUS
<1>1. [Obj!Next]_objVars
  BY DEF StateNext
<1> QED BY <1>1, ObjStep

(***************************************************************************)
(* However many threads race to initialise a OncePyObj, whichever objects  *)
(* their initialisers return: no reference is leaked or released twice,    *)
(* and what get() returned is owned by the cell for as long as it lives.   *)
(***************************************************************************)
THEOREM ReferencesAlwaysBalance == StateSpec => []ReferencesBalance
<1>1. StateInit => ObjInv
  BY ObjInit DEF StateInit
<1>2. QED BY <1>1, ObjStateStep, ObjInvImplies, PTL DEF StateSpec
-----------------------------------------------------------------------------
(***************************************************************************)
(* The time patch.  Only the innermost block can be clean.  If it is, the  *)
(* patch is its own: a frozen one stands at what the calls of the block    *)
(* add up to, a ticking one stood there at the clock that set it.  In the  *)
(* middle of a shift, the pin of a ticking block is what now() was at the  *)
(* first reading of the clock, plus the shift.                             *)
(***************************************************************************)
Blocks == [pin : Int, ticking : BOOLEAN, due : Int, clean : BOOLEAN]

IsPatchOf(p, b) ==
    IF b.ticking THEN p.state = "KeepTicking" /\ p.pin - p.at = b.due
    ELSE p.state = "Frozen" /\ p.pin = b.due /\ b.due \in 0 .. LastTick

PatchTypes ==
    /\ clock \in -1 .. ClockMax
    /\ travel \in Travels \cup {0}
    /\ installed \in BOOLEAN
    /\ patch \in [state : {"Unset", "Frozen", "KeepTicking"}, pin : Int, at : Int]
    /\ blocks \in Seq(Blocks)
    /\ shifting \in [block : Nat, by : Int, read : Int]

ShiftInv ==
    LET b == blocks[shifting.block]
    IN  shifting # Time!NoShift =>
            /\ shifting.block \in 1 .. Len(blocks)
            /\ b.pin <= LastTick
            /\ b.clean /\ b.ticking => b.pin = b.due + shifting.by + shifting.read

PatchInv ==
    /\ PatchTypes
    /\ ShiftInv
    /\ blocks = <<>> => patch = Time!Unset
    /\ \A i \in 1 .. Len(blocks) - 1 : ~blocks[i].clean
    /\ blocks # <<>> /\ blocks[Len(blocks)].clean => IsPatchOf(patch, blocks[Len(blocks)])

\* time_ns_py is exact from 1970 on, and at whole seconds before.
LEMMA FromNanosExact ==
    ASSUME NEW ns \in Time!Instants, ns >= 0 \/ ns % TicksPerSecond = 0
    PROVE  Time!from_nanos_i64(ns) = ns
<1> DEFINE T == TicksPerSecond
<1>0. T \in Nat \ {0} /\ ns \in Int
  BY TimeAssumption DEF Time!Instants
<1>1. CASE ns >= 0
  <2>1. (ns \div T) * T + (ns % T) = ns
    BY <1>0
  <2> QED BY <1>0, <1>1, <2>1 DEF Time!from_nanos_i64
<1>2. CASE ns < 0
  <2>1. ns % T = 0
    BY <1>0, <1>2
  <2>2. (-ns) \div T = -(ns \div T)
    BY <1>0, <1>2, <2>1
  <2>3. (ns \div T) * T = ns
    BY <1>0, <2>1
  <2> QED BY <1>0, <1>2, <2>1, <2>2, <2>3 DEF Time!from_nanos_i64
<1> QED BY <1>0, <1>1, <1>2

LEMMA PatchInvImplies == PatchInv => PatchedTimeAddsUp
<1> SUFFICES ASSUME PatchInv PROVE Time!PatchedTimeAddsUp
  BY DEF PatchedTimeAddsUp
<1> DEFINE b == blocks[Len(blocks)]
           due == IF b.ticking THEN b.due + clock ELSE b.due
           system == IF installed THEN clock + travel ELSE clock
<1> USE TimeAssumption DEF PatchInv, PatchTypes
<1>1. ASSUME blocks = <<>>, system >= 0 \/ (installed /\ system % TicksPerSecond = 0)
      PROVE  Time!now = system
  <2>1. patch.state = "Unset"
    BY <1>1 DEF Time!Unset
  <2>2. clock + travel \in Time!Instants /\ clock + 0 \in Time!Instants
    BY DEF Time!Instants
  <2>3. CASE installed
    BY <1>1, <2>1, <2>2, <2>3, FromNanosExact DEF Time!now
  <2>4. CASE ~installed
    BY <1>1, <2>1, <2>2, <2>4 DEF Time!now, Time!from_duration_since_epoch, Time!Instants
  <2> QED BY <2>3, <2>4
<1>2. ASSUME blocks # <<>>, b.clean, b.ticking => clock >= 0
      PROVE  Time!now = Time!from_duration_since_epoch(due)
  <2>1. b \in Blocks /\ IsPatchOf(patch, b)
    BY <1>2
  <2>2. CASE b.ticking
    <3>1. patch.state = "KeepTicking" /\ patch.pin + clock - patch.at = b.due + clock
      BY <2>1, <2>2 DEF IsPatchOf, Blocks
    <3> QED BY <1>2, <2>2, <3>1 DEF Time!now
  <2>3. CASE ~b.ticking
    BY <2>1, <2>3 DEF Time!now, IsPatchOf, Time!from_duration_since_epoch
  <2> QED BY <2>2, <2>3
<1> QED BY <1>1, <1>2 DEF Time!PatchedTimeAddsUp

LEMMA PatchInit == Time!Init => PatchInv
  BY TimeAssumption DEF Time!Init, PatchInv, PatchTypes, ShiftInv, Time!Unset, Time!NoShift

\* What _patch_time sets, where it does not raise.
LEMMA PatchTimeFacts ==
    ASSUME NEW n \in Int, n <= LastTick, NEW ticking \in BOOLEAN, clock \in Int,
           Time!_patch_time(n, ticking) # Time!Unset
    PROVE  LET p == Time!_patch_time(n, ticking) IN
           /\ n >= 0
           /\ p \in [state : {"Unset", "Frozen", "KeepTicking"}, pin : Int, at : Int]
           /\ ticking => p.state = "KeepTicking" /\ p.pin = n /\ p.at = clock
           /\ ~ticking => p.state = "Frozen" /\ p.pin = n
  BY DEF Time!_patch_time, Time!Unset, Time!Frozen, Time!KeepTicking

LEMMA BlockFields ==
    ASSUME NEW p \in Int, NEW k \in BOOLEAN, NEW c \in BOOLEAN, NEW d \in Int
    PROVE  /\ Time!Block(p, k, c, d) \in Blocks
           /\ Time!Block(p, k, c, d).pin = p
           /\ Time!Block(p, k, c, d).ticking <=> k
           /\ Time!Block(p, k, c, d).clean <=> c
           /\ c => Time!Block(p, k, c, d).due = d
  BY DEF Blocks, Time!Block

LEMMA BlockTypes ==
    ASSUME NEW b \in Blocks
    PROVE  b.pin \in Int /\ b.due \in Int /\ b.clean \in BOOLEAN /\ b.ticking \in BOOLEAN
  BY DEF Blocks

LEMMA UncleanFacts ==
    ASSUME NEW bs \in Seq(Blocks)
    PROVE  /\ Time!Unclean(bs) \in Seq(Blocks) /\ Len(Time!Unclean(bs)) = Len(bs)
           /\ \A i \in 1 .. Len(bs) : ~Time!Unclean(bs)[i].clean
<1> DEFINE u(i) == Time!Block(bs[i].pin, bs[i].ticking, FALSE, 0)
<1>1. ASSUME NEW i \in 1 .. Len(bs)
      PROVE  u(i) \in Blocks /\ ~u(i).clean
  <2>1. bs[i].pin \in Int /\ bs[i].ticking \in BOOLEAN /\ 0 \in Int
    BY BlockTypes
  <2> QED BY <2>1, BlockFields, Zenon
<1>2. Time!Unclean(bs) = [i \in 1 .. Len(bs) |-> u(i)]
  BY DEF Time!Unclean
<1> HIDE DEF u
<1>3. Time!Unclean(bs) \in Seq(Blocks) /\ Len(Time!Unclean(bs)) = Len(bs)
  BY <1>1, <1>2
<1> QED BY <1>1, <1>2, <1>3

LEMMA EnterStep == PatchInv /\ Time!Enter => PatchInv'
<1> SUFFICES ASSUME PatchInv, Time!Enter PROVE PatchInv'
  OBVIOUS
<1> USE TimeAssumption DEF PatchInv, PatchTypes
<1>1. PICK dt \in Time!Instants, ticking \in BOOLEAN :
        /\ Time!_patch_time(dt, ticking) # Time!Unset
        /\ patch' = Time!_patch_time(dt, ticking)
        /\ blocks' = Append(Time!Unclean(blocks),
                            Time!Block(dt, ticking, TRUE, IF ticking THEN dt - clock ELSE dt))
  BY DEF Time!Enter
<1> DEFINE b == Time!Block(dt, ticking, TRUE, IF ticking THEN dt - clock ELSE dt)
<1>2. dt \in Int /\ dt <= LastTick
  BY DEF Time!Instants
<1>3. b \in Blocks
  BY <1>2 DEF Blocks, Time!Block
<1>4. /\ blocks' \in Seq(Blocks) /\ Len(blocks') = Len(blocks) + 1
      /\ blocks'[Len(blocks')] = b
      /\ \A i \in 1 .. Len(blocks') - 1 : ~blocks'[i].clean
  <2> DEFINE u == Time!Unclean(blocks)
  <2>1. /\ u \in Seq(Blocks) /\ Len(u) = Len(blocks)
        /\ \A i \in 1 .. Len(blocks) : ~u[i].clean
    BY UncleanFacts
  <2> HIDE DEF b, u
  <2>2. blocks' = Append(u, b)
    BY <1>1 DEF b, u
  <2> QED BY <1>3, <2>1, <2>2
<1>5. IsPatchOf(patch', b) /\ patch' \in [state : {"Unset", "Frozen", "KeepTicking"}, pin : Int, at : Int]
  BY <1>1, <1>2, PatchTimeFacts DEF IsPatchOf, Time!Block
<1> HIDE DEF b
<1>6. PatchTypes'
  BY <1>4, <1>5 DEF Time!Enter
<1>7. ShiftInv'
  BY DEF Time!Enter, ShiftInv
<1> QED BY <1>4, <1>5, <1>6, <1>7

LEMMA LeaveStep == PatchInv /\ Time!Leave => PatchInv'
<1> SUFFICES ASSUME PatchInv, Time!Leave PROVE PatchInv'
  OBVIOUS
<1> USE DEF PatchInv, PatchTypes
<1>0. PICK n \in Nat : Len(blocks) = n + 1
  <2>1. Len(blocks) \in Nat /\ Len(blocks) > 0
    BY DEF Time!Leave
  <2> QED BY <2>1, SMTT(40)
<1>1. /\ blocks' \in Seq(Blocks) /\ Len(blocks') = n
      /\ \A i \in 1 .. n : blocks'[i] = blocks[i]
  <2>1. blocks' = SubSeq(blocks, 1, n)
    BY <1>0 DEF Time!Leave
  <2> QED BY <1>0, <2>1
<1>2. \A i \in 1 .. Len(blocks') : ~blocks'[i].clean
  BY <1>0, <1>1
<1>3. blocks' # <<>> => ~blocks'[Len(blocks')].clean
  BY <1>1, <1>2
<1>4. ShiftInv'
  BY DEF Time!Leave, ShiftInv
<1> QED BY <1>1, <1>2, <1>3, <1>4 DEF Time!Leave, Time!Unset

LEMMA BeginShiftStep == PatchInv /\ Time!BeginShift => PatchInv'
<1> SUFFICES ASSUME PatchInv, Time!BeginShift PROVE PatchInv'
  OBVIOUS
<1> USE TimeAssumption DEF PatchInv, PatchTypes
<1>1. PICK i \in DOMAIN blocks, d \in Shifts :
        LET new == Time!ShiftFrom(blocks[i]) + d
        IN  /\ Time!ShiftFrom(blocks[i]) # Time!NoTime /\ new \in Time!Instants
            /\ blocks' = [blocks EXCEPT ![i].pin = new]
            /\ shifting' = [block |-> i, by |-> d, read |-> clock]
  BY DEF Time!BeginShift
<1> DEFINE b == blocks[i]
           new == Time!ShiftFrom(b) + d
           c == [b EXCEPT !.pin = new]
           n == Len(blocks)
<1>2. /\ b \in Blocks /\ i \in 1 .. n /\ n \in Nat \ {0} /\ d \in Int
      /\ new \in Int /\ new <= LastTick /\ Time!ShiftFrom(b) # Time!NoTime
  BY <1>1, SMTT(40) DEF Time!Instants
<1>3. /\ c \in Blocks /\ c.pin = new
      /\ c.ticking = b.ticking /\ c.clean = b.clean /\ c.due = b.due
  <2> HIDE DEF b, new
  <2> QED BY <1>2 DEF Blocks
<1>4. blocks' = [blocks EXCEPT ![i] = c]
  BY <1>1
<1> HIDE DEF c
<1>5. /\ blocks' \in Seq(Blocks) /\ Len(blocks') = n
      /\ blocks'[i] = c
      /\ \A j \in 1 .. n : j # i => blocks'[j] = blocks[j]
  BY <1>2, <1>3, <1>4
<1>6. \A j \in 1 .. n : /\ blocks'[j].clean = blocks[j].clean
                        /\ blocks'[j].ticking = blocks[j].ticking
                        /\ blocks'[j].due = blocks[j].due
  BY <1>3, <1>5
<1>7. UNCHANGED <<clock, travel, installed, patch>>
  BY DEF Time!BeginShift
<1>8. PatchTypes' /\ (blocks' = <<>> => patch' = Time!Unset)
  BY <1>1, <1>2, <1>5, <1>7
<1>9. /\ \A j \in 1 .. Len(blocks') - 1 : ~blocks'[j].clean
      /\ blocks' # <<>> /\ blocks'[Len(blocks')].clean => IsPatchOf(patch', blocks'[Len(blocks')])
  <2>1. n \in 1 .. n /\ blocks # <<>> /\ Len(blocks') = n
    BY <1>2, <1>5
  <2>2. \A j \in 1 .. n - 1 : j \in 1 .. n /\ ~blocks[j].clean
    BY <1>2
  <2>3. \A j \in 1 .. n - 1 : ~blocks'[j].clean
    BY <1>6, <2>2
  <2>4. /\ blocks'[n].clean = blocks[n].clean
        /\ blocks'[n].ticking = blocks[n].ticking
        /\ blocks'[n].due = blocks[n].due
    BY <1>6, <2>1
  <2>5. blocks'[n].clean => IsPatchOf(patch', blocks'[n])
    BY <1>7, <2>1, <2>4 DEF IsPatchOf
  <2> QED BY <2>1, <2>3, <2>5
<1>10. ShiftInv'
  <2>1. shifting'.block = i /\ shifting'.by = d /\ shifting'.read = clock
    BY <1>1
  <2>2. ASSUME b.clean, b.ticking PROVE new = b.due + d + clock
    <3>1. i = n
      BY <1>2, <2>2, SMTT(40)
    <3>2. IsPatchOf(patch, b)
      BY <1>2, <2>2, <3>1
    <3>3. patch.state = "KeepTicking" /\ patch.pin - patch.at = b.due
      BY <2>2, <3>2 DEF IsPatchOf
    <3>4. Time!now # Time!NoTime
      BY <1>2, <2>2 DEF Time!ShiftFrom
    <3>5. b.due \in Int
      BY <1>2, BlockTypes
    <3>6. Time!now = b.due + clock
      BY <3>3, <3>4, <3>5 DEF Time!now, Time!from_duration_since_epoch
    <3> QED BY <2>2, <3>5, <3>6, <1>2 DEF Time!ShiftFrom
  <2> HIDE DEF new, b
  <2>3. blocks'[i].pin = new /\ (blocks'[i].clean /\ blocks'[i].ticking => new = blocks'[i].due + d + clock)
    BY <1>3, <1>5, <2>2
  <2> QED BY <1>2, <1>5, <2>1, <2>3 DEF ShiftInv
<1> QED BY <1>8, <1>9, <1>10

LEMMA FinishShiftStep == PatchInv /\ Time!FinishShift => PatchInv'
<1> SUFFICES ASSUME PatchInv, Time!FinishShift PROVE PatchInv'
  OBVIOUS
<1> USE TimeAssumption DEF PatchInv, PatchTypes
<1> DEFINE i == shifting.block
           b == blocks[i]
           n == Len(blocks)
           state == Time!_patch_time(b.pin, b.ticking)
           k == b.clean /\ i = n /\ (b.ticking \/ b.pin = b.due + shifting.by)
           due == Time!DueAfterShift(b)
           c == Time!Block(b.pin, b.ticking, k, due)
           bs == IF i = n THEN blocks ELSE Time!Unclean(blocks)
<1>1. /\ shifting' = Time!NoShift /\ UNCHANGED <<clock, travel, installed>>
      /\ IF state = Time!Unset THEN UNCHANGED <<patch, blocks>>
         ELSE blocks' = [bs EXCEPT ![i] = c] /\ patch' = state
  BY DEF Time!FinishShift
<1>2. /\ i \in 1 .. n /\ b \in Blocks /\ n \in Nat \ {0} /\ b.pin <= LastTick
      /\ b.clean /\ b.ticking => b.pin = b.due + shifting.by + shifting.read
  BY SMTT(40) DEF Time!FinishShift, ShiftInv
<1>3. /\ b.pin \in Int /\ b.due \in Int /\ b.clean \in BOOLEAN /\ b.ticking \in BOOLEAN
      /\ shifting.by \in Int /\ shifting.read \in Int
  BY <1>2, BlockTypes
<1>4. /\ shifting' \in [block : Nat, by : Int, read : Int] /\ ShiftInv'
  BY <1>1 DEF Time!NoShift, ShiftInv
<1>5. CASE state = Time!Unset
  <2>1. UNCHANGED <<patch, blocks, clock, travel, installed>>
    BY <1>1, <1>5
  <2> QED BY <1>4, <2>1 DEF IsPatchOf
<1>6. CASE state # Time!Unset
  <2>0. due \in Int /\ k \in BOOLEAN
    <3> HIDE DEF b
    <3> QED BY <1>3 DEF Time!DueAfterShift
  <2>1. /\ bs \in Seq(Blocks) /\ Len(bs) = n
        /\ \A j \in 1 .. n - 1 : ~bs[j].clean
        /\ i # n => ~bs[n].clean
    BY <1>2, UncleanFacts
  <2>2. c \in Blocks /\ (c.ticking <=> b.ticking) /\ (c.clean <=> k) /\ (k => c.due = due)
    <3> HIDE TimeAssumption DEF PatchInv, PatchTypes, b, due, k
    <3> QED BY <1>3, <2>0, SMT DEF Blocks, Time!Block
  <2>3. blocks' = [bs EXCEPT ![i] = c] /\ patch' = state
    BY <1>1, <1>6
  <2> HIDE DEF bs, c
  <2>4. /\ blocks' \in Seq(Blocks) /\ Len(blocks') = n
        /\ blocks'[i] = c
        /\ \A j \in 1 .. n : j # i => blocks'[j] = bs[j]
    BY <1>2, <2>1, <2>2, <2>3
  <2>5. \A j \in 1 .. n - 1 : ~blocks'[j].clean
    <3> SUFFICES ASSUME NEW j \in 1 .. n - 1 PROVE ~blocks'[j].clean
      OBVIOUS
    <3>1. CASE j = i
      <4>1. ~k
        BY <3>1
      <4> QED BY <2>2, <2>4, <3>1, <4>1
    <3>2. CASE j # i
      BY <1>2, <2>1, <2>4, <3>2
    <3> QED BY <3>1, <3>2
  <2>6. /\ b.pin >= 0 /\ state \in [state : {"Unset", "Frozen", "KeepTicking"}, pin : Int, at : Int]
        /\ b.ticking => state.state = "KeepTicking" /\ state.pin = b.pin /\ state.at = clock
        /\ ~b.ticking => state.state = "Frozen" /\ state.pin = b.pin
    <3>1. clock \in Int
      OBVIOUS
    <3> HIDE TimeAssumption DEF PatchInv, PatchTypes
    <3> QED BY <1>2, <1>3, <1>6, <3>1, PatchTimeFacts
  <2>7. ASSUME blocks'[n].clean
        PROVE  IsPatchOf(patch', blocks'[n])
    <3>1. i = n
      BY <1>2, <2>1, <2>4, <2>7, SMTT(40)
    <3>2. k /\ b.clean /\ c.due = due /\ blocks'[n] = c
      BY <2>0, <2>2, <2>4, <2>7, <3>1
    <3>3. CASE ~b.ticking
      <4>1. b.pin = due /\ due \in 0 .. LastTick
        BY <1>2, <1>3, <2>0, <2>6, <3>2, <3>3 DEF Time!DueAfterShift
      <4>2. patch'.state = "Frozen" /\ patch'.pin = b.pin
        BY <2>3, <2>6, <3>3
      <4> HIDE DEF b, due, k, state
      <4> QED BY <2>2, <3>2, <3>3, <4>1, <4>2 DEF IsPatchOf
    <3>4. CASE b.ticking
      <4>1. due = b.pin - clock
        BY <1>2, <1>3, <3>2, <3>4 DEF Time!DueAfterShift
      <4>2. patch'.state = "KeepTicking" /\ patch'.pin = b.pin /\ patch'.at = clock
        BY <2>3, <2>6, <3>4
      <4> HIDE DEF b, due, k, state
      <4> QED BY <2>2, <3>2, <3>4, <4>1, <4>2 DEF IsPatchOf
    <3> QED BY <3>3, <3>4
  <2>8. PatchTypes' /\ blocks' # <<>>
    <3> HIDE DEF state, b
    <3> QED BY <1>1, <1>2, <1>4, <2>3, <2>4, <2>6
  <2> QED BY <1>2, <1>4, <2>4, <2>5, <2>7, <2>8
<1> QED BY <1>5, <1>6

LEMMA PatchStateStep == PatchInv /\ [StateNext]_<<part, vars, objVars, patchVars>> => PatchInv'
<1> SUFFICES ASSUME PatchInv, [StateNext]_<<part, vars, objVars, patchVars>> PROVE PatchInv'
  OBVIOUS
<1>1. CASE Time!Tick \/ Time!Travel
  BY <1>1 DEF Time!Tick, Time!Travel, PatchInv, PatchTypes, ShiftInv
<1>2. CASE UNCHANGED patchVars
  BY <1>2 DEF patchVars, PatchInv, PatchTypes, ShiftInv
<1> QED BY <1>1, <1>2, EnterStep, BeginShiftStep, FinishShiftStep, LeaveStep DEF StateNext, Time!Next

(***************************************************************************)
(* For any range of the clock, any shifts and any nesting of blocks, now() *)
(* in a block that nothing has come between is the time that its calls and *)
(* the clock add up to, less what passes between the two clock readings of *)
(* a shift; one that raises changes nothing.                               *)
(***************************************************************************)
THEOREM PatchedTimeIsExact == StateSpec => []PatchedTimeAddsUp
<1>1. StateInit => PatchInv
  BY PatchInit DEF StateInit
<1>2. QED BY <1>1, PatchStateStep, PatchInvImplies, PTL DEF StateSpec
=============================================================================
