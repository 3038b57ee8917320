----------------------------- MODULE OncePyObj -----------------------------
(***************************************************************************)
(* OncePyObj of src/src/py/misc.rs: a lazily imported Python object in a   *)
(* SwapPtr (src/src/common/sync.rs).  There is no lock: threads that find  *)
(* the pointer null run the initialiser side by side and one of them wins  *)
(* the compare-and-swap.  Reference counts are kept by hand, so the loser  *)
(* has to give its reference back, also when all initialisers returned the *)
(* same object (an attribute of a module is one object for every thread).  *)
(***************************************************************************)
EXTENDS Naturals, FiniteSets

CONSTANTS
    Thread,
    Object,     \* what the initialiser may return
    None        \* the null pointer, not an Object

VARIABLES
    ptr,        \* SwapPtr: the object, or null
    refs,       \* references to each object that this cell's code owns
    pc,         \* "idle", "init" or "cas"
    mine,       \* get_slow's local `obj`
    result,     \* the pointer the thread's last get() returned
    dropped     \* the module state was cleared

vars == <<ptr, refs, pc, mine, result, dropped>>

TypeOK ==
    /\ ptr \in Object \cup {None}
    /\ refs \in [Object -> 0 .. Cardinality(Thread) + 1]
    /\ pc \in [Thread -> {"idle", "init", "cas"}]
    /\ mine \in [Thread -> Object \cup {None}]
    /\ result \in [Thread -> Object \cup {None}]
    /\ dropped \in BOOLEAN

Init ==
    /\ ptr = None
    /\ refs = [o \in Object |-> 0]
    /\ pc = [t \in Thread |-> "idle"]
    /\ mine = [t \in Thread |-> None]
    /\ result = [t \in Thread |-> None]
    /\ dropped = FALSE

\* get(): the pointer is set.
GetFast(t) ==
    /\ ~dropped
    /\ pc[t] = "idle"
    /\ ptr # None
    /\ result' = [result EXCEPT ![t] = ptr]
    /\ UNCHANGED <<ptr, refs, pc, mine, dropped>>

\* get(): the pointer is null; call (self.init)().
GetSlow(t) ==
    /\ ~dropped
    /\ pc[t] = "idle"
    /\ ptr = None
    /\ pc' = [pc EXCEPT ![t] = "init"]
    /\ UNCHANGED <<ptr, refs, mine, result, dropped>>

InitFails(t) ==
    /\ pc[t] = "init"
    /\ pc' = [pc EXCEPT ![t] = "idle"]
    /\ UNCHANGED <<ptr, refs, mine, result, dropped>>

\* The initialiser returned a new reference to o.
InitReturns(t, o) ==
    /\ pc[t] = "init"
    /\ refs' = [refs EXCEPT ![o] = @ + 1]
    /\ mine' = [mine EXCEPT ![t] = o]
    /\ pc' = [pc EXCEPT ![t] = "cas"]
    /\ UNCHANGED <<ptr, result, dropped>>

Finish(t, o) ==
    /\ result' = [result EXCEPT ![t] = o]
    /\ mine' = [mine EXCEPT ![t] = None]
    /\ pc' = [pc EXCEPT ![t] = "idle"]
    /\ UNCHANGED dropped

\* try_init() succeeds: our reference now belongs to the cell.
CasWins(t) ==
    /\ pc[t] = "cas"
    /\ ptr = None
    /\ ptr' = mine[t]
    /\ UNCHANGED refs
    /\ Finish(t, mine[t])

\* Faulty variant: a loser that got the winner's object does not release it.
CasLosesIfOther(t) ==
    /\ pc[t] = "cas"
    /\ ptr # None
    /\ refs' = [refs EXCEPT ![mine[t]] = IF mine[t] = ptr THEN @ ELSE @ - 1]
    /\ UNCHANGED ptr
    /\ Finish(t, ptr)

\* try_init() fails: DECREF ours, return theirs.
CasLoses(t) ==
    /\ pc[t] = "cas"
    /\ ptr # None
    /\ refs' = [refs EXCEPT ![mine[t]] = @ - 1]
    /\ UNCHANGED ptr
    /\ Finish(t, ptr)

\* Drop for OncePyObj, when the module state is cleared: nobody uses the cell.
Drop ==
    /\ ~dropped
    /\ \A t \in Thread : pc[t] = "idle"
    /\ ptr' = None
    /\ refs' = [o \in Object |-> IF o = ptr THEN refs[o] - 1 ELSE refs[o]]
    /\ result' = [t \in Thread |-> None]
    /\ dropped' = TRUE
    /\ UNCHANGED <<pc, mine>>

Next ==
    \/ \E t \in Thread : \/ GetFast(t) \/ GetSlow(t) \/ InitFails(t)
                         \/ CasWins(t) \/ CasLoses(t)
    \/ \E t \in Thread, o \in Object : InitReturns(t, o)
    \/ Drop

Spec == Init /\ [][Next]_vars
-----------------------------------------------------------------------------
(***************************************************************************)
(* A pointer that get() returned is borrowed: the cell still owns a        *)
(* reference to the object, so it is valid for as long as the cell is; and *)
(* it is the pointer everyone else gets.                                   *)
(***************************************************************************)
BorrowedIsOwned ==
    \A t \in Thread : result[t] # None => result[t] = ptr /\ refs[result[t]] > 0

(***************************************************************************)
(* Between calls the cell owns exactly one reference, to the object it     *)
(* holds, and none once it is dropped: no race of initialisers leaks a     *)
(* reference or releases one twice.                                        *)
(***************************************************************************)
OneReferenceAtRest ==
    (\A t \in Thread : pc[t] = "idle") =>
        \A o \in Object : refs[o] = IF o = ptr THEN 1 ELSE 0
=============================================================================
