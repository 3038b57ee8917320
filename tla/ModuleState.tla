---------------------------- MODULE ModuleState ----------------------------
(***************************************************************************)
(* What the module state keeps besides the timezone store: a OncePyCell    *)
(* (OnceCell), a OncePyObj and the time patch.  They share no state, so a  *)
(* behaviour is that of one of them and the others rest.                   *)
(***************************************************************************)
EXTENDS OnceCell, Integers, Sequences, FiniteSets

CONSTANT Object         \* what the initialiser of the OncePyObj may return
CONSTANTS TicksPerSecond, FirstTick, LastTick, ClockMax, Shifts, Travels, MaxBlocks

ASSUME ThreadsAssumption == IsFiniteSet(Thread)
ASSUME NullAssumption == None \notin Object

\* The system clock shows times that an Instant can have, also when time_machine
\* has moved it.
ASSUME TimeAssumption ==
    /\ TicksPerSecond \in Nat \ {0}
    /\ FirstTick \in Int /\ LastTick \in Int /\ FirstTick <= 0
    /\ ClockMax \in Nat /\ Shifts \subseteq Int /\ Travels \subseteq Int
    /\ \A c \in -1 .. ClockMax, v \in Travels \cup {0} : c + v \in FirstTick .. LastTick

VARIABLES
    part,               \* the part this behaviour is about
    ptr, refs, objPc, mine, objResult, dropped,
    clock, travel, installed, patch, blocks, shifting

objVars == <<ptr, refs, objPc, mine, objResult, dropped>>
patchVars == <<clock, travel, installed, patch, blocks, shifting>>

Obj == INSTANCE OncePyObj WITH pc <- objPc, result <- objResult
Time == INSTANCE TimePatch

StateInit ==
    /\ part \in {"OncePyCell", "OncePyObj", "TimePatch"}
    /\ Init
    /\ Obj!Init
    /\ Time!Init

StateNext ==
    \/ part = "OncePyCell" /\ Next /\ UNCHANGED <<part, objVars, patchVars>>
    \/ part = "OncePyObj" /\ Obj!Next /\ UNCHANGED <<part, vars, patchVars>>
    \/ part = "TimePatch" /\ Time!Next /\ UNCHANGED <<part, vars, objVars>>

StateSpec == StateInit /\ [][StateNext]_<<part, vars, objVars, patchVars>>
-----------------------------------------------------------------------------
(***************************************************************************)
(* OncePyObj::get hands out borrowed pointers: whatever threads race, each *)
(* is the pointer the cell holds and owns; and the race of initialisers in *)
(* get_slow leaks no reference and releases none twice (BorrowedIsOwned    *)
(* and OneReferenceAtRest of OncePyObj).                                   *)
(***************************************************************************)
ReferencesBalance == Obj!TypeOK /\ Obj!BorrowedIsOwned /\ Obj!OneReferenceAtRest

(***************************************************************************)
(* now() under patch_current_time is the time the block began with, plus   *)
(* its shifts, plus the time since if it ticks, less the time that passes  *)
(* between the two clock reads of a shift (PatchedTimeAddsUp of            *)
(* TimePatch).                                                             *)
(***************************************************************************)
PatchedTimeAddsUp == Time!PatchedTimeAddsUp
=============================================================================
