----------------------------- MODULE TimePatch -----------------------------
(***************************************************************************)
(* Patching the current time: patch_current_time and _TimePatch.shift of   *)
(* src/pysrc/whenever/_utils.py over the one Patch in the module state     *)
(* (src/pymodule/patch.rs), and now() under it, while the system clock     *)
(* goes on, is set back, or is moved by time_machine.  A shift of a ticking *)
(* time reads the clock twice, and the clock does not wait in between.     *)
(*                                                                         *)
(* Times are whole ticks since 1970.                                       *)
(***************************************************************************)
EXTENDS Integers, Sequences

CONSTANTS
    TicksPerSecond,
    FirstTick, LastTick,  \* the range of an Instant
    ClockMax,             \* bound: the latest time of the system clock
    Shifts,               \* arguments of shift()
    Travels,              \* how far time_machine may move time.time_ns()
    MaxBlocks             \* bound: the most `with` blocks inside each other

VARIABLES
    clock,      \* SystemTime::now
    travel,     \* by how much time_machine has moved time.time_ns
    installed,  \* Patch.time_machine_installed
    patch,      \* Patch.state
    blocks,     \* the _TimePatch of every block entered, outermost first
    shifting    \* the call of shift() that has not yet set the patch

vars == <<clock, travel, installed, patch, blocks, shifting>>

Instants == FirstTick .. LastTick
NoTime == FirstTick - 1    \* an error, or a panic

Unset == [state |-> "Unset", pin |-> 0, at |-> 0]
Frozen(pin) == [state |-> "Frozen", pin |-> pin, at |-> 0]
KeepTicking(pin, at) == [state |-> "KeepTicking", pin |-> pin, at |-> at]

\* pin and ticking are the attributes of a _TimePatch.  due and clean are
\* history: the time that its calls add up to (less the clock, if it ticks), and
\* whether another block, or a pin that a shift left behind when it raised, has
\* come between.
Block(pin, ticking, clean, due) ==
    [pin |-> pin, ticking |-> ticking, clean |-> clean, due |-> IF clean THEN due ELSE 0]

\* block is the number of the _TimePatch, by the argument of shift(), and read
\* the clock that Instant.now() has seen.
NoShift == [block |-> 0, by |-> 0, read |-> 0]

Init ==
    /\ clock = 0
    /\ travel = 0
    /\ installed \in BOOLEAN
    /\ patch = Unset
    /\ blocks = <<>>
    /\ shifting = NoShift

-----------------------------------------------------------------------------
\* time_ns_py: the seconds are divided towards zero, the rest is a remainder.
from_nanos_i64(ns) ==
    LET secs == IF ns >= 0 THEN ns \div TicksPerSecond ELSE -((-ns) \div TicksPerSecond)
        t == secs * TicksPerSecond + (ns % TicksPerSecond)
    IN  IF t \in Instants THEN t ELSE NoTime

from_duration_since_epoch(d) == IF d \in 0 .. LastTick THEN d ELSE NoTime

\* State::now.  A clock before 1970 has no duration_since, and a negative
\* difference of Durations panics.
now ==
    CASE patch.state = "Unset" /\ installed -> from_nanos_i64(clock + travel)
      [] patch.state = "Unset" /\ ~installed -> from_duration_since_epoch(clock)
      [] patch.state = "Frozen" -> patch.pin
      [] patch.state = "KeepTicking" ->
            IF clock < 0 THEN NoTime ELSE from_duration_since_epoch(patch.pin + clock - patch.at)

\* _patch_time, or Unset where it raises
_patch_time(inst, ticking) ==
    IF inst < 0 \/ (ticking /\ clock < 0) THEN Unset
    ELSE IF ticking THEN KeepTicking(inst, clock) ELSE Frozen(inst)

Unclean(bs) == [i \in DOMAIN bs |-> Block(bs[i].pin, bs[i].ticking, FALSE, 0)]

\* with patch_current_time(dt, keep_ticking=...): raises, or enters the block
Enter ==
    /\ shifting = NoShift
    /\ Len(blocks) < MaxBlocks
    /\ \E dt \in Instants, ticking \in BOOLEAN :
        /\ _patch_time(dt, ticking) # Unset
        /\ patch' = _patch_time(dt, ticking)
        /\ blocks' = Append(Unclean(blocks), Block(dt, ticking, TRUE, IF ticking THEN dt - clock ELSE dt))
    /\ UNCHANGED <<clock, travel, installed, shifting>>

ShiftFromPin(b) == b.pin     \* mutant: the time that has passed is forgotten

\* self._pin + (Instant.now() - self._pin) when ticking
ShiftFrom(b) == IF b.ticking THEN now ELSE b.pin

\* p.shift(...) of any block: Instant.now() and add, which may raise, and the
\* assignment of the pin.
BeginShift ==
    /\ shifting = NoShift
    /\ \E i \in DOMAIN blocks, d \in Shifts :
        LET new == ShiftFrom(blocks[i]) + d
        IN  /\ ShiftFrom(blocks[i]) # NoTime /\ new \in Instants
            /\ blocks' = [blocks EXCEPT ![i].pin = new]
            /\ shifting' = [block |-> i, by |-> d, read |-> clock]
    /\ UNCHANGED <<clock, travel, installed, patch>>

\* The new time less the clock, if it ticks: by how much the clock has moved
\* since Instant.now() is lost.
DueAfterShift(b) ==
    IF b.ticking THEN b.due + shifting.by - (clock - shifting.read) ELSE b.due + shifting.by

\* ... and _patch_time, which reads the clock again, and raises before 1970: the
\* patch stays as it was, and so does the new pin.
FinishShift ==
    /\ shifting # NoShift
    /\ LET i == shifting.block
           b == blocks[i]
           state == _patch_time(b.pin, b.ticking)
           clean == b.clean /\ i = Len(blocks) /\ (b.ticking \/ b.pin = b.due + shifting.by)
       IN  IF state = Unset
           THEN UNCHANGED <<patch, blocks>>
           ELSE /\ blocks' = [(IF i = Len(blocks) THEN blocks ELSE Unclean(blocks))
                                EXCEPT ![i] = Block(b.pin, b.ticking, clean, DueAfterShift(b))]
                /\ patch' = state
    /\ shifting' = NoShift
    /\ UNCHANGED <<clock, travel, installed>>

\* The block ends: _unpatch_time, whatever was patched before it.
Leave ==
    /\ shifting = NoShift
    /\ blocks # <<>>
    /\ blocks' = SubSeq(blocks, 1, Len(blocks) - 1)
    /\ patch' = Unset
    /\ UNCHANGED <<clock, travel, installed, shifting>>

\* The environment, also in the middle of a shift: the clock goes on or is set,
\* time_machine travels.
Tick ==
    /\ clock' \in -1 .. ClockMax
    /\ UNCHANGED <<travel, installed, patch, blocks, shifting>>
Travel ==
    /\ installed
    /\ travel' \in Travels
    /\ UNCHANGED <<clock, installed, patch, blocks, shifting>>

Next == Enter \/ BeginShift \/ FinishShift \/ Leave \/ Tick \/ Travel
Spec == Init /\ [][Next]_vars

-----------------------------------------------------------------------------
(***************************************************************************)
(* Inside a block now() is the time that the block began with, plus its    *)
(* shifts, plus what the clock has gone on by if it keeps ticking, except  *)
(* in the middle of a shift; outside it is the clock (a time before 1970,  *)
(* which only time_machine can bring, is right at whole seconds only).  A  *)
(* shift that raises leaves now() as it was.  A nested block that has      *)
(* ended, a shift through another block, or a shift of a frozen time after *)
(* one that led before 1970 and raised, breaks the promise.                *)
(***************************************************************************)
PatchedTimeAddsUp ==
    LET b == blocks[Len(blocks)]
        due == IF b.ticking THEN b.due + clock ELSE b.due
        system == IF installed THEN clock + travel ELSE clock
    IN  /\ blocks = <<>> /\ (system >= 0 \/ (installed /\ system % TicksPerSecond = 0)) => now = system
        /\ blocks # <<>> /\ b.clean /\ (b.ticking => clock >= 0) =>
                now = from_duration_since_epoch(due)
=============================================================================
