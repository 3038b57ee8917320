--------------------------- MODULE MCModuleState ---------------------------
(***************************************************************************)
(* ModuleState on a small instance.                                        *)
(***************************************************************************)
EXTENDS ModuleState, TLC

Symmetry == Permutations(Thread) \cup Permutations(Object)

MCFirstTick == -4
MCShifts == {-2, 1}
MCTravels == {-3, 0}
=============================================================================
