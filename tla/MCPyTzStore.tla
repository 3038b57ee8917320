---------------------------- MODULE MCPyTzStore ----------------------------
EXTENDS PyTzStore, TLC

\* What a freed object last contained is never read: it is no part of the state.
LiveView ==
    <<lastKey, lastVal, lookup, lru, pc, want, instance, popped, result, purge, locked, alone,
      [o \in {p \in Obj : Alive(p) \/ \E k \in Key : lookup[k] = p} |-> key[o]]>>

Symmetry == Permutations(Thread) \cup Permutations(Key) \cup Permutations(Obj)
=============================================================================
