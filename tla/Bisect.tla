------------------------------- MODULE Bisect -------------------------------
(***************************************************************************)
(* The loop of bisect (src/tz/tzif.rs), which every lookup of a zone runs: *)
(* a binary search that keeps its own size next to its two ends.  Indices  *)
(* are 0-based as in the code, so that arr[mid + 1] is its arr[mid].       *)
(***************************************************************************)
EXTENDS TimeZone

CONSTANTS
    Tables,     \* the tables that are searched, in order of time
    Targets     \* the times that are looked up

ASSUME TablesAssumption ==
    /\ Targets \subseteq Int
    /\ \A arr \in Tables :
        /\ Len(arr) \in Nat
        /\ \A i \in 1 .. Len(arr) : arr[i].at \in Int
        /\ \A i, j \in 1 .. Len(arr) : i < j => arr[i].at <= arr[j].at

VARIABLES arr, x, size, left, right,
          result      \* 0 while the loop runs, then the (1-based) index returned
bisectVars == <<arr, x, size, left, right, result>>

Running == 0

StartSearch ==
    /\ arr \in Tables
    /\ x \in Targets
    /\ size = Len(arr)
    /\ left = 0
    /\ right = size
    /\ result = Running

mid == left + size \div 2

ProbeKeepsMid ==   \* mutant: the midpoint itself stays in the upper half
    /\ result = Running
    /\ left < right
    /\ IF x >= arr[mid + 1].at
       THEN left' = mid /\ UNCHANGED right
       ELSE right' = mid /\ UNCHANGED left
    /\ size' = right' - left'
    /\ UNCHANGED <<arr, x, result>>

ProbeStrict ==   \* mutant: an entry at x itself counts as after it
    /\ result = Running
    /\ left < right
    /\ IF x > arr[mid + 1].at
       THEN left' = mid + 1 /\ UNCHANGED right
       ELSE right' = mid /\ UNCHANGED left
    /\ size' = right' - left'
    /\ UNCHANGED <<arr, x, result>>

\* An iteration; reading arr[mid] beyond the table would panic.
Probe ==
    /\ result = Running
    /\ left < right
    /\ IF x >= arr[mid + 1].at
       THEN left' = mid + 1 /\ UNCHANGED right
       ELSE right' = mid /\ UNCHANGED left
    /\ size' = right' - left'
    /\ UNCHANGED <<arr, x, result>>

\* Past(arr) is the None of the code: left is the length of the table.
ReturnLeft ==
    /\ result = Running
    /\ left >= right
    /\ result' = left + 1
    /\ UNCHANGED <<arr, x, size, left, right>>

Iterate == Probe \/ ReturnLeft

\* The loop runs on one thread and waits for nothing.
BisectSpec == StartSearch /\ [][Iterate]_bisectVars /\ WF_bisectVars(Iterate)

-----------------------------------------------------------------------------
\* Every read is inside the table: arr[mid] never panics.
ReadsInBounds == result = Running /\ left < right => mid + 1 \in 1 .. Len(arr)

\* What comes out is the first entry after x: the operator bisect that the
\* lookups are stated with.
ReturnsFirstAfter == result # Running => result = bisect(arr, x)

\* The search ends: each iteration shrinks the interval.
Terminates == <>(result # Running)
=============================================================================
