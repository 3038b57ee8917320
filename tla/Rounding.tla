------------------------------ MODULE Rounding ------------------------------
(***************************************************************************)
(* The rounding modes (src/domain/round.rs) and the threshold rounding     *)
(* that times, sub-seconds and time deltas share.                          *)
(***************************************************************************)
EXTENDS Integers

Mode == {"floor", "ceil", "trunc", "expand",
         "half_floor", "half_ceil", "half_even", "half_trunc", "half_expand"}
AbsMode == {"trunc", "expand", "half_trunc", "half_expand", "half_even"}

\* For quotients that are rounded down (div_euclid): up is expand, down is trunc.
to_abs_euclid(mode, neg) ==
    CASE mode = "floor" \/ (mode = "trunc" /\ ~neg) \/ (mode = "expand" /\ neg) -> "trunc"
      [] mode = "ceil" \/ (mode = "expand" /\ ~neg) \/ (mode = "trunc" /\ neg) -> "expand"
      [] mode = "half_floor" \/ (mode = "half_trunc" /\ ~neg) \/ (mode = "half_expand" /\ neg) ->
            "half_trunc"
      [] mode = "half_ceil" \/ (mode = "half_expand" /\ ~neg) \/ (mode = "half_trunc" /\ neg) ->
            "half_expand"
      [] mode = "half_even" -> "half_even"

ToAbsTruncAsEuclid(mode, neg) == to_abs_euclid(mode, neg)     \* mutant: floor is always trunc

\* For values that were truncated towards zero.
to_abs_trunc(mode, neg) ==
    CASE mode = "trunc" \/ (mode = "floor" /\ ~neg) \/ (mode = "ceil" /\ neg) -> "trunc"
      [] mode = "expand" \/ (mode = "ceil" /\ ~neg) \/ (mode = "floor" /\ neg) -> "expand"
      [] mode = "half_trunc" \/ (mode = "half_floor" /\ ~neg) \/ (mode = "half_ceil" /\ neg) ->
            "half_trunc"
      [] mode = "half_expand" \/ (mode = "half_ceil" /\ ~neg) \/ (mode = "half_floor" /\ neg) ->
            "half_expand"
      [] mode = "half_even" -> "half_even"

AtLeast1(n) == IF n >= 1 THEN n ELSE 1

\* The remainder from which the next multiple is taken.
Threshold(quotient, increment, mode) ==
    CASE mode = "half_even" -> AtLeast1(increment \div 2 + IF quotient % 2 = 0 THEN 1 ELSE 0)
      [] mode = "expand" -> 1
      [] mode = "trunc" -> increment + 1
      [] mode = "half_trunc" -> increment \div 2 + 1
      [] mode = "half_expand" -> AtLeast1(increment \div 2)

\* TimeDelta::round_u128, and the same steps in Time::round and SubSecNanos::round
RoundMultiple(total, increment, mode) ==
    LET quotient == total \div increment
        remainder == total % increment
    IN  (quotient + IF remainder >= Threshold(quotient, increment, mode) THEN 1 ELSE 0) * increment

-----------------------------------------------------------------------------
(***************************************************************************)
(* Rounding a value that was truncated to a multiple of the increment, by  *)
(* the distance r of the target from what it leads to and the distance e   *)
(* of what one increment more leads to (round_by_days and round_by_time of *)
(* src/domain/difference.rs).                                              *)
(***************************************************************************)
Distance(a, b) == IF a <= b THEN b - a ELSE a - b

Step(inc, neg) == IF neg THEN -inc ELSE inc

DoExpand(value, r, e, mode, inc) ==
    CASE mode = "trunc" -> FALSE
      [] mode = "expand" -> r > 0
      [] mode = "half_even" -> r > e - r \/ (r = e - r /\ (Distance(0, value) \div inc) % 2 = 1)
      [] mode = "half_trunc" -> r > e - r
      [] mode = "half_expand" -> r >= e - r

RoundByDistance(value, r, e, mode, inc, neg) ==
    value + IF DoExpand(value, r, e, mode, inc) THEN Step(inc, neg) ELSE 0

\* round_by_time, for instants of any unit
round_by_time(value, target, trunc, expand, mode, inc, neg) ==
    RoundByDistance(value, Distance(target, trunc), Distance(expand, trunc), mode, inc, neg)

-----------------------------------------------------------------------------
(***************************************************************************)
(* The reference: what each mode promises of the result r for the value v. *)
(***************************************************************************)
IsTie(v, inc) == 2 * (v % inc) = inc

RoundsTo(v, inc, mode, r) ==
    /\ r % inc = 0
    /\ Distance(r, v) < inc
    /\ mode = "floor" => r <= v
    /\ mode = "ceil" => r >= v
    /\ mode = "trunc" => Distance(0, r) <= Distance(0, v)
    /\ mode = "expand" => Distance(0, r) >= Distance(0, v)
    /\ mode \in {"half_floor", "half_ceil", "half_even", "half_trunc", "half_expand"} =>
            2 * Distance(r, v) <= inc
    /\ IsTie(v, inc) =>
            /\ mode = "half_floor" => r < v
            /\ mode = "half_ceil" => r > v
            /\ mode = "half_trunc" => Distance(0, r) < Distance(0, v)
            /\ mode = "half_expand" => Distance(0, r) > Distance(0, v)
            /\ mode = "half_even" => (r \div inc) % 2 = 0
=============================================================================
