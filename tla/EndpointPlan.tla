---------------------------- MODULE EndpointPlan ----------------------------
(***************************************************************************)
(* The arithmetic by which batch() turns the options of a load test into   *)
(* the plan of one endpoint: how many workers it gets, how fast their      *)
(* permits are released, and which ramps are refused up front              *)
(* (src/atomic-bomb-engine/src/core/batch.rs).                             *)
(*                                                                         *)
(* A real-valued step such as increase_step * weight / total_weight is     *)
(* kept as the numerator step over the denominator den.                    *)
(***************************************************************************)
EXTENDS Naturals

(* round(concurrent * weight / totalWeight), at least one worker. *)
ConcurrencyFor(concurrent, weight, totalWeight) ==
  LET rounded == (2 * concurrent * weight + totalWeight) \div (2 * totalWeight)
  IN  IF rounded = 0 THEN 1 ELSE rounded

(* The up-front test of a ramp.  The code compares the target with         *)
(* increase * n * (n + 1) / 2 for n the whole intervals of the test.       *)
RampAccepted(duration, interval, increase, concurrent) ==
  LET steps == duration \div interval
  IN  (increase * steps * (steps + 1)) \div 2 >= concurrent

(* An f64 holds weight / totalWeight exactly when it is a binary fraction, *)
(* here one of at most five bits.                                          *)
BinaryFraction(weight, totalWeight) ==
  \E bits \in 0 .. 5 : (weight * 2 ^ bits) % totalWeight = 0

(* The plan of an endpoint: the workers it spawns, the permits its         *)
(* controller adds per round (step / den), and whether f64 rounds them.    *)
PlanOf(ramped, increase, concurrent, weight, totalWeight) ==
  [ ramped |-> ramped,
    total |-> ConcurrencyFor(concurrent, weight, totalWeight),
    step  |-> increase * weight,
    den   |-> totalWeight,
    slack |-> IF BinaryFraction(weight, totalWeight) THEN 0 ELSE 1 ]

(* Length of the sliding window of rps samples: ten without a ramp, else   *)
(* the seconds left after the ramp, cut off at zero.                       *)
RpsWindow(ramped, duration, interval, increase, concurrent) ==
  LET rampTime == (concurrent \div increase) * interval
  IN  IF ~ramped THEN 10
      ELSE IF rampTime >= duration THEN 0 ELSE duration - rampTime
=============================================================================
