---------------------------- MODULE ThresholdEngine ----------------------------
(***************************************************************************)
(* libs/sensor/threshold_event_engine.cpp of mini-openbmc-platform-service:*)
(* the level a sensor is at, as a function of the level it was at and of   *)
(* its new reading.  Readings and limits are integers in tenths of the     *)
(* sensor's unit.                                                          *)
(***************************************************************************)
EXTENDS Integers

CONSTANT NoLimit   \* std::nullopt in place of a threshold

Levels == {"none", "upper", "lower"}

Limits == [upper : Int \cup {NoLimit}, lower : Int \cup {NoLimit},
           hysteresis : Nat, asserted : {"Warning", "Critical"}]

ExceedsUpper(limits, reading) == limits.upper # NoLimit /\ reading > limits.upper

BelowLower(limits, reading) == limits.lower # NoLimit /\ reading < limits.lower

\* Mutation of BackInRange: an alarm ends as soon as the limit is met again.
BackAtLimit(level, limits, reading) ==
  \/ level = "upper" /\ limits.upper # NoLimit /\ reading <= limits.upper
  \/ level = "lower" /\ limits.lower # NoLimit /\ reading >= limits.lower

\* Mutation of BackInRange: the hysteresis is applied on the wrong side.
BackPastLimit(level, limits, reading) ==
  \/ level = "upper" /\ limits.upper # NoLimit
                     /\ reading <= limits.upper + limits.hysteresis
  \/ level = "lower" /\ limits.lower # NoLimit
                     /\ reading >= limits.lower - limits.hysteresis

BackInRange(level, limits, reading) ==
  \/ level = "upper" /\ limits.upper # NoLimit
                     /\ reading <= limits.upper - limits.hysteresis
  \/ level = "lower" /\ limits.lower # NoLimit
                     /\ reading >= limits.lower + limits.hysteresis

\* ThresholdEventEngine::evaluate: an alarm passes through "none" before the
\* opposite one can be raised.
NextLevel(level, limits, reading) ==
  IF level = "none"
  THEN IF ExceedsUpper(limits, reading) THEN "upper"
       ELSE IF BelowLower(limits, reading) THEN "lower" ELSE "none"
  ELSE IF BackInRange(level, limits, reading) THEN "none" ELSE level

HealthAt(level, limits) == IF level = "none" THEN "OK" ELSE limits.asserted

\* The event that a change to this level makes.
EventAt(level) == IF level = "none" THEN "recovered" ELSE "asserted"
=============================================================================
