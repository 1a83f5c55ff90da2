---------------------------- MODULE SensorBatch ----------------------------
(***************************************************************************)
(* Sensors::batch and Sensor::batch of the sensors 2.0 default HAL         *)
(* (sensors/2.0/default/Sensors.cpp, Sensor.cpp): how a requested sampling *)
(* period becomes mSamplingPeriodNs.                                       *)
(*                                                                         *)
(* Periods are counted in units of 16 ns, so that TLC's integers hold the  *)
(* values and the width of int32_t exactly.  Two things matter: the prod-  *)
(* uct maxDelay * 1000 is computed in int32_t, which does not hold it, and *)
(* Sensors::batch passes its int64_t argument to an int32_t parameter.     *)
(***************************************************************************)
EXTENDS Integers

CONSTANTS
    IntModulus,   \* 2^32 ns: the values of an int32_t
    MinPeriod,    \* mSensorInfo.minDelay * 1000, which an int32_t holds
    MaxPeriod,    \* mSensorInfo.maxDelay * 1000 as a number
    Periods       \* the samplingPeriodNs arguments, int64_t

VARIABLES
    mSamplingPeriodNs,
    asked           \* history: the argument of the last batch

vars == <<mSamplingPeriodNs, asked>>

\* A number that is stored in an int32_t.
Int32(x) ==
    LET r == x % IntModulus
    IN  IF 2 * r < IntModulus THEN r ELSE r - IntModulus

\* What the expression maxDelay * 1000 can be: its overflow is undefined, and a
\* build wraps it or, in the comparison, works with the wider product.
MaxDelayNs == {Int32(MaxPeriod), MaxPeriod}

Init ==
    /\ mSamplingPeriodNs = 0
    /\ asked = 0

Batch(samplingPeriodNs) ==
    /\ LET period == Int32(samplingPeriodNs)
       IN  \E limit \in MaxDelayNs :
             mSamplingPeriodNs' = CASE period < MinPeriod -> MinPeriod
                                    [] period >= MinPeriod /\ period > limit -> Int32(limit)
                                    [] OTHER -> period
    /\ asked' = samplingPeriodNs

Next == \E p \in Periods : Batch(p)

Spec == Init /\ [][Next]_vars

----------------------------------------------------------------------------
\* sensors/1.0/types.hal: "When lower frequencies are requested through
\* batch()/setDelay() the events will be generated at this frequency instead": a
\* period from MinPeriod to MaxPeriod is used as it is, a longer one becomes
\* MaxPeriod.
PeriodIsClamped ==
    asked >= MinPeriod =>
        mSamplingPeriodNs = IF asked > MaxPeriod THEN MaxPeriod ELSE asked
============================================================================
