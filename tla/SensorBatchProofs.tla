------------------------- MODULE SensorBatchProofs -------------------------
(***************************************************************************)
(* Proofs about SensorBatch: what the 32-bit arithmetic of Sensor::batch   *)
(* leaves of the limits of a sensor, for every table of periods whose      *)
(* longest one, wrapped, is still a period (10 s wraps to 1.41 s).         *)
(***************************************************************************)
EXTENDS SensorBatch, TLAPS

\* The default table: minDelay fits, and what an int32_t makes of maxDelay * 1000
\* lies between minDelay * 1000 and the product.
TableOK ==
    /\ IntModulus \in Nat \ {0}
    /\ MinPeriod \in Nat \ {0} /\ MaxPeriod \in Nat
    /\ MinPeriod <= Int32(MaxPeriod) /\ Int32(MaxPeriod) <= MaxPeriod
    /\ Periods \subseteq Int

\* A number that is in an int32_t already.
LEMMA Int32Same ==
    ASSUME IntModulus \in Nat \ {0}, NEW x \in Nat, 2 * x < IntModulus
    PROVE  Int32(x) = x
  <1>1. x \in 0 .. IntModulus - 1
    OBVIOUS
  <1>2. x % IntModulus = x
    BY <1>1
  <1> QED
    BY <1>2 DEF Int32

\* A number that is put in one fits in it.
LEMMA Int32Fits ==
    ASSUME IntModulus \in Nat \ {0}, NEW x \in Int
    PROVE  Int32(x) \in Int /\ 2 * Int32(x) < IntModulus
  <1> DEFINE r == x % IntModulus
  <1>1. r \in 0 .. IntModulus - 1
    OBVIOUS
  <1>2. Int32(x) = IF 2 * r < IntModulus THEN r ELSE r - IntModulus
    BY DEF Int32
  <1> HIDE DEF r
  <1> QED
    BY <1>1, <1>2

\* A sensor is never sampled faster than its minDelay, whatever 64-bit period is
\* asked for, and a period up to what is left of maxDelay is used as it is.
FastestPeriodKept ==
    [][/\ mSamplingPeriodNs' >= MinPeriod
       /\ asked' \in MinPeriod .. Int32(MaxPeriod) => mSamplingPeriodNs' = asked']_vars

\* The 32-bit arithmetic of batch only spoils the upper end: no request, however
\* long, gets below minDelay, and PeriodIsClamped holds for the requests up to the
\* wrapped maxDelay (1.41 s of the 10 s in the table).
THEOREM OnlyLongPeriodsSuffer == ASSUME TableOK PROVE Spec => FastestPeriodKept
  <1> DEFINE top == Int32(MaxPeriod)
  <1>1. /\ MinPeriod \in Nat \ {0} /\ MaxPeriod \in Nat /\ top \in Nat
        /\ MinPeriod <= top /\ top <= MaxPeriod /\ 2 * top < IntModulus
        /\ IntModulus \in Nat \ {0}
    BY Int32Fits DEF TableOK
  <1>2. Int32(top) = top
    BY <1>1, Int32Same
  <1> HIDE DEF top
  <1>3. ASSUME NEW p \in Int, Batch(p)
        PROVE  /\ mSamplingPeriodNs' >= MinPeriod
               /\ asked' \in MinPeriod .. top => mSamplingPeriodNs' = asked'
    <2> DEFINE period == Int32(p)
    <2>1. period \in Int
      BY <1>1, Int32Fits
    <2>2. p \in MinPeriod .. top => period = p
      BY <1>1, Int32Same
    <2> HIDE DEF period
    <2>3. PICK limit \in {top, MaxPeriod} :
             mSamplingPeriodNs' = CASE period < MinPeriod -> MinPeriod
                                    [] period >= MinPeriod /\ period > limit -> Int32(limit)
                                    [] OTHER -> period
      BY <1>3 DEF Batch, MaxDelayNs, top, period
    <2>4. limit >= top /\ limit \in Nat /\ Int32(limit) = top
      BY <1>1, <1>2 DEF top
    <2>5. CASE period < MinPeriod
      <3>1. mSamplingPeriodNs' = MinPeriod
        BY <1>1, <2>1, <2>3, <2>5
      <3> QED
        BY <1>1, <1>3, <2>1, <2>2, <2>5, <3>1 DEF Batch
    <2>6. CASE period >= MinPeriod /\ period > limit
      <3>1. mSamplingPeriodNs' = top
        BY <1>1, <2>1, <2>3, <2>4, <2>6
      <3> QED
        BY <1>1, <1>3, <2>1, <2>2, <2>4, <2>6, <3>1 DEF Batch
    <2>7. CASE period >= MinPeriod /\ period <= limit
      <3>1. mSamplingPeriodNs' = period
        BY <1>1, <2>1, <2>3, <2>4, <2>7
      <3> QED
        BY <1>1, <1>3, <2>1, <2>2, <2>7, <3>1 DEF Batch
    <2> QED
      BY <1>1, <2>1, <2>4, <2>5, <2>6, <2>7
  <1>4. [Next]_vars =>
          [/\ mSamplingPeriodNs' >= MinPeriod
           /\ asked' \in MinPeriod .. top => mSamplingPeriodNs' = asked']_vars
    BY <1>3 DEF Next, TableOK
  <1> QED
    BY <1>4, PTL DEF Spec, FastestPeriodKept, top
=============================================================================
