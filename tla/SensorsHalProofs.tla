------------------------- MODULE SensorsHalProofs -------------------------
(***************************************************************************)
(* Proofs about SensorsHal, for every set of sensors, every choice of      *)
(* their flags and every queue size.                                       *)
(***************************************************************************)
EXTENDS SensorsHal, TLAPS

(* The parts of the inductive invariant. *)

\* mWriteLock is held exactly by the thread that counts the events it wrote,
\* and only a thread inside postEvents has a vector of events.
WriteLockInv ==
    /\ \A t \in Thread : pc[t] = "update" <=> mWriteLock = t
    /\ \A t \in Thread : ~Posting(t) => posting[t] = 0

\* Where the call of initialize is, as the framework sees it.
CallInv ==
    /\ pc[Binder] \in {"disable", "stop", "join", "replace", "create", "start"}
         => fw = "calling"
    /\ fw = "calling" => pc[Binder] \in {"clear", "disable", "stop", "join",
                                         "replace", "create", "start"}
    /\ fw # "up" => fwUnacked = 0
    /\ fw = "up" => mEventQueueFlag = "set"
    /\ pc[Binder] = "clear" => bSensor \in Sensor

\* The loop of initialize has disabled the sensors that it has visited.
DisabledInv ==
    /\ pc[Binder] \in {"clear", "disable"} /\ fw = "calling"
         => \A s \in Sensor \ bTodo : ~mIsEnabled[s]
    /\ pc[Binder] \in {"stop", "join", "replace", "create", "start"}
         => \A s \in Sensor : ~mIsEnabled[s]

\* What posts has a queue, and the queue that initialize makes is empty.
QueueInv ==
    /\ \A s \in Sensor : mIsEnabled[s] => mEventQueueFlag = "set"
    /\ pc[Binder] \in {"write", "update"} => mEventQueueFlag = "set"
    /\ pc[Binder] \in {"create", "start"} => evWake = 0
    /\ pc[Binder] = "start" => ackSum = 0

\* The wake-lock thread has a count only between its read and its update.
ReaderInv ==
    /\ wakePc # "apply" => eventsHandled = 0
    /\ OneReader

\* A count above zero without the wake lock is left by a refused acquire.
HeldInv == mOutstandingWakeUpEvents > 0 /\ ~mHasWakeLock => acquireFailed

\* A disabled on-change sensor has forgotten, or activate is about to.
FreshInv ==
    \A s \in OnChange :
        ~mIsEnabled[s] /\ mPreviousEventSet[s] => pc[Binder] = "clear" /\ bSensor = s

Inv ==
    /\ TypeOK
    /\ WriteLockInv
    /\ CallInv
    /\ DisabledInv
    /\ QueueInv
    /\ ReaderInv
    /\ NoSampleWhenDisabled
    /\ OutstandingCovers
    /\ HeldInv
    /\ FreshInv

USE SensorsAssumption DEF Thread, sensorVars, callVars, eventVars, ackVars,
    readerVars, lockVars, fwVars, postVars

-----------------------------------------------------------------------------
(* What updateWakeLock does to the count and to the lock. *)

\* The count that is kept is what is left of the sum, never below zero; it is
\* smaller only when the history says that events were given up.
LEMMA UpdateWakeLockFacts ==
    ASSUME TypeOK, HeldInv, NEW w \in Nat, NEW h \in Nat, NEW left \in Nat,
           UpdateWakeLock(w, h, left)
    PROVE  /\ mOutstandingWakeUpEvents' \in Nat
           /\ mHasWakeLock' \in BOOLEAN /\ autoReleaseElapsed' \in BOOLEAN
           /\ synced' \in BOOLEAN /\ acquireFailed' \in BOOLEAN
           /\ HeldInv'
           /\ synced' => \/ left = 0
                         \/ /\ synced
                            /\ mOutstandingWakeUpEvents' >= mOutstandingWakeUpEvents + w - h
  <1>1. /\ Counted(w, h) \in Nat /\ Counted(w, h) >= mOutstandingWakeUpEvents + w - h
        /\ Kept(w, h) \in {0, Counted(w, h)}
        /\ (AutoReleases(w) => Counted(w, h) = 0) => Kept(w, h) = Counted(w, h)
    BY DEF Counted, Kept, TypeOK
  <1>2. /\ mHasWakeLock' \in BOOLEAN /\ acquireFailed' \in BOOLEAN
        /\ Kept(w, h) > 0 /\ ~mHasWakeLock' => acquireFailed'
    <2>1. CASE /\ ~mHasWakeLock /\ Kept(w, h) > 0
               /\ \E ok \in PowerCallOK : mHasWakeLock' = ok /\ acquireFailed' = ~ok
      <3>1. PICK ok \in PowerCallOK : mHasWakeLock' = ok /\ acquireFailed' = ~ok
        BY <2>1
      <3>2. ok = TRUE \/ ok = FALSE
        OBVIOUS
      <3> QED
        BY <3>1, <3>2
    <2>2. CASE /\ mHasWakeLock /\ Kept(w, h) = 0
               /\ \E ok \in PowerCallOK : mHasWakeLock' = ~ok
               /\ UNCHANGED acquireFailed
      BY <2>2 DEF TypeOK
    <2>3. CASE /\ mHasWakeLock <=> Kept(w, h) > 0
               /\ UNCHANGED <<mHasWakeLock, acquireFailed>>
      BY <2>3 DEF TypeOK
    <2> QED
      BY <2>1, <2>2, <2>3 DEF UpdateWakeLock, PowerCalls
  <1> QED
    BY <1>1, <1>2 DEF UpdateWakeLock, Elapsed, TypeOK, HeldInv

-----------------------------------------------------------------------------
(* The invariant holds initially, and every action preserves it. *)

\* The constructors establish the invariant.
LEMMA InitInv == Init => Inv
  <1> SUFFICES ASSUME Init PROVE Inv
    OBVIOUS
  <1>1. TypeOK
    <2>1. /\ pc \in [Thread -> RunPc \cup BinderPc] /\ pc[Binder] \in BinderPc
          /\ \A s \in Sensor : pc[s] \in RunPc
      BY DEF Init, RunPc, BinderPc
    <2>2. /\ mIsEnabled \in [Sensor -> BOOLEAN] /\ mMode \in [Sensor -> Mode]
          /\ mPreviousEventSet \in [Sensor -> BOOLEAN]
          /\ mStopThread \in [Sensor -> BOOLEAN] /\ posting \in [Thread -> {0, 1}]
          /\ bMode \in Mode
      BY DEF Init, Mode
    <2>3. /\ evWake \in Nat /\ evOther \in Nat /\ evWake + evOther <= EventQueueSize
          /\ ackMsgs \in 0 .. WakeLockQueueSize
          /\ ackSum \in Nat /\ fwUnacked \in Nat /\ eventsHandled \in Nat
          /\ mOutstandingWakeUpEvents \in Nat
      BY DEF Init
    <2> QED
      BY <2>1, <2>2, <2>3 DEF Init, TypeOK
  <1>2. WriteLockInv /\ NoSampleWhenDisabled /\ FreshInv
    BY DEF Init, WriteLockInv, Posting, NoSampleWhenDisabled, FreshInv
  <1>3. CallInv /\ DisabledInv /\ QueueInv /\ ReaderInv
    BY DEF Init, CallInv, DisabledInv, QueueInv, ReaderInv, OneReader
  <1>4. OutstandingCovers /\ HeldInv
    BY DEF Init, OutstandingCovers, Unhandled, InPost, HeldInv
  <1> QED
    BY <1>1, <1>2, <1>3, <1>4 DEF Inv

\* The write of postEvents to the Event FMQ preserves it.
LEMMA PostWriteInv ==
    ASSUME Inv, NEW t \in Thread, PostWrite(t)
    PROVE  Inv'
  <1> DEFINE counts == evWake + evOther + posting[t] <= EventQueueSize /\ Wakes(t)
  <1>1. TypeOK /\ WriteLockInv /\ pc[t] = "write" /\ mWriteLock = None
        /\ posting[t] \in {0, 1} /\ counts \in BOOLEAN
    BY DEF Inv, PostWrite, TypeOK, Wakes
  <1>2. CASE counts
    <2>1. /\ pc' = [pc EXCEPT ![t] = "update"] /\ mWriteLock' = t
          /\ evWake' = evWake + posting[t] /\ evOther' = evOther
          /\ UNCHANGED <<posting, bSensor>>
      BY <1>1, <1>2 DEF PostWrite, TypeOK
    <2> QED
      BY <1>1, <2>1 DEF Inv, PostWrite, TypeOK, Mode, RunPc, BinderPc, WriteLockInv,
         Posting, CallInv, DisabledInv, QueueInv, ReaderInv, OneReader,
         NoSampleWhenDisabled, Samples, OutstandingCovers, Unhandled, InPost, HeldInv,
         FreshInv
  <1>3. CASE ~counts
    <2>1. /\ pc' = [pc EXCEPT ![t] = AfterPost(t)] /\ mWriteLock' = None
          /\ evWake' = evWake /\ posting' = [posting EXCEPT ![t] = 0]
          /\ evOther' \in Nat /\ evWake + evOther' <= EventQueueSize
          /\ bSensor' \in {bSensor, None} /\ (t # Binder => bSensor' = bSensor)
      <3>1. CASE evWake + evOther + posting[t] <= EventQueueSize
        <4>1. ~Wakes(t)
          BY <1>3, <3>1
        <4>2. evOther' = evOther + posting[t] /\ evWake' = evWake + 0
          BY <3>1, <4>1 DEF PostWrite
        <4> QED
          BY <1>1, <3>1, <4>1, <4>2 DEF PostWrite, TypeOK
      <3>2. CASE ~(evWake + evOther + posting[t] <= EventQueueSize)
        BY <1>1, <1>3, <3>2 DEF PostWrite, TypeOK
      <3> QED
        BY <3>1, <3>2
    <2> QED
      BY <1>1, <2>1 DEF Inv, PostWrite, TypeOK, Mode, RunPc, BinderPc, WriteLockInv,
         Posting, CallInv, DisabledInv, QueueInv, ReaderInv, OneReader, AfterPost,
         NoSampleWhenDisabled, Samples, OutstandingCovers, Unhandled, InPost, HeldInv,
         FreshInv
  <1> QED
    BY <1>2, <1>3

\* The count of postEvents preserves it, however late it comes.
LEMMA PostUpdateInv ==
    ASSUME Inv, NEW t \in Thread, PostUpdate(t)
    PROVE  Inv'
  <1>1. /\ TypeOK /\ WriteLockInv /\ HeldInv /\ OutstandingCovers
        /\ posting[t] \in Nat /\ Unhandled \in Nat /\ mWriteLock = t
    BY DEF Inv, PostUpdate, TypeOK, WriteLockInv, Unhandled
  <1>2. /\ mOutstandingWakeUpEvents' \in Nat
        /\ mHasWakeLock' \in BOOLEAN /\ autoReleaseElapsed' \in BOOLEAN
        /\ synced' \in BOOLEAN /\ acquireFailed' \in BOOLEAN
        /\ HeldInv'
        /\ synced' => \/ Unhandled = 0
                      \/ /\ synced
                         /\ mOutstandingWakeUpEvents' >= mOutstandingWakeUpEvents + posting[t] - 0
    BY <1>1, UpdateWakeLockFacts DEF PostUpdate
  <1>3. TypeOK'
    BY <1>1, <1>2 DEF PostUpdate, TypeOK, RunPc, BinderPc, AfterPost
  <1>4. OutstandingCovers'
    <2>1. InPost = posting[t] /\ InPost' = 0
      BY <1>1 DEF PostUpdate, InPost
    <2>2. Unhandled' = Unhandled
      BY DEF PostUpdate, Unhandled
    <2>3. mOutstandingWakeUpEvents \in Nat
      BY <1>1 DEF TypeOK
    <2> QED
      BY <1>1, <1>2, <2>1, <2>2, <2>3 DEF OutstandingCovers
  <1>5. WriteLockInv' /\ CallInv' /\ DisabledInv' /\ QueueInv' /\ ReaderInv'
    BY <1>1 DEF Inv, PostUpdate, TypeOK, WriteLockInv, Posting, CallInv, DisabledInv,
       QueueInv, ReaderInv, OneReader, AfterPost
  <1>6. NoSampleWhenDisabled' /\ FreshInv'
    BY DEF Inv, PostUpdate, TypeOK, NoSampleWhenDisabled, Samples, FreshInv, AfterPost
  <1> QED
    BY <1>2, <1>3, <1>4, <1>5, <1>6 DEF Inv

\* The update of the wake-lock thread preserves it.
LEMMA ReaderApplyInv ==
    ASSUME Inv, ReaderApply
    PROVE  Inv'
  <1>1. /\ TypeOK /\ HeldInv /\ OutstandingCovers
        /\ eventsHandled \in Nat /\ Unhandled - eventsHandled \in Nat
    BY DEF Inv, TypeOK, Unhandled
  <1>2. /\ mOutstandingWakeUpEvents' \in Nat
        /\ mHasWakeLock' \in BOOLEAN /\ autoReleaseElapsed' \in BOOLEAN
        /\ synced' \in BOOLEAN /\ acquireFailed' \in BOOLEAN
        /\ HeldInv'
        /\ synced' => \/ Unhandled - eventsHandled = 0
                      \/ /\ synced
                         /\ mOutstandingWakeUpEvents' >= mOutstandingWakeUpEvents + 0 - eventsHandled
    BY <1>1, UpdateWakeLockFacts DEF ReaderApply
  <1>3. TypeOK'
    BY <1>1, <1>2 DEF ReaderApply, TypeOK, ReaderLoop
  <1>4. OutstandingCovers'
    BY <1>1, <1>2 DEF ReaderApply, TypeOK, OutstandingCovers, Unhandled, InPost
  <1>5. WriteLockInv' /\ CallInv' /\ DisabledInv' /\ QueueInv' /\ ReaderInv'
    BY DEF Inv, ReaderApply, TypeOK, WriteLockInv, Posting, CallInv, DisabledInv,
       QueueInv, ReaderInv, OneReader, ReaderLoop
  <1>6. NoSampleWhenDisabled' /\ FreshInv'
    BY DEF Inv, ReaderApply, NoSampleWhenDisabled, Samples, FreshInv
  <1> QED
    BY <1>2, <1>3, <1>4, <1>5, <1>6 DEF Inv

\* What Sensor::activate does to the threads.
LEMMA SensorActivateFacts ==
    ASSUME TypeOK, NEW s \in Sensor, NEW enable \in BOOLEAN, SensorActivate(s, enable)
    PROVE  /\ mIsEnabled' = [mIsEnabled EXCEPT ![s] = enable]
           /\ pc' \in [Thread -> RunPc \cup BinderPc]
           /\ pc'[Binder] = "clear"
           /\ \A u \in Sensor : \/ pc'[u] = pc[u]
                                \/ pc[u] = "waiting" /\ pc'[u] = "unlocked"
           /\ mIsEnabled[s] # enable => pc[s] \notin {"write", "update"}
  BY DEF SensorActivate, TypeOK, Notified, RunMutexFree, RunPc, BinderPc

\* Sensors::activate preserves it.
LEMMA ActivateInv ==
    ASSUME Inv, NEW s \in Sensor, NEW enable \in BOOLEAN, Activate(s, enable)
    PROVE  Inv'
  <1>1. TypeOK /\ pc[Binder] = "idle" /\ fw = "up"
    BY DEF Inv, Activate, Called
  <1>2. /\ mIsEnabled' = [mIsEnabled EXCEPT ![s] = enable]
        /\ pc' \in [Thread -> RunPc \cup BinderPc]
        /\ pc'[Binder] = "clear"
        /\ \A u \in Sensor : \/ pc'[u] = pc[u]
                             \/ pc[u] = "waiting" /\ pc'[u] = "unlocked"
        /\ mIsEnabled[s] # enable => pc[s] \notin {"write", "update"}
    BY <1>1, SensorActivateFacts DEF Activate
  <1>3. TypeOK' /\ CallInv'
    BY <1>1, <1>2 DEF Inv, Activate, TypeOK, RunPc, BinderPc, CallInv
  <1>4. WriteLockInv' /\ DisabledInv' /\ QueueInv' /\ ReaderInv'
    BY <1>1, <1>2 DEF Inv, Activate, TypeOK, WriteLockInv, Posting, CallInv,
       DisabledInv, QueueInv, ReaderInv, OneReader
  <1>5. NoSampleWhenDisabled' /\ FreshInv'
    BY <1>1, <1>2 DEF Inv, Activate, TypeOK, NoSampleWhenDisabled, Samples, FreshInv
  <1>6. OutstandingCovers' /\ HeldInv'
    BY DEF Inv, Activate, OutstandingCovers, Unhandled, InPost, HeldInv
  <1> QED
    BY <1>3, <1>4, <1>5, <1>6 DEF Inv

\* A turn of the loop of initialize that disables the sensors preserves it.
LEMMA InitDisableInv ==
    ASSUME Inv, NEW s \in Sensor, InitDisable(s)
    PROVE  Inv'
  <1>1. TypeOK /\ pc[Binder] = "disable" /\ fw = "calling"
    BY DEF Inv, InitDisable, CallInv
  <1>2. /\ mIsEnabled' = [mIsEnabled EXCEPT ![s] = FALSE]
        /\ pc' \in [Thread -> RunPc \cup BinderPc]
        /\ pc'[Binder] = "clear"
        /\ \A u \in Sensor : \/ pc'[u] = pc[u]
                             \/ pc[u] = "waiting" /\ pc'[u] = "unlocked"
        /\ mIsEnabled[s] # FALSE => pc[s] \notin {"write", "update"}
    BY <1>1, SensorActivateFacts DEF InitDisable
  <1>3. TypeOK' /\ CallInv'
    BY <1>1, <1>2 DEF Inv, InitDisable, TypeOK, RunPc, BinderPc, CallInv
  <1>4. WriteLockInv' /\ DisabledInv' /\ QueueInv' /\ ReaderInv'
    BY <1>1, <1>2 DEF Inv, InitDisable, TypeOK, WriteLockInv, Posting, CallInv,
       DisabledInv, QueueInv, ReaderInv, OneReader
  <1>5. NoSampleWhenDisabled' /\ FreshInv'
    BY <1>1, <1>2 DEF Inv, InitDisable, TypeOK, NoSampleWhenDisabled, Samples, FreshInv
  <1>6. OutstandingCovers' /\ HeldInv'
    BY DEF Inv, InitDisable, OutstandingCovers, Unhandled, InPost, HeldInv
  <1> QED
    BY <1>3, <1>4, <1>5, <1>6 DEF Inv

\* A run thread that ends preserves it.
LEMMA RunExitInv ==
    ASSUME Inv, NEW s \in Sensor, RunExit(s)
    PROVE  Inv'
  BY DEF Inv, RunExit, TypeOK, Mode, RunPc, BinderPc, WriteLockInv,
       Posting, CallInv, DisabledInv, QueueInv, ReaderInv, OneReader,
       NoSampleWhenDisabled, Samples, OutstandingCovers, Unhandled, InPost, HeldInv,
       FreshInv

\* A run thread that waits to be enabled preserves it.
LEMMA RunWaitInv ==
    ASSUME Inv, NEW s \in Sensor, RunWait(s)
    PROVE  Inv'
  BY DEF Inv, RunWait, TypeOK, Mode, RunPc, BinderPc, WriteLockInv,
       Posting, CallInv, DisabledInv, QueueInv, ReaderInv, OneReader,
       NoSampleWhenDisabled, Samples, OutstandingCovers, Unhandled, InPost, HeldInv,
       FreshInv

\* A run thread that takes a sample preserves it.
LEMMA RunSampleInv ==
    ASSUME Inv, NEW s \in Sensor, RunSample(s)
    PROVE  Inv'
  BY DEF Inv, RunSample, TypeOK, Mode, RunPc, BinderPc, WriteLockInv,
       Posting, CallInv, DisabledInv, QueueInv, ReaderInv, OneReader,
       NoSampleWhenDisabled, Samples, OutstandingCovers, Unhandled, InPost, HeldInv,
       FreshInv

\* The start of the wake-lock thread preserves it.
LEMMA ReaderStartInv ==
    ASSUME Inv, ReaderStart
    PROVE  Inv'
  BY DEF Inv, ReaderStart, ReaderLoop, TypeOK, Mode, RunPc, BinderPc, WriteLockInv,
       Posting, CallInv, DisabledInv, QueueInv, ReaderInv, OneReader,
       NoSampleWhenDisabled, Samples, OutstandingCovers, Unhandled, InPost, HeldInv,
       FreshInv

\* The wake-lock thread that reads a message preserves it.
LEMMA ReaderReadInv ==
    ASSUME Inv, ReaderRead
    PROVE  Inv'
  BY DEF Inv, ReaderRead, TypeOK, Mode, RunPc, BinderPc, WriteLockInv,
       Posting, CallInv, DisabledInv, QueueInv, ReaderInv, OneReader,
       NoSampleWhenDisabled, Samples, OutstandingCovers, Unhandled, InPost, HeldInv,
       FreshInv

\* The wake-lock thread that reads nothing preserves it.
LEMMA ReaderTimeoutInv ==
    ASSUME Inv, ReaderTimeout
    PROVE  Inv'
  BY DEF Inv, ReaderTimeout, TypeOK, Mode, RunPc, BinderPc, WriteLockInv,
       Posting, CallInv, DisabledInv, QueueInv, ReaderInv, OneReader,
       NoSampleWhenDisabled, Samples, OutstandingCovers, Unhandled, InPost, HeldInv,
       FreshInv

\* The end of OnChangeSensor::activate preserves it.
LEMMA ActivateClearInv ==
    ASSUME Inv, ActivateClear
    PROVE  Inv'
  <1>1. TypeOK' /\ CallInv'
    BY DEF Inv, ActivateClear, Forgets, TypeOK, Mode, RunPc, BinderPc, CallInv
  <1>2. WriteLockInv' /\ DisabledInv' /\ QueueInv' /\ ReaderInv'
    BY DEF Inv, ActivateClear, Forgets, TypeOK, WriteLockInv, Posting,
       CallInv, DisabledInv, QueueInv, ReaderInv, OneReader
  <1>3. NoSampleWhenDisabled' /\ FreshInv'
    BY DEF Inv, ActivateClear, Forgets, TypeOK, NoSampleWhenDisabled,
       Samples, CallInv, FreshInv
  <1>4. OutstandingCovers' /\ HeldInv'
    BY DEF Inv, ActivateClear, Forgets, TypeOK, WriteLockInv, Posting, OutstandingCovers, Unhandled,
       InPost, HeldInv
  <1> QED
    BY <1>1, <1>2, <1>3, <1>4 DEF Inv

\* The call of setOperationMode preserves it.
LEMMA SetOperationModeInv ==
    ASSUME Inv, NEW mode \in Mode, SetOperationMode(mode)
    PROVE  Inv'
  BY DEF Inv, SetOperationMode, Called, TypeOK, Mode, RunPc, BinderPc, WriteLockInv,
       Posting, CallInv, DisabledInv, QueueInv, ReaderInv, OneReader,
       NoSampleWhenDisabled, Samples, OutstandingCovers, Unhandled, InPost, HeldInv,
       FreshInv

\* A turn of the loop of setOperationMode preserves it.
LEMMA SetModeStepInv ==
    ASSUME Inv, NEW s \in Sensor, SetModeStep(s)
    PROVE  Inv'
  <1>1. TypeOK' /\ CallInv'
    BY DEF Inv, SetModeStep, Notified, RunMutexFree, TypeOK, Mode, RunPc, BinderPc, CallInv
  <1>2. WriteLockInv' /\ DisabledInv' /\ QueueInv' /\ ReaderInv'
    BY DEF Inv, SetModeStep, Notified, RunMutexFree, TypeOK, WriteLockInv, Posting,
       CallInv, DisabledInv, QueueInv, ReaderInv, OneReader
  <1>3. NoSampleWhenDisabled' /\ FreshInv'
    BY DEF Inv, SetModeStep, Notified, RunMutexFree, TypeOK, NoSampleWhenDisabled,
       Samples, CallInv, FreshInv
  <1>4. OutstandingCovers' /\ HeldInv'
    BY DEF Inv, SetModeStep, Notified, RunMutexFree, TypeOK, WriteLockInv, Posting, OutstandingCovers, Unhandled,
       InPost, HeldInv
  <1> QED
    BY <1>1, <1>2, <1>3, <1>4 DEF Inv

\* The return of setOperationMode preserves it.
LEMMA SetModeDoneInv ==
    ASSUME Inv, SetModeDone
    PROVE  Inv'
  BY DEF Inv, SetModeDone, TypeOK, Mode, RunPc, BinderPc, WriteLockInv,
       Posting, CallInv, DisabledInv, QueueInv, ReaderInv, OneReader,
       NoSampleWhenDisabled, Samples, OutstandingCovers, Unhandled, InPost, HeldInv,
       FreshInv

\* flush that starts to post preserves it.
LEMMA FlushInv ==
    ASSUME Inv, NEW s \in Sensor, Flush(s)
    PROVE  Inv'
  <1>1. TypeOK' /\ CallInv'
    BY DEF Inv, Flush, Called, BinderPosts, TypeOK, Mode, RunPc, BinderPc, CallInv
  <1>2. WriteLockInv' /\ DisabledInv' /\ QueueInv' /\ ReaderInv'
    BY DEF Inv, Flush, Called, BinderPosts, TypeOK, WriteLockInv, Posting,
       CallInv, DisabledInv, QueueInv, ReaderInv, OneReader
  <1>3. NoSampleWhenDisabled' /\ FreshInv'
    BY DEF Inv, Flush, Called, BinderPosts, TypeOK, NoSampleWhenDisabled,
       Samples, CallInv, FreshInv
  <1>4. OutstandingCovers' /\ HeldInv'
    BY DEF Inv, Flush, Called, BinderPosts, TypeOK, WriteLockInv, Posting, OutstandingCovers, Unhandled,
       InPost, HeldInv
  <1> QED
    BY <1>1, <1>2, <1>3, <1>4 DEF Inv

\* injectSensorData that starts to post preserves it.
LEMMA InjectSensorDataInv ==
    ASSUME Inv, NEW s \in Sensor, InjectSensorData(s)
    PROVE  Inv'
  <1>1. TypeOK' /\ CallInv'
    BY DEF Inv, InjectSensorData, Called, BinderPosts, TypeOK, Mode, RunPc, BinderPc, CallInv
  <1>2. WriteLockInv' /\ DisabledInv' /\ QueueInv' /\ ReaderInv'
    BY DEF Inv, InjectSensorData, Called, BinderPosts, TypeOK, WriteLockInv, Posting,
       CallInv, DisabledInv, QueueInv, ReaderInv, OneReader
  <1>3. NoSampleWhenDisabled' /\ FreshInv'
    BY DEF Inv, InjectSensorData, Called, BinderPosts, TypeOK, NoSampleWhenDisabled,
       Samples, CallInv, FreshInv
  <1>4. OutstandingCovers' /\ HeldInv'
    BY DEF Inv, InjectSensorData, Called, BinderPosts, TypeOK, WriteLockInv, Posting, OutstandingCovers, Unhandled,
       InPost, HeldInv
  <1> QED
    BY <1>1, <1>2, <1>3, <1>4 DEF Inv

\* The call of initialize preserves it.
LEMMA InitializeInv ==
    ASSUME Inv, Initialize
    PROVE  Inv'
  BY DEF Inv, Initialize, ToDisable, TypeOK, Mode, RunPc, BinderPc, WriteLockInv,
       Posting, CallInv, DisabledInv, QueueInv, ReaderInv, OneReader,
       NoSampleWhenDisabled, Samples, OutstandingCovers, Unhandled, InPost, HeldInv,
       FreshInv

\* The end of the loop that disables the sensors preserves it.
LEMMA InitDisabledInv ==
    ASSUME Inv, InitDisabled
    PROVE  Inv'
  BY DEF Inv, InitDisabled, TypeOK, Mode, RunPc, BinderPc, WriteLockInv,
       Posting, CallInv, DisabledInv, QueueInv, ReaderInv, OneReader,
       NoSampleWhenDisabled, Samples, OutstandingCovers, Unhandled, InPost, HeldInv,
       FreshInv

\* initialize that asks the wake-lock thread to stop preserves it.
LEMMA InitStopInv ==
    ASSUME Inv, InitStop
    PROVE  Inv'
  <1>0. /\ pc' \in [Thread -> RunPc \cup BinderPc] /\ pc'[Binder] \in {"join", "replace"}
        /\ \A s \in Sensor : pc'[s] = pc[s]
    <2>1. CASE mReadWakeLockQueueRun
      BY <2>1 DEF Inv, InitStop, TypeOK, BinderPc
    <2>2. CASE ~mReadWakeLockQueueRun
      BY <2>2 DEF Inv, InitStop, TypeOK, BinderPc
    <2> QED
      BY <2>1, <2>2
  <1>1. TypeOK' /\ CallInv'
    <2>1. pc'[Binder] \in BinderPc /\ \A s \in Sensor : pc'[s] \in RunPc
      BY <1>0 DEF Inv, TypeOK, BinderPc
    <2>2. TypeOK'
      <3>1. mReadWakeLockQueueRun' \in BOOLEAN
        BY Zenon DEF InitStop
      <3> QED
        BY <1>0, <2>1, <3>1 DEF Inv, InitStop, TypeOK
    <2>3. CallInv'
      BY <1>0 DEF Inv, InitStop, CallInv
    <2> QED
      BY <2>2, <2>3
  <1>2. WriteLockInv' /\ DisabledInv' /\ QueueInv' /\ ReaderInv'
    BY DEF Inv, InitStop, TypeOK, WriteLockInv, Posting,
       CallInv, DisabledInv, QueueInv, ReaderInv, OneReader
  <1>3. NoSampleWhenDisabled' /\ FreshInv'
    BY DEF Inv, InitStop, TypeOK, NoSampleWhenDisabled,
       Samples, CallInv, FreshInv
  <1>4. OutstandingCovers' /\ HeldInv'
    BY DEF Inv, InitStop, TypeOK, WriteLockInv, Posting, OutstandingCovers, Unhandled,
       InPost, HeldInv
  <1> QED
    BY <1>1, <1>2, <1>3, <1>4 DEF Inv

\* The join of the wake-lock thread preserves it.
LEMMA InitJoinInv ==
    ASSUME Inv, InitJoin
    PROVE  Inv'
  BY DEF Inv, InitJoin, Joined, TypeOK, Mode, RunPc, BinderPc, WriteLockInv,
       Posting, CallInv, DisabledInv, QueueInv, ReaderInv, OneReader,
       NoSampleWhenDisabled, Samples, OutstandingCovers, Unhandled, InPost, HeldInv,
       FreshInv

\* The replacement of the Event FMQ preserves it.
LEMMA InitReplaceInv ==
    ASSUME Inv, InitReplace
    PROVE  Inv'
  BY DEF Inv, InitReplace, TypeOK, Mode, RunPc, BinderPc, WriteLockInv,
       Posting, CallInv, DisabledInv, QueueInv, ReaderInv, OneReader,
       NoSampleWhenDisabled, Samples, OutstandingCovers, Unhandled, InPost, HeldInv,
       FreshInv

\* The new EventFlag and Wake Lock FMQ preserve it.
LEMMA InitCreateInv ==
    ASSUME Inv, InitCreate
    PROVE  Inv'
  BY DEF Inv, InitCreate, TypeOK, Mode, RunPc, BinderPc, WriteLockInv,
       Posting, CallInv, DisabledInv, QueueInv, ReaderInv, OneReader,
       NoSampleWhenDisabled, Samples, OutstandingCovers, Unhandled, InPost, HeldInv,
       FreshInv

\* The new wake-lock thread and the return of initialize preserve it.
LEMMA InitStartInv ==
    ASSUME Inv, InitStart
    PROVE  Inv'
  BY DEF Inv, InitStart, TypeOK, Mode, RunPc, BinderPc, WriteLockInv,
       Posting, CallInv, DisabledInv, QueueInv, ReaderInv, OneReader,
       NoSampleWhenDisabled, Samples, OutstandingCovers, Unhandled, InPost, HeldInv,
       FreshInv

\* The passing of WAKE_LOCK_SECONDS preserves it.
LEMMA TickInv ==
    ASSUME Inv, Tick
    PROVE  Inv'
  BY DEF Inv, Tick, TypeOK, Mode, RunPc, BinderPc, WriteLockInv,
       Posting, CallInv, DisabledInv, QueueInv, ReaderInv, OneReader,
       NoSampleWhenDisabled, Samples, OutstandingCovers, Unhandled, InPost, HeldInv,
       FreshInv

\* The framework that reads a wake-up event preserves it.
LEMMA FwReadWakeInv ==
    ASSUME Inv, FwReadWake
    PROVE  Inv'
  BY DEF Inv, FwReadWake, TypeOK, Mode, RunPc, BinderPc, WriteLockInv,
       Posting, CallInv, DisabledInv, QueueInv, ReaderInv, OneReader,
       NoSampleWhenDisabled, Samples, OutstandingCovers, Unhandled, InPost, HeldInv,
       FreshInv

\* The framework that reads another event preserves it.
LEMMA FwReadOtherInv ==
    ASSUME Inv, FwReadOther
    PROVE  Inv'
  BY DEF Inv, FwReadOther, TypeOK, Mode, RunPc, BinderPc, WriteLockInv,
       Posting, CallInv, DisabledInv, QueueInv, ReaderInv, OneReader,
       NoSampleWhenDisabled, Samples, OutstandingCovers, Unhandled, InPost, HeldInv,
       FreshInv

\* The acknowledgement of events preserves it.
LEMMA FwAckInv ==
    ASSUME Inv, NEW n \in 1 .. fwUnacked, FwAck(n)
    PROVE  Inv'
  BY DEF Inv, FwAck, TypeOK, Mode, RunPc, BinderPc, WriteLockInv,
       Posting, CallInv, DisabledInv, QueueInv, ReaderInv, OneReader,
       NoSampleWhenDisabled, Samples, OutstandingCovers, Unhandled, InPost, HeldInv,
       FreshInv

\* The death of the framework preserves it.
LEMMA FwRestartInv ==
    ASSUME Inv, FwRestart
    PROVE  Inv'
  BY DEF Inv, FwRestart, TypeOK, Mode, RunPc, BinderPc, WriteLockInv,
       Posting, CallInv, DisabledInv, QueueInv, ReaderInv, OneReader,
       NoSampleWhenDisabled, Samples, OutstandingCovers, Unhandled, InPost, HeldInv,
       FreshInv

\* Every step of the HAL and of its environment preserves the invariant.
LEMMA NextInv == Inv /\ [Next]_vars => Inv'
  <1> SUFFICES ASSUME Inv, [Next]_vars PROVE Inv'
    OBVIOUS
  <1>1. CASE Call
    BY <1>1, ActivateInv, SetOperationModeInv, FlushInv, InjectSensorDataInv,
       InitializeInv DEF Call
  <1>2. CASE BinderStep
    BY <1>2, ActivateClearInv, SetModeStepInv, SetModeDoneInv, InitDisableInv,
       InitDisabledInv, InitStopInv, InitJoinInv, InitReplaceInv, InitCreateInv,
       InitStartInv DEF BinderStep
  <1>3. CASE \E s \in Sensor : Run(s)
    BY <1>3, RunExitInv, RunWaitInv, RunSampleInv DEF Run
  <1>4. CASE \E t \in Thread : PostWrite(t) \/ PostUpdate(t)
    BY <1>4, PostWriteInv, PostUpdateInv
  <1>5. CASE Reader
    BY <1>5, ReaderStartInv, ReaderReadInv, ReaderTimeoutInv, ReaderApplyInv DEF Reader
  <1>6. CASE Tick \/ FwReadWake \/ FwReadOther \/ FwRestart
    BY <1>6, TickInv, FwReadWakeInv, FwReadOtherInv, FwRestartInv
  <1>7. CASE \E n \in 1 .. fwUnacked : FwAck(n)
    BY <1>7, FwAckInv
  <1>8. CASE UNCHANGED vars
    BY <1>8 DEF vars, Inv, TypeOK, WriteLockInv, Posting, CallInv, DisabledInv,
       QueueInv, ReaderInv, OneReader, NoSampleWhenDisabled, Samples,
       OutstandingCovers, Unhandled, InPost, HeldInv, FreshInv
  <1> QED
    BY <1>1, <1>2, <1>3, <1>4, <1>5, <1>6, <1>7, <1>8 DEF Next

-----------------------------------------------------------------------------
(* The theorems. *)

\* The inductive invariant holds in every state of every behaviour.
THEOREM InvHolds == Spec => []Inv
  BY InitInv, NextInv, PTL DEF Spec

\* Every variable of Sensors, of its sensors and of the queues keeps its type.
THEOREM TypeCorrect == Spec => []TypeOK
  <1>1. Inv => TypeOK
    BY DEF Inv
  <1> QED
    BY <1>1, InvHolds, PTL

\* The count of outstanding wake-up events is never too low (updateWakeLock).
THEOREM CountIsHighEnough == Spec => []OutstandingCovers
  <1>1. Inv => OutstandingCovers
    BY DEF Inv
  <1> QED
    BY <1>1, InvHolds, PTL

\* The wake lock is held while a counted wake-up event is unhandled.
THEOREM LockIsHeld == Spec => []WakeLockCovers
  <1>1. Inv => WakeLockCovers
    BY DEF Inv, TypeOK, OutstandingCovers, HeldInv, WakeLockCovers, InPost, Unhandled
  <1> QED
    BY <1>1, InvHolds, PTL

\* activate(false) and setOperationMode leave no sample under way.
THEOREM DisabledIsQuiet == Spec => []NoSampleWhenDisabled
  <1>1. Inv => NoSampleWhenDisabled
    BY DEF Inv
  <1> QED
    BY <1>1, InvHolds, PTL

\* initialize never replaces the queue and the EventFlag under a poster.
THEOREM QueueIsThere == Spec => []NoPostWithoutQueue
  <1>1. Inv => NoPostWithoutQueue
    BY DEF Inv, TypeOK, NoSampleWhenDisabled, Samples, QueueInv, DisabledInv,
           NoPostWithoutQueue, Posting
  <1> QED
    BY <1>1, InvHolds, PTL

\* initialize never runs beside the wake-lock thread that it stopped.
THEOREM SingleReader == Spec => []OneReader
  <1>1. Inv => OneReader
    BY DEF Inv, ReaderInv
  <1> QED
    BY <1>1, InvHolds, PTL

\* An on-change sensor reports its first sample after it was enabled.
THEOREM EnableIsFresh == Spec => FreshOnEnable
  <1> DEFINE Fresh == \A s \in OnChange :
                 ~mIsEnabled[s] /\ mIsEnabled'[s] => ~mPreviousEventSet'[s]
  <1>1. Inv /\ [Next]_vars => [Fresh]_vars
    <2> SUFFICES ASSUME Inv, Next, NEW s \in OnChange,
                        ~mIsEnabled[s], mIsEnabled'[s]
                 PROVE  ~mPreviousEventSet'[s]
      OBVIOUS
    <2>1. \A u \in Sensor, enable \in BOOLEAN : Activate(u, enable) => ~mPreviousEventSet'[s]
      BY DEF Inv, FreshInv, Activate, Called
    <2>2. \A u \in Sensor : ~InitDisable(u)
      BY DEF Inv, TypeOK, InitDisable, SensorActivate
    <2>3. (\E u \in Sensor, enable \in BOOLEAN : Activate(u, enable)) \/ UNCHANGED mIsEnabled
      BY <2>2 DEF Next, Call, BinderStep, Run, Reader, PostWrite, PostUpdate,
         RunExit, RunWait, RunSample, ReaderStart, ReaderRead, ReaderTimeout,
         ReaderApply, ActivateClear, SetOperationMode, SetModeStep, SetModeDone,
         Flush, InjectSensorData, BinderPosts, Initialize, InitDisabled, InitStop,
         InitJoin, InitReplace, InitCreate, InitStart, Tick, FwReadWake,
         FwReadOther, FwAck, FwRestart
    <2> QED
      BY <2>1, <2>3
  <1> QED
    BY <1>1, InvHolds, PTL DEF Spec, FreshOnEnable

-----------------------------------------------------------------------------
(* The wake lock and the count, when the kernel refuses no call. *)

\* The HAL has its wake lock exactly while it counts a wake-up event: neither an
\* order of the calls of updateWakeLock by the posting threads and the wake-lock
\* thread, nor the clamp, nor an automatic release leaves one without the other.
LockIffCounted == mHasWakeLock <=> mOutstandingWakeUpEvents > 0

\* updateWakeLock makes the lock agree with the count it leaves, if the power calls
\* succeed.
LEMMA UpdateAgrees ==
    ASSUME TypeOK, PowerCallOK = {TRUE}, NEW w \in Nat, NEW h \in Nat, NEW left,
           UpdateWakeLock(w, h, left)
    PROVE  LockIffCounted'
  <1>1. Kept(w, h) \in Nat
    BY DEF Kept, Counted, TypeOK
  <1>2. PowerCalls(Kept(w, h)) /\ mOutstandingWakeUpEvents' = Kept(w, h)
    BY DEF UpdateWakeLock
  <1>3. mHasWakeLock' <=> Kept(w, h) > 0
    <2> DEFINE k == Kept(w, h)
    <2> SUFFICES mHasWakeLock' <=> k > 0
      OBVIOUS
    <2>1. k > 0 <=> ~(k = 0)
      BY <1>1
    <2> HIDE DEF k
    <2>2. CASE /\ ~mHasWakeLock /\ k > 0
               /\ \E ok \in PowerCallOK : mHasWakeLock' = ok /\ acquireFailed' = ~ok
      <3>1. mHasWakeLock' = TRUE
        BY <2>2, Zenon
      <3> QED
        BY <2>2, <3>1
    <2>3. CASE /\ mHasWakeLock /\ k = 0
               /\ \E ok \in PowerCallOK : mHasWakeLock' = ~ok
               /\ UNCHANGED acquireFailed
      <3>1. mHasWakeLock' = ~TRUE
        BY <2>3, Zenon
      <3> QED
        BY <2>1, <2>3, <3>1
    <2>4. CASE /\ mHasWakeLock <=> k > 0
               /\ UNCHANGED <<mHasWakeLock, acquireFailed>>
      BY <2>4
    <2> QED
      BY <1>2, <2>2, <2>3, <2>4 DEF PowerCalls, k
  <1> QED
    BY <1>2, <1>3 DEF LockIffCounted

\* Only updateWakeLock touches the count and the lock.
LEMMA OnlyUpdatesCount ==
    ASSUME Next
    PROVE  \/ \E t \in Thread : PostUpdate(t)
           \/ ReaderApply
           \/ UNCHANGED <<mOutstandingWakeUpEvents, mHasWakeLock>>
  BY DEF Next, Call, BinderStep, Run, Reader, PostWrite, RunExit, RunWait, RunSample,
     ReaderStart, ReaderRead, ReaderTimeout, Activate, ActivateClear,
     SetOperationMode, SetModeStep, SetModeDone, Flush, InjectSensorData,
     BinderPosts, Initialize, InitDisable, InitDisabled, InitStop, InitJoin,
     InitReplace, InitCreate, InitStart, Tick, FwReadWake, FwReadOther, FwAck,
     FwRestart

\* As long as acquire_wake_lock and release_wake_lock succeed, the lock is held
\* exactly while the count is above zero.
THEOREM LockFollowsCount ==
    ASSUME PowerCallOK = {TRUE}
    PROVE  Spec => []LockIffCounted
  <1>1. Init => LockIffCounted
    BY DEF Init, LockIffCounted
  <1>2. Inv /\ LockIffCounted /\ [Next]_vars => LockIffCounted'
    <2> SUFFICES ASSUME Inv, LockIffCounted, [Next]_vars PROVE LockIffCounted'
      OBVIOUS
    <2>1. ASSUME NEW t \in Thread, PostUpdate(t) PROVE LockIffCounted'
      <3>1. TypeOK /\ posting[t] \in Nat /\ UpdateWakeLock(posting[t], 0, Unhandled)
        BY <2>1 DEF Inv, TypeOK, PostUpdate
      <3> QED
        BY <3>1, UpdateAgrees
    <2>2. CASE ReaderApply
      <3>1. /\ TypeOK /\ eventsHandled \in Nat
            /\ UpdateWakeLock(0, eventsHandled, Unhandled - eventsHandled)
        BY <2>2 DEF Inv, TypeOK, ReaderApply
      <3> QED
        BY <3>1, UpdateAgrees
    <2>3. CASE UNCHANGED <<mOutstandingWakeUpEvents, mHasWakeLock>>
      BY <2>3 DEF LockIffCounted
    <2>4. CASE UNCHANGED vars
      BY <2>4 DEF vars, LockIffCounted
    <2> QED
      BY <2>1, <2>2, <2>3, <2>4, OnlyUpdatesCount
  <1> QED
    BY <1>1, <1>2, InvHolds, PTL DEF Spec

-----------------------------------------------------------------------------
(* Who waits, and for whom. *)

\* A run thread sleeps in wait() only while there is nothing to sample: no
\* notification of activate and setOperationMode falls between its test and its
\* wait.
SleepsWhenIdle == \A s \in Sensor : pc[s] = "waiting" => ~Samples(s)

\* initialize joins a wake-lock thread that has been asked to stop, and whoever is
\* about to post has a queue and waits at most for a thread that only has to
\* count: nobody waits in a circle.
WaitsForARunner ==
    /\ pc[Binder] = "join" => ~mReadWakeLockQueueRun
    /\ \A t \in Thread : pc[t] = "write" =>
          mEventQueueFlag = "set" /\ (mWriteLock = None \/ pc[mWriteLock] = "update")

\* A step that makes a sensor sample wakes its thread, and one that sends the
\* thread to sleep finds nothing to sample.
LEMMA SleepsStep ==
    ASSUME Inv, SleepsWhenIdle, [Next]_vars
    PROVE  SleepsWhenIdle'
  <1> USE DEF SleepsWhenIdle, Samples
  <1> TypeOK
    BY DEF Inv
  <1>1. ASSUME NEW s \in Sensor, NEW enable \in BOOLEAN, SensorActivate(s, enable),
               UNCHANGED mMode
        PROVE  SleepsWhenIdle'
    BY <1>1 DEF SensorActivate, Notified, TypeOK
  <1>2. ASSUME NEW s \in Sensor, SetModeStep(s) PROVE SleepsWhenIdle'
    BY <1>2 DEF SetModeStep, Notified, TypeOK
  <1>3. ASSUME NEW s \in Sensor, Run(s) PROVE SleepsWhenIdle'
    BY <1>3 DEF Run, RunExit, RunWait, RunSample, TypeOK
  <1>4. ASSUME NEW t \in Thread, PostWrite(t) \/ PostUpdate(t) PROVE SleepsWhenIdle'
    BY <1>4 DEF PostWrite, PostUpdate, AfterPost, TypeOK
  <1>5. CASE UNCHANGED <<mIsEnabled, mMode>> /\ \A s \in Sensor : pc'[s] = pc[s]
    BY <1>5
  <1>6. CASE \/ \E mode \in Mode : SetOperationMode(mode)
             \/ \E s \in Sensor : Flush(s) \/ InjectSensorData(s)
             \/ Initialize
             \/ ActivateClear \/ SetModeDone \/ InitDisabled \/ InitStop \/ InitJoin
             \/ InitReplace \/ InitCreate \/ InitStart
    <2>1. UNCHANGED <<mIsEnabled, mMode>>
      BY <1>6 DEF SetOperationMode, Flush, InjectSensorData, BinderPosts, Initialize,
         ActivateClear, SetModeDone, InitDisabled, InitStop, InitJoin, InitReplace,
         InitCreate, InitStart
    <2>2. \E v : pc' = [pc EXCEPT ![Binder] = v]
      BY <1>6 DEF SetOperationMode, Flush, InjectSensorData, BinderPosts, Initialize,
         ActivateClear, SetModeDone, InitDisabled, InitStop, InitJoin, InitReplace,
         InitCreate, InitStart
    <2>3. \A s \in Sensor : pc'[s] = pc[s]
      BY <2>2 DEF TypeOK
    <2> QED
      BY <1>5, <2>1, <2>3
  <1>7. CASE \/ Reader \/ Tick \/ FwReadWake \/ FwReadOther \/ FwRestart
             \/ \E n \in 1 .. fwUnacked : FwAck(n)
             \/ UNCHANGED vars
    BY <1>5, <1>7 DEF Reader, ReaderStart, ReaderRead, ReaderTimeout, ReaderApply,
       Tick, FwReadWake, FwReadOther, FwRestart, FwAck, vars
  <1>8. ASSUME NEW s \in Sensor, NEW enable \in BOOLEAN, Activate(s, enable)
        PROVE  SleepsWhenIdle'
    BY <1>1, <1>8 DEF Activate
  <1>9. ASSUME NEW s \in Sensor, InitDisable(s) PROVE SleepsWhenIdle'
    BY <1>1, <1>9 DEF InitDisable
  <1> QED
    BY <1>2, <1>3, <1>4, <1>6, <1>7, <1>8, <1>9 DEF Next, Call, BinderStep

\* The flag that stops the wake-lock thread stays down while initialize joins it.
LEMMA JoinStep ==
    ASSUME Inv, pc[Binder] = "join" => ~mReadWakeLockQueueRun, [Next]_vars
    PROVE  (pc[Binder] = "join" => ~mReadWakeLockQueueRun)'
  <1>1. CASE InitStop
    BY <1>1 DEF InitStop, Inv, TypeOK
  <1>2. CASE InitStart
    BY <1>2 DEF InitStart, Inv, TypeOK
  <1>3. ASSUME ~InitStop, ~InitStart
        PROVE  UNCHANGED mReadWakeLockQueueRun /\ (pc'[Binder] = "join" => pc[Binder] = "join")
    <2> TypeOK
      BY DEF Inv
    <2>1. CASE Call
      BY <2>1 DEF Call, Activate, SensorActivate, Notified, SetOperationMode, Flush,
         InjectSensorData, BinderPosts, Initialize, TypeOK
    <2>2. CASE BinderStep
      <3>1. ASSUME NEW s \in Sensor, SetModeStep(s)
            PROVE  UNCHANGED mReadWakeLockQueueRun /\ pc'[Binder] = pc[Binder]
        BY <3>1 DEF SetModeStep, Notified, TypeOK
      <3>2. ASSUME NEW s \in Sensor, InitDisable(s)
            PROVE  UNCHANGED mReadWakeLockQueueRun /\ pc'[Binder] = "clear"
        BY <3>2, SensorActivateFacts DEF InitDisable
      <3>3. CASE \/ ActivateClear \/ SetModeDone \/ InitDisabled \/ InitJoin
                 \/ InitReplace \/ InitCreate
        <4>1. UNCHANGED mReadWakeLockQueueRun
          BY <3>3 DEF ActivateClear, SetModeDone, InitDisabled, InitJoin, InitReplace,
             InitCreate
        <4>2. \E v : v # "join" /\ pc' = [pc EXCEPT ![Binder] = v]
          BY <3>3 DEF ActivateClear, SetModeDone, InitDisabled, InitJoin, InitReplace,
             InitCreate
        <4> QED
          BY <4>1, <4>2 DEF TypeOK
      <3> QED
        BY <1>3, <2>2, <3>1, <3>2, <3>3 DEF BinderStep
    <2>3. CASE \E s \in Sensor : Run(s)
      BY <2>3 DEF Run, RunExit, RunWait, RunSample, TypeOK
    <2>4. CASE \E t \in Thread : PostWrite(t) \/ PostUpdate(t)
      BY <2>4 DEF PostWrite, PostUpdate, AfterPost, TypeOK
    <2>5. CASE \/ Reader \/ Tick \/ FwReadWake \/ FwReadOther \/ FwRestart
               \/ \E n \in 1 .. fwUnacked : FwAck(n)
               \/ UNCHANGED vars
      BY <2>5 DEF Reader, ReaderStart, ReaderRead, ReaderTimeout, ReaderApply,
         Tick, FwReadWake, FwReadOther, FwRestart, FwAck, vars
    <2> QED
      BY <2>1, <2>2, <2>3, <2>4, <2>5 DEF Next
  <1> QED
    BY <1>1, <1>2, <1>3

\* No notification is lost and nobody waits for a thread that waits too: what
\* InitializeReturns and EnabledSensorReports rest on, apart from the scheduler.
THEOREM NobodyWaitsInVain == Spec => [](SleepsWhenIdle /\ WaitsForARunner)
  <1> DEFINE Stopped == pc[Binder] = "join" => ~mReadWakeLockQueueRun
  <1>1. Init => SleepsWhenIdle /\ Stopped
    BY DEF Init, SleepsWhenIdle
  <1>2. Inv /\ SleepsWhenIdle /\ Stopped /\ [Next]_vars => SleepsWhenIdle' /\ Stopped'
    BY SleepsStep, JoinStep
  <1>3. Inv /\ Stopped => WaitsForARunner
    <2> SUFFICES ASSUME Inv, Stopped PROVE WaitsForARunner
      OBVIOUS
    <2>1. NoPostWithoutQueue
      BY DEF Inv, TypeOK, NoSampleWhenDisabled, Samples, QueueInv, DisabledInv,
             NoPostWithoutQueue, Posting
    <2>2. mWriteLock = None \/ pc[mWriteLock] = "update"
      BY DEF Inv, TypeOK, WriteLockInv
    <2> QED
      BY <2>1, <2>2 DEF WaitsForARunner, NoPostWithoutQueue, Posting
  <1> HIDE DEF Stopped
  <1> QED
    BY <1>1, <1>2, <1>3, InvHolds, PTL DEF Spec

-----------------------------------------------------------------------------
(* Where a count comes from that nobody acknowledges.  TLC finds behaviours *)
(* with one (run sensors_phantom_count); this is the only way.              *)

\* The framework reads no wake-up event while postEvents is between its write and
\* its count: what counting before the write, as ISensors.hal asks, would achieve.
ReadsAfterCount == [][FwReadWake => mWriteLock = None]_vars

\* What postEvents has written and not counted is still in the queue.
WrittenInv == mWriteLock # None => evWake >= posting[mWriteLock]

\* Every step keeps what was written in the queue until it is counted.
LEMMA WrittenStep ==
    ASSUME Inv, WrittenInv, [Next]_vars, [FwReadWake => mWriteLock = None]_vars
    PROVE  WrittenInv'
  <1> TypeOK /\ WriteLockInv
    BY DEF Inv
  <1>1. ASSUME NEW t \in Thread, PostWrite(t) PROVE WrittenInv'
    <2> DEFINE counts == evWake + evOther + posting[t] <= EventQueueSize /\ Wakes(t)
    <2>1. CASE counts
      <3>1. mWriteLock' = t /\ posting' = posting /\ evWake' = evWake + posting[t]
        BY <1>1, <2>1 DEF PostWrite
      <3>2. evWake \in Nat /\ posting[t] \in Nat
        BY DEF TypeOK
      <3> QED
        BY <3>1, <3>2 DEF WrittenInv
    <2>2. CASE ~counts
      BY <1>1, <2>2 DEF PostWrite, WrittenInv
    <2> QED
      BY <2>1, <2>2
  <1>2. ASSUME NEW t \in Thread, PostUpdate(t) PROVE WrittenInv'
    BY <1>2 DEF PostUpdate, WrittenInv
  <1>3. CASE InitReplace
    <2>1. pc[Binder] = "replace"
      BY <1>3 DEF InitReplace
    <2>2. \A t \in Thread : pc[t] # "update"
      <3>1. \A s \in Sensor : ~Samples(s)
        BY <2>1 DEF Inv, DisabledInv, Samples
      <3> QED
        BY <2>1, <3>1 DEF Inv, NoSampleWhenDisabled
    <2>3. mWriteLock = None
      BY <2>2 DEF TypeOK, WriteLockInv
    <2> QED
      BY <1>3, <2>3 DEF InitReplace, WrittenInv
  <1>4. CASE FwReadWake
    <2>1. mWriteLock = None
      <3>1. evWake' # evWake
        BY <1>4 DEF FwReadWake, TypeOK
      <3>2. ~UNCHANGED vars
        BY <3>1 DEF vars
      <3> QED
        BY <1>4, <3>2
    <2> QED
      BY <1>4, <2>1 DEF FwReadWake, WrittenInv
  <1>5. ASSUME UNCHANGED <<evWake, mWriteLock>>,
               mWriteLock # None => posting'[mWriteLock] = posting[mWriteLock]
        PROVE  WrittenInv'
    BY <1>5 DEF WrittenInv
  <1>6. ASSUME NEW s \in Sensor, RunSample(s) PROVE WrittenInv'
    <2>1. mWriteLock # s
      BY <1>6 DEF RunSample, WriteLockInv
    <2>2. mWriteLock # None => posting'[mWriteLock] = posting[mWriteLock]
      BY <1>6, <2>1 DEF RunSample, TypeOK
    <2> QED
      BY <1>5, <1>6, <2>2 DEF RunSample
  <1>7. ASSUME NEW s \in Sensor, Flush(s) \/ InjectSensorData(s) PROVE WrittenInv'
    <2>1. pc[Binder] = "idle" /\ BinderPosts(s)
      BY <1>7 DEF Flush, InjectSensorData, Called
    <2>2. mWriteLock # Binder
      BY <2>1 DEF WriteLockInv
    <2>3. mWriteLock # None => posting'[mWriteLock] = posting[mWriteLock]
      BY <2>1, <2>2 DEF BinderPosts, TypeOK
    <2> QED
      BY <1>5, <2>1, <2>3 DEF BinderPosts
  <1>8. CASE UNCHANGED <<evWake, mWriteLock, posting>>
    BY <1>5, <1>8
  <1>9. CASE Call
    <2>1. \/ \E s \in Sensor : Flush(s) \/ InjectSensorData(s)
          \/ UNCHANGED <<evWake, mWriteLock, posting>>
      BY <1>9 DEF Call, Activate, SetOperationMode, Initialize
    <2> QED
      BY <1>7, <1>8, <2>1
  <1>10. CASE BinderStep
    <2>1. InitReplace \/ UNCHANGED <<evWake, mWriteLock, posting>>
      BY <1>10 DEF BinderStep, ActivateClear, SetModeStep, SetModeDone, InitDisable,
         InitDisabled, InitStop, InitJoin, InitCreate, InitStart
    <2> QED
      BY <1>3, <1>8, <2>1
  <1>11. CASE \E s \in Sensor : Run(s)
    <2>1. (\E s \in Sensor : RunSample(s)) \/ UNCHANGED <<evWake, mWriteLock, posting>>
      BY <1>11 DEF Run, RunExit, RunWait
    <2> QED
      BY <1>6, <1>8, <2>1
  <1>12. CASE \/ Reader \/ Tick \/ FwReadOther \/ FwRestart
              \/ \E n \in 1 .. fwUnacked : FwAck(n)
              \/ UNCHANGED vars
    <2>1. UNCHANGED <<evWake, mWriteLock, posting>>
      BY <1>12 DEF Reader, ReaderStart, ReaderRead, ReaderTimeout, ReaderApply,
         Tick, FwReadOther, FwRestart, FwAck, vars
    <2> QED
      BY <1>8, <2>1
  <1> QED
    BY <1>1, <1>2, <1>4, <1>9, <1>10, <1>11, <1>12 DEF Next

\* An event raises the count after it was acknowledged only if the framework read
\* it between the write and the count of postEvents.
THEOREM PhantomOnlyByEarlyRead == Spec /\ ReadsAfterCount => NoPhantomCount
  <1> DEFINE Phantomless == \A t \in Thread :
                 PostUpdate(t) /\ fw = "up" /\ Unhandled = 0
                     => mOutstandingWakeUpEvents' <= mOutstandingWakeUpEvents
  <1>1. Init => WrittenInv
    BY DEF Init, WrittenInv
  <1>2. Inv /\ WrittenInv /\ [Next]_vars /\ [FwReadWake => mWriteLock = None]_vars
            => WrittenInv'
    BY WrittenStep
  <1>3. Inv /\ WrittenInv => Phantomless
    <2> SUFFICES ASSUME Inv, WrittenInv, NEW t \in Thread, PostUpdate(t), Unhandled = 0
                 PROVE  mOutstandingWakeUpEvents' <= mOutstandingWakeUpEvents
      OBVIOUS
    <2>1. /\ mOutstandingWakeUpEvents \in Nat /\ evWake \in Nat /\ fwUnacked \in Nat
          /\ ackSum \in Nat /\ eventsHandled \in Nat /\ posting[t] \in {0, 1}
      BY DEF Inv, TypeOK
    <2>2. mWriteLock = t /\ mWriteLock # None
      BY DEF Inv, WriteLockInv, PostUpdate
    <2>3. posting[t] = 0
      BY <2>1, <2>2 DEF WrittenInv, Unhandled
    <2>4. mOutstandingWakeUpEvents' = Kept(0, 0)
      BY <2>3 DEF PostUpdate, UpdateWakeLock
    <2>5. Kept(0, 0) <= mOutstandingWakeUpEvents
      BY <2>1 DEF Kept, Counted
    <2> QED
      BY <2>4, <2>5
  <1>4. Inv /\ WrittenInv /\ [Next]_vars => [Phantomless]_vars
    BY <1>3
  <1> QED
    BY <1>1, <1>2, <1>4, InvHolds, PTL DEF Spec, ReadsAfterCount, NoPhantomCount
=============================================================================
