---------------------------- MODULE SensorsHal ----------------------------
(***************************************************************************)
(* The default implementation of the sensors 2.0 HAL: class Sensors        *)
(* (sensors/2.0/default/Sensors.cpp) and the Sensor and OnChangeSensor     *)
(* objects it owns (Sensor.cpp).                                           *)
(*                                                                         *)
(* Actors.  One binder thread runs the HIDL calls one after the other      *)
(* (service.cpp configures a pool of one thread).  Every sensor has a run  *)
(* thread that samples it.  A wake-lock thread reads what the framework    *)
(* acknowledges.  The framework and the clock are the environment.         *)
(*                                                                         *)
(* A std::mutex section that touches only what the mutex protects is one   *)
(* step.  A run thread holds its sensor's mRunMutex in "write" and         *)
(* "update", and has released it (or not yet taken it) elsewhere.  An      *)
(* event is not represented: the queues are counts of the wake-up events,  *)
(* of the other events, and of acknowledgement messages and their total.   *)
(***************************************************************************)
EXTENDS Naturals, Integers, FiniteSets

CONSTANTS
    Sensor,             \* the sensors that the constructor adds
    WakeUp,             \* those with SensorFlagBits::WAKE_UP
    OnChange,           \* those that are an OnChangeSensor
    OneShot,            \* those with SensorFlagBits::ONE_SHOT_MODE
    DataInjection,      \* those with SensorFlagBits::DATA_INJECTION
    Binder,             \* the binder thread
    None,               \* no thread, no sensor
    EventQueueSize,     \* capacity of the Event FMQ
    WakeLockQueueSize,  \* capacity of the Wake Lock FMQ
    PowerCallOK,        \* the outcomes of acquire_wake_lock and release_wake_lock
    MaxOutstanding,     \* bound: no wake-up event is posted above this count
    MaxUnacked          \* bound: the framework reads no more before it acknowledges

Thread == Sensor \cup {Binder}
Mode == {"NORMAL", "DATA_INJECTION"}

ASSUME SensorsAssumption ==
    /\ WakeUp \subseteq Sensor
    /\ OnChange \subseteq Sensor
    /\ OneShot \subseteq Sensor
    /\ DataInjection \subseteq Sensor
    /\ Binder \notin Sensor
    /\ None \notin Thread
    /\ EventQueueSize \in Nat \ {0}
    /\ WakeLockQueueSize \in Nat \ {0}
    /\ MaxOutstanding \in Nat \ {0}
    /\ MaxUnacked \in Nat \ {0}
    /\ PowerCallOK \subseteq BOOLEAN /\ TRUE \in PowerCallOK

VARIABLES
    mIsEnabled,         \* Sensor::mIsEnabled
    mMode,              \* Sensor::mMode
    mPreviousEventSet,  \* OnChangeSensor::mPreviousEventSet
    mStopThread,        \* Sensor::mStopThread, which no constructor initialises
    pc,                 \* where each run thread and the binder thread are
    posting,            \* size of the vector a thread hands to postEvents
    bSensor,            \* binder: the sensor of the call, or of the loop's iteration
    bTodo,              \* binder: the sensors the loop over mSensors has still to visit
    bMode,              \* binder: the argument of setOperationMode
    mWriteLock,         \* the holder of Sensors::mWriteLock
    mEventQueueFlag,    \* Sensors::mEventQueueFlag: "null" or "set"
    evWake,             \* wake-up events in the Event FMQ
    evOther,            \* other events in the Event FMQ
    ackMsgs,            \* messages in the Wake Lock FMQ
    ackSum,             \* the total of those messages
    wakePc,             \* where the wake-lock thread is
    eventsHandled,      \* local of readWakeLockFMQ
    mReadWakeLockQueueRun,
    mOutstandingWakeUpEvents,
    mHasWakeLock,
    autoReleaseElapsed, \* uptimeMillis() > mAutoReleaseWakeLockTime
    fw,                 \* the framework: "down", "calling" initialize, or "up"
    fwUnacked,          \* wake-up events the framework read and did not acknowledge
    synced,             \* history: no unhandled event was dropped by an auto release
    acquireFailed       \* history: the last acquire_wake_lock failed

sensorVars == <<mIsEnabled, mMode, mPreviousEventSet, mStopThread>>
callVars   == <<bSensor, bTodo, bMode>>
eventVars  == <<evWake, evOther, mEventQueueFlag>>
ackVars    == <<ackMsgs, ackSum>>
readerVars == <<wakePc, eventsHandled, mReadWakeLockQueueRun>>
lockVars   == <<mOutstandingWakeUpEvents, mHasWakeLock, autoReleaseElapsed,
                synced, acquireFailed>>
fwVars     == <<fw, fwUnacked>>
postVars   == <<posting, mWriteLock>>
vars == <<sensorVars, pc, callVars, eventVars, ackVars, readerVars, lockVars,
          fwVars, postVars>>

----------------------------------------------------------------------------
(* What the definitions and the properties talk about. *)

RunPc    == {"unlocked", "waiting", "write", "update", "exited"}
BinderPc == {"idle", "write", "update", "clear", "mode", "disable", "stop",
             "join", "replace", "create", "start"}

\* mRunMutex of s is free, so that the binder thread can take it.
RunMutexFree(s) == pc[s] \notin {"write", "update"}

\* The run thread of s is in postEvents, or the binder thread is.
Posting(t) == pc[t] \in {"write", "update"}

\* isWakeUpSensor() of the sensor for which thread t posts.
Wakes(t) == IF t = Binder THEN bSensor \in WakeUp ELSE t \in WakeUp

\* Wake-up events that were written and that the HAL has not yet been told of,
\* or has been told of and not yet taken off its count.
Unhandled == evWake + fwUnacked + ackSum + eventsHandled

\* The wake-up events that postEvents has written and not yet counted.
InPost == IF mWriteLock = None THEN 0 ELSE posting[mWriteLock]

----------------------------------------------------------------------------
(* Every sensor is built disabled, in normal mode, and its run thread is   *)
(* started; mStopThread has whatever value the memory had.                 *)
Init ==
    /\ mIsEnabled = [s \in Sensor |-> FALSE]
    /\ mMode = [s \in Sensor |-> "NORMAL"]
    /\ mPreviousEventSet = [s \in Sensor |-> FALSE]
    /\ mStopThread \in [Sensor -> BOOLEAN]
    /\ pc = [t \in Thread |-> IF t = Binder THEN "idle" ELSE "unlocked"]
    /\ posting = [t \in Thread |-> 0]
    /\ bSensor = None /\ bTodo = {} /\ bMode = "NORMAL"
    /\ mWriteLock = None
    /\ mEventQueueFlag = "null"
    /\ evWake = 0 /\ evOther = 0 /\ ackMsgs = 0 /\ ackSum = 0
    /\ wakePc = "exited" /\ eventsHandled = 0
    /\ mReadWakeLockQueueRun = FALSE
    /\ mOutstandingWakeUpEvents = 0 /\ mHasWakeLock = FALSE
    /\ autoReleaseElapsed = TRUE
    /\ fw = "down" /\ fwUnacked = 0
    /\ synced = TRUE /\ acquireFailed = FALSE

----------------------------------------------------------------------------
(* updateWakeLock(written, handled): the count, the time of the automatic  *)
(* release and the wake lock, under mWakeLockLock.  `left' is what the     *)
(* caller leaves unhandled.                                                *)

\* Mutant: the difference is stored as it is.
CountedNoClamp(written, handled) == mOutstandingWakeUpEvents + written - handled

Counted(written, handled) ==
    LET newVal == mOutstandingWakeUpEvents + written - handled
    IN  IF newVal < 0 THEN 0 ELSE newVal

Elapsed(written) == autoReleaseElapsed /\ written = 0

AutoReleases(written) == mHasWakeLock /\ Elapsed(written)

\* Mutant: an acknowledgement is subtracted twice.
KeptTwice(written, handled) ==
    IF AutoReleases(written) THEN 0 ELSE Counted(written, handled + handled)

\* Mutant: the automatic release is missing.
KeptNoAutoRelease(written, handled) == Counted(written, handled)

Kept(written, handled) ==
    IF AutoReleases(written) THEN 0 ELSE Counted(written, handled)

\* Mutant: the lock is released when one event is still outstanding.
PowerCallsReleaseAtOne(kept) ==
    \/ /\ ~mHasWakeLock /\ kept > 0
       /\ \E ok \in PowerCallOK : mHasWakeLock' = ok /\ acquireFailed' = ~ok
    \/ /\ mHasWakeLock /\ kept <= 1
       /\ \E ok \in PowerCallOK : mHasWakeLock' = ~ok
       /\ UNCHANGED acquireFailed
    \/ /\ mHasWakeLock <=> kept > 1
       /\ UNCHANGED <<mHasWakeLock, acquireFailed>>

PowerCalls(kept) ==
    \/ /\ ~mHasWakeLock /\ kept > 0
       /\ \E ok \in PowerCallOK : mHasWakeLock' = ok /\ acquireFailed' = ~ok
    \/ /\ mHasWakeLock /\ kept = 0
       /\ \E ok \in PowerCallOK : mHasWakeLock' = ~ok
       /\ UNCHANGED acquireFailed
    \/ /\ mHasWakeLock <=> kept > 0
       /\ UNCHANGED <<mHasWakeLock, acquireFailed>>

UpdateWakeLock(written, handled, left) ==
    LET kept == Kept(written, handled)
    IN  /\ mOutstandingWakeUpEvents' = kept
        /\ autoReleaseElapsed' = Elapsed(written)
        /\ PowerCalls(kept)
        /\ synced' = (\/ left = 0
                      \/ /\ synced
                         /\ AutoReleases(written) => Counted(written, handled) = 0)

----------------------------------------------------------------------------
(* postEvents: both of its steps hold mWriteLock.  The first writes the    *)
(* vector to the Event FMQ, which takes all of it or nothing; the second   *)
(* counts the events of a wake-up sensor.  In between the framework may    *)
(* already have read, handled and acknowledged them.                       *)

AfterPost(t) == IF t = Binder THEN "idle" ELSE "unlocked"

PostWrite(t) ==
    /\ pc[t] = "write"
    /\ mWriteLock = None
    /\ mEventQueueFlag = "set"
    /\ LET fits == evWake + evOther + posting[t] <= EventQueueSize
           counts == fits /\ Wakes(t)
       IN /\ evWake' = evWake + (IF counts THEN posting[t] ELSE 0)
          /\ evOther' = evOther + (IF fits /\ ~Wakes(t) THEN posting[t] ELSE 0)
          /\ mWriteLock' = IF counts THEN t ELSE None
          /\ pc' = [pc EXCEPT ![t] = IF counts THEN "update" ELSE AfterPost(t)]
          /\ posting' = IF counts THEN posting ELSE [posting EXCEPT ![t] = 0]
          /\ bSensor' = IF t = Binder /\ ~counts THEN None ELSE bSensor
    /\ UNCHANGED <<sensorVars, bTodo, bMode, mEventQueueFlag, ackVars,
                   readerVars, lockVars, fwVars>>

PostUpdate(t) ==
    /\ pc[t] = "update"
    /\ UpdateWakeLock(posting[t], 0, Unhandled)
    /\ mWriteLock' = None
    /\ pc' = [pc EXCEPT ![t] = AfterPost(t)]
    /\ posting' = [posting EXCEPT ![t] = 0]
    /\ bSensor' = IF t = Binder THEN None ELSE bSensor
    /\ UNCHANGED <<sensorVars, bTodo, bMode, eventVars, ackVars, readerVars,
                   fwVars>>

----------------------------------------------------------------------------
(* Sensor::run, one turn of its loop.  A turn that finds the sample not    *)
(* yet due only goes back to wait_for, which changes nothing here: when a  *)
(* sample is due is left open, and batch with it (see SensorBatch).        *)

RunExit(s) ==
    /\ pc[s] = "unlocked" /\ mStopThread[s]
    /\ pc' = [pc EXCEPT ![s] = "exited"]
    /\ UNCHANGED <<sensorVars, callVars, eventVars, ackVars, readerVars,
                   lockVars, fwVars, postVars>>

Samples(s) == mIsEnabled[s] /\ mMode[s] = "NORMAL"

RunWait(s) ==
    /\ pc[s] = "unlocked" /\ ~mStopThread[s]
    /\ ~Samples(s)
    /\ pc' = [pc EXCEPT ![s] = "waiting"]
    /\ UNCHANGED <<sensorVars, callVars, eventVars, ackVars, readerVars,
                   lockVars, fwVars, postVars>>

\* readEvents() reads the same three values every time, so an on-change sensor
\* hands over an empty vector unless it reports for the first time.
RunSample(s) ==
    /\ pc[s] = "unlocked" /\ ~mStopThread[s]
    /\ Samples(s)
    /\ s \in WakeUp => mOutstandingWakeUpEvents < MaxOutstanding
    /\ posting' = [posting EXCEPT
                     ![s] = IF s \in OnChange /\ mPreviousEventSet[s] THEN 0 ELSE 1]
    /\ mPreviousEventSet' = [mPreviousEventSet EXCEPT ![s] = @ \/ s \in OnChange]
    /\ pc' = [pc EXCEPT ![s] = "write"]
    /\ UNCHANGED <<mIsEnabled, mMode, mStopThread, callVars, eventVars, ackVars,
                   readerVars, lockVars, fwVars, mWriteLock>>

----------------------------------------------------------------------------
(* readWakeLockFMQ, the wake-lock thread.  The loop's test of              *)
(* mReadWakeLockQueueRun is a step of its own when the thread starts, and  *)
(* part of the step before it afterwards.                                  *)

\* Mutant: the loop does not look at the flag again.
ReaderLoopForever == "read"

ReaderLoop == IF mReadWakeLockQueueRun THEN "read" ELSE "exited"

ReaderStart ==
    /\ wakePc = "started"
    /\ wakePc' = ReaderLoop
    /\ UNCHANGED <<sensorVars, pc, callVars, eventVars, ackVars, eventsHandled,
                   mReadWakeLockQueueRun, lockVars, fwVars, postVars>>

\* One message is read.  Every message counts at least one event; the counts of
\* the single messages are not kept, only how many there are and their total.
ReaderRead ==
    /\ wakePc = "read" /\ ackMsgs > 0
    /\ \E n \in 1 .. (ackSum - ackMsgs + 1) :
         /\ ackMsgs = 1 => n = ackSum
         /\ eventsHandled' = n
         /\ ackSum' = ackSum - n
         /\ ackMsgs' = ackMsgs - 1
    /\ wakePc' = "apply"
    /\ UNCHANGED <<sensorVars, pc, callVars, eventVars, mReadWakeLockQueueRun,
                   lockVars, fwVars, postVars>>

\* Nothing arrives within kReadTimeoutNs: eventsHandled stays zero.
ReaderTimeout ==
    /\ wakePc = "read" /\ ackMsgs = 0
    /\ wakePc' = "apply"
    /\ UNCHANGED <<sensorVars, pc, callVars, eventVars, ackVars, eventsHandled,
                   mReadWakeLockQueueRun, lockVars, fwVars, postVars>>

ReaderApply ==
    /\ wakePc = "apply"
    /\ UpdateWakeLock(0, eventsHandled, Unhandled - eventsHandled)
    /\ eventsHandled' = 0
    /\ wakePc' = ReaderLoop
    /\ UNCHANGED <<sensorVars, pc, callVars, eventVars, ackVars,
                   mReadWakeLockQueueRun, fwVars, postVars>>

Reader == ReaderStart \/ ReaderRead \/ ReaderTimeout \/ ReaderApply

----------------------------------------------------------------------------
(* Sensor::activate.  notify_all wakes a run thread in wait(); one in      *)
(* wait_for() is already modelled as able to run.                          *)

Notified(s) == [pc EXCEPT ![s] = IF @ = "waiting" THEN "unlocked" ELSE @]

\* Mutant: the flag is set without taking mRunMutex.
SensorActivateNoLock(s, enable) ==
    /\ mIsEnabled' = [mIsEnabled EXCEPT ![s] = enable]
    /\ pc' = [(IF mIsEnabled[s] # enable THEN Notified(s) ELSE pc)
                EXCEPT ![Binder] = "clear"]

\* Mutant: the waiting run thread is not notified.
SensorActivateNoNotify(s, enable) ==
    /\ mIsEnabled[s] # enable => RunMutexFree(s)
    /\ mIsEnabled' = [mIsEnabled EXCEPT ![s] = enable]
    /\ pc' = [pc EXCEPT ![Binder] = "clear"]

SensorActivate(s, enable) ==
    /\ mIsEnabled[s] # enable => RunMutexFree(s)
    /\ mIsEnabled' = [mIsEnabled EXCEPT ![s] = enable]
    /\ pc' = [(IF mIsEnabled[s] # enable THEN Notified(s) ELSE pc)
                EXCEPT ![Binder] = "clear"]

\* A call of the framework reaches the idle binder thread.
Called == fw = "up" /\ pc[Binder] = "idle"

Activate(s, enable) ==
    /\ Called
    /\ SensorActivate(s, enable)
    /\ bSensor' = s
    /\ UNCHANGED <<mMode, mPreviousEventSet, mStopThread, bTodo, bMode, eventVars,
                   ackVars, readerVars, lockVars, fwVars, postVars>>

\* Mutant: an on-change sensor does not forget what it reported.
ForgetsNever(s) == FALSE

\* OnChangeSensor::activate, after Sensor::activate has released mRunMutex.
Forgets(s) == s \in OnChange /\ ~mIsEnabled[s]

ActivateClear ==
    /\ pc[Binder] = "clear"
    /\ mPreviousEventSet' = [mPreviousEventSet EXCEPT
                               ![bSensor] = @ /\ ~Forgets(bSensor)]
    /\ pc' = [pc EXCEPT ![Binder] = IF fw = "calling" THEN "disable" ELSE "idle"]
    /\ bSensor' = None
    /\ UNCHANGED <<mIsEnabled, mMode, mStopThread, bTodo, bMode, eventVars,
                   ackVars, readerVars, lockVars, fwVars, postVars>>

----------------------------------------------------------------------------
(* Sensors::setOperationMode: a loop over the sensors, each under its      *)
(* mRunMutex, so a run thread can see the sensors in different modes.      *)

SetOperationMode(mode) ==
    /\ Called
    /\ pc' = [pc EXCEPT ![Binder] = "mode"]
    /\ bTodo' = Sensor
    /\ bMode' = mode
    /\ UNCHANGED <<sensorVars, bSensor, eventVars, ackVars, readerVars,
                   lockVars, fwVars, postVars>>

SetModeStep(s) ==
    /\ pc[Binder] = "mode" /\ s \in bTodo
    /\ mMode[s] # bMode => RunMutexFree(s)
    /\ mMode' = [mMode EXCEPT ![s] = bMode]
    /\ pc' = IF mMode[s] # bMode THEN Notified(s) ELSE pc
    /\ bTodo' = bTodo \ {s}
    /\ UNCHANGED <<mIsEnabled, mPreviousEventSet, mStopThread, bSensor, bMode,
                   eventVars, ackVars, readerVars, lockVars, fwVars, postVars>>

SetModeDone ==
    /\ pc[Binder] = "mode" /\ bTodo = {}
    /\ pc' = [pc EXCEPT ![Binder] = "idle"]
    /\ bMode' = "NORMAL"
    /\ UNCHANGED <<sensorVars, bSensor, bTodo, eventVars, ackVars, readerVars,
                   lockVars, fwVars, postVars>>

----------------------------------------------------------------------------
(* flush and injectSensorData post from the binder thread.  A call that    *)
(* they refuse changes nothing.                                            *)

BinderPosts(s) ==
    /\ s \in WakeUp => mOutstandingWakeUpEvents < MaxOutstanding
    /\ bSensor' = s
    /\ posting' = [posting EXCEPT ![Binder] = 1]
    /\ pc' = [pc EXCEPT ![Binder] = "write"]
    /\ UNCHANGED <<sensorVars, bTodo, bMode, eventVars, ackVars, readerVars,
                   lockVars, fwVars, mWriteLock>>

Flush(s) ==
    /\ Called
    /\ mIsEnabled[s] /\ s \notin OneShot
    /\ BinderPosts(s)

InjectSensorData(s) ==
    /\ Called
    /\ s \in DataInjection /\ mMode[s] = "DATA_INJECTION"
    /\ BinderPosts(s)

----------------------------------------------------------------------------
(* Sensors::initialize. *)

\* Mutant: the sensors are not disabled first.
ToDisableNone == {}

ToDisable == Sensor

Initialize ==
    /\ fw = "down" /\ pc[Binder] = "idle"
    /\ fw' = "calling"
    /\ pc' = [pc EXCEPT ![Binder] = "disable"]
    /\ bTodo' = ToDisable
    /\ UNCHANGED <<sensorVars, bSensor, bMode, eventVars, ackVars, readerVars,
                   lockVars, fwUnacked, postVars>>

InitDisable(s) ==
    /\ pc[Binder] = "disable" /\ s \in bTodo
    /\ SensorActivate(s, FALSE)
    /\ bSensor' = s
    /\ bTodo' = bTodo \ {s}
    /\ UNCHANGED <<mMode, mPreviousEventSet, mStopThread, bMode, eventVars,
                   ackVars, readerVars, lockVars, fwVars, postVars>>

InitDisabled ==
    /\ pc[Binder] = "disable" /\ bTodo = {}
    /\ pc' = [pc EXCEPT ![Binder] = "stop"]
    /\ UNCHANGED <<sensorVars, callVars, eventVars, ackVars, readerVars,
                   lockVars, fwVars, postVars>>

InitStop ==
    /\ pc[Binder] = "stop"
    /\ pc' = [pc EXCEPT ![Binder] =
                IF mReadWakeLockQueueRun THEN "join" ELSE "replace"]
    /\ mReadWakeLockQueueRun' = FALSE
    /\ UNCHANGED <<sensorVars, callVars, eventVars, ackVars, wakePc,
                   eventsHandled, lockVars, fwVars, postVars>>

\* Mutant: the thread is asked to stop and not joined.
JoinedAlways == TRUE

Joined == wakePc = "exited"

InitJoin ==
    /\ pc[Binder] = "join" /\ Joined
    /\ pc' = [pc EXCEPT ![Binder] = "replace"]
    /\ UNCHANGED <<sensorVars, callVars, eventVars, ackVars, readerVars,
                   lockVars, fwVars, postVars>>

\* The old Event FMQ and its EventFlag are gone.
InitReplace ==
    /\ pc[Binder] = "replace"
    /\ evWake' = 0 /\ evOther' = 0
    /\ mEventQueueFlag' = "null"
    /\ pc' = [pc EXCEPT ![Binder] = "create"]
    /\ UNCHANGED <<sensorVars, callVars, ackVars, readerVars, lockVars, fwVars,
                   postVars>>

\* createEventFlag may fail; the Wake Lock FMQ is replaced either way.
InitCreate ==
    /\ pc[Binder] = "create"
    /\ mEventQueueFlag' \in {"null", "set"}
    /\ ackMsgs' = 0 /\ ackSum' = 0
    /\ pc' = [pc EXCEPT ![Binder] = "start"]
    /\ UNCHANGED <<sensorVars, callVars, evWake, evOther, readerVars, lockVars,
                   fwVars, postVars>>

\* The wake-lock thread is started whatever the result.  A framework that is
\* answered BAD_VALUE makes no other call before it initializes again.
InitStart ==
    /\ pc[Binder] = "start"
    /\ mReadWakeLockQueueRun' = TRUE
    /\ wakePc' = "started"
    /\ fw' = IF mEventQueueFlag = "set" THEN "up" ELSE "down"
    /\ pc' = [pc EXCEPT ![Binder] = "idle"]
    /\ synced' = TRUE
    /\ UNCHANGED <<sensorVars, callVars, eventVars, ackVars, eventsHandled,
                   mOutstandingWakeUpEvents, mHasWakeLock, autoReleaseElapsed,
                   acquireFailed, fwUnacked, postVars>>

----------------------------------------------------------------------------
(* The environment: the clock and the framework. *)

\* WAKE_LOCK_SECONDS go by after the last wake-up event was counted.
Tick ==
    /\ ~autoReleaseElapsed
    /\ autoReleaseElapsed' = TRUE
    /\ UNCHANGED <<sensorVars, pc, callVars, eventVars, ackVars, readerVars,
                   mOutstandingWakeUpEvents, mHasWakeLock, synced,
                   acquireFailed, fwVars, postVars>>

FwReadWake ==
    /\ fw = "up" /\ evWake > 0 /\ fwUnacked < MaxUnacked
    /\ evWake' = evWake - 1
    /\ fwUnacked' = fwUnacked + 1
    /\ UNCHANGED <<sensorVars, pc, callVars, evOther, mEventQueueFlag, ackVars,
                   readerVars, lockVars, fw, postVars>>

FwReadOther ==
    /\ fw = "up" /\ evOther > 0
    /\ evOther' = evOther - 1
    /\ UNCHANGED <<sensorVars, pc, callVars, evWake, mEventQueueFlag, ackVars,
                   readerVars, lockVars, fwVars, postVars>>

\* The framework holds a wake lock of its own for n events and says so.
FwAck(n) ==
    /\ fw = "up" /\ n \in 1 .. fwUnacked /\ ackMsgs < WakeLockQueueSize
    /\ ackMsgs' = ackMsgs + 1
    /\ ackSum' = ackSum + n
    /\ fwUnacked' = fwUnacked - n
    /\ UNCHANGED <<sensorVars, pc, callVars, eventVars, readerVars, lockVars,
                   fw, postVars>>

\* The framework dies.  What it had read is lost with it; its queues stay
\* mapped here, and a call that is running runs on.
FwRestart ==
    /\ fw = "up"
    /\ fw' = "down" /\ fwUnacked' = 0
    /\ UNCHANGED <<sensorVars, pc, callVars, eventVars, ackVars, readerVars,
                   lockVars, postVars>>

----------------------------------------------------------------------------
\* The steps of a call that the binder thread has started.
BinderStep ==
    \/ ActivateClear
    \/ \E s \in Sensor : SetModeStep(s)
    \/ SetModeDone
    \/ \E s \in Sensor : InitDisable(s)
    \/ InitDisabled \/ InitStop \/ InitJoin \/ InitReplace \/ InitCreate
    \/ InitStart

Call ==
    \/ \E s \in Sensor, enable \in BOOLEAN : Activate(s, enable)
    \/ \E mode \in Mode : SetOperationMode(mode)
    \/ \E s \in Sensor : Flush(s) \/ InjectSensorData(s)
    \/ Initialize

Run(s) == RunExit(s) \/ RunWait(s) \/ RunSample(s)

Next ==
    \/ Call
    \/ BinderStep
    \/ \E s \in Sensor : Run(s)
    \/ \E t \in Thread : PostWrite(t) \/ PostUpdate(t)
    \/ Reader
    \/ Tick
    \/ FwReadWake \/ FwReadOther
    \/ \E n \in 1 .. fwUnacked : FwAck(n)
    \/ FwRestart

Spec == Init /\ [][Next]_vars

(***************************************************************************)
(* Fairness.  The threads are scheduled.  A std::mutex is not fair, but a   *)
(* run thread sleeps in wait_for between two samples and postEvents holds   *)
(* mWriteLock for two short steps, so whoever waits for one of them gets it *)
(* (strong fairness).  An enabled sensor's sample comes due.  Time goes by. *)
(* The framework may be silent.                                             *)
(***************************************************************************)
Fairness ==
    /\ SF_vars(BinderStep)
    /\ \A s \in Sensor : WF_vars(RunWait(s)) /\ SF_vars(RunSample(s))
    /\ \A t \in Thread : SF_vars(PostWrite(t)) /\ WF_vars(PostUpdate(t))
    /\ WF_vars(Reader)
    /\ WF_vars(Tick)

FairSpec == Spec /\ Fairness

----------------------------------------------------------------------------
(* Properties. *)

\* Every variable has its type.
TypeOK ==
    /\ mIsEnabled \in [Sensor -> BOOLEAN]
    /\ mMode \in [Sensor -> Mode]
    /\ mPreviousEventSet \in [Sensor -> BOOLEAN]
    /\ mStopThread \in [Sensor -> BOOLEAN]
    /\ pc \in [Thread -> RunPc \cup BinderPc]
    /\ pc[Binder] \in BinderPc
    /\ \A s \in Sensor : pc[s] \in RunPc
    /\ posting \in [Thread -> {0, 1}]
    /\ bSensor \in Sensor \cup {None}
    /\ bTodo \subseteq Sensor
    /\ bMode \in Mode
    /\ mWriteLock \in Thread \cup {None}
    /\ mEventQueueFlag \in {"null", "set"}
    /\ evWake \in Nat /\ evOther \in Nat
    /\ evWake + evOther <= EventQueueSize
    /\ ackMsgs \in 0 .. WakeLockQueueSize
    /\ ackSum \in Nat /\ fwUnacked \in Nat /\ eventsHandled \in Nat
    /\ wakePc \in {"started", "read", "apply", "exited"}
    /\ mReadWakeLockQueueRun \in BOOLEAN
    /\ mOutstandingWakeUpEvents \in Nat
    /\ mHasWakeLock \in BOOLEAN
    /\ autoReleaseElapsed \in BOOLEAN
    /\ fw \in {"down", "calling", "up"}
    /\ synced \in BOOLEAN /\ acquireFailed \in BOOLEAN

\* The HAL's count never falls below the wake-up events that are still
\* unhandled, except for those that postEvents is about to count and unless an
\* automatic release has given some of them up: the clamp at zero in
\* updateWakeLock can only make the count too high.
OutstandingCovers ==
    synced => mOutstandingWakeUpEvents + InPost >= Unhandled

\* The HAL holds its wake lock while a wake-up event that postEvents has counted
\* is unhandled, so the device does not suspend under it, unless the kernel
\* refused the lock or the automatic release has given up.
WakeLockCovers ==
    synced /\ ~acquireFailed /\ Unhandled > InPost => mHasWakeLock

\* A run thread posts only while its sensor is enabled and in normal mode:
\* activate(false) and setOperationMode return with no sample under way.
NoSampleWhenDisabled ==
    \A s \in Sensor : pc[s] \in {"write", "update"} => Samples(s)

\* Nobody is inside postEvents while initialize replaces the Event FMQ and its
\* EventFlag, nor before the first initialize: postEvents dereferences both
\* with no test.
NoPostWithoutQueue ==
    \A t \in Thread : Posting(t) =>
        mEventQueueFlag = "set" /\ pc[Binder] \notin {"replace", "create", "start"}

\* The wake-lock thread is not running while initialize replaces the queue it
\* reads, and there is never a second one.
OneReader ==
    /\ pc[Binder] \in {"replace", "create", "start"} => wakePc = "exited"
    /\ ~mReadWakeLockQueueRun /\ wakePc # "exited" => pc[Binder] = "join"

\* An on-change sensor that is enabled has forgotten what it reported before it
\* was disabled, so its first sample is reported.
FreshOnEnable ==
    [][\A s \in OnChange :
         ~mIsEnabled[s] /\ mIsEnabled'[s] => ~mPreviousEventSet'[s]]_vars

\* initialize returns: its loop gets every mRunMutex and the wake-lock thread
\* sees that it has to stop.
InitializeReturns == fw = "calling" ~> fw # "calling"

\* Once the wake-up sensors stay off and the framework does not initialize
\* again, the wake lock is released for good, even if the framework never
\* acknowledges an event.
WakeLockReleased ==
    <>[](fw # "calling" /\ \A s \in WakeUp : ~mIsEnabled[s] /\ mMode[s] = "NORMAL")
        => <>[]~mHasWakeLock

\* A sensor that stays enabled in normal mode is sampled again and again, if its
\* run thread did not find a stray value in mStopThread.
EnabledSensorReports ==
    \A s \in Sensor :
        (~mStopThread[s] /\ <>[]Samples(s)) => []<>(pc[s] = "write")

----------------------------------------------------------------------------
(* What the HAL interface says and this implementation does not do.        *)

\* ISensors.hal: the count must be updated before the event is posted, "to
\* avoid a race condition that can lead to loss of wake lock synchronization".
\* In sync, an event that the framework has already acknowledged, with nothing
\* else unhandled, does not raise the count.
NoPhantomCount ==
    [][\A t \in Thread : PostUpdate(t) /\ fw = "up" /\ Unhandled = 0
         => mOutstandingWakeUpEvents' <= mOutstandingWakeUpEvents]_vars

\* ISensors.hal: initialize resets the number of outstanding wake-up events and
\* releases the wake lock.
InitializeResets ==
    [][fw = "calling" /\ fw' # "calling" =>
         mOutstandingWakeUpEvents' = 0 /\ ~mHasWakeLock']_vars
============================================================================
