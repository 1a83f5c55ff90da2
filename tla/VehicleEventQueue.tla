------------------------- MODULE VehicleEventQueue -------------------------
(***************************************************************************)
(* The queue of HAL events and the thread that batches them                *)
(* (automotive/vehicle/2.0/default/common/include/vhal_v2_0/               *)
(* ConcurrentQueue.h).  A critical section of the queue's mLock is one     *)
(* step, together with the notification after it: the waiting thread tests *)
(* its predicate under the lock, so it cannot miss one.                    *)
(*                                                                         *)
(* A value is reduced to its property.                                     *)
(***************************************************************************)
EXTENDS Naturals, Sequences

CONSTANT MaxQueue    \* bound on the values in the queue

VARIABLES
    mQueue, mIsActive,
    mState,      \* of the BatchingConsumer
    consumer,    \* the place of its thread in runInternal
    items        \* the batch it has flushed

queueVars == <<mQueue, mIsActive>>
consumerVars == <<mState, consumer, items>>

ConsumerPlace ==
    {"start", "while", "waitForItems", "blocked", "sleep", "slept", "flush",
     "onBatchReceived", "callbacks", "stopped", "done"}

QueueInit ==
    /\ mQueue = <<>> /\ mIsActive = TRUE
    /\ mState = "INIT" /\ consumer = "start" /\ items = <<>>

\* Mutant: the thread is not notified.
NotNotified == consumer

\* The thread in mCond.wait tests the predicate again.
Notified == IF consumer = "blocked" THEN "waitForItems" ELSE consumer

Push(v) ==
    /\ Len(mQueue) < MaxQueue
    /\ IF mIsActive
       THEN mQueue' = Append(mQueue, v) /\ consumer' = Notified
       ELSE UNCHANGED <<mQueue, consumer>>
    /\ UNCHANGED <<mIsActive, mState, items>>

RequestStop ==
    /\ mState' = "STOP_REQUESTED"
    /\ UNCHANGED <<queueVars, consumer, items>>

Deactivate ==
    /\ mIsActive' = FALSE
    /\ consumer' = Notified
    /\ UNCHANGED <<mQueue, mState, items>>

ConsumerStep(from, to) ==
    /\ consumer = from
    /\ consumer' = to
    /\ UNCHANGED <<queueVars, mState, items>>

\* Mutant: the state found is not looked at.
StartConsumerAlways ==
    /\ consumer = "start"
    /\ mState' = "RUNNING" /\ consumer' = "while"
    /\ UNCHANGED <<queueVars, items>>

\* mState.exchange(RUNNING): a thread that is stopped before it starts sees it.
StartConsumer ==
    /\ consumer = "start"
    /\ mState' = "RUNNING"
    /\ consumer' = IF mState = "INIT" THEN "while" ELSE "stopped"
    /\ UNCHANGED <<queueVars, items>>

WhileRunning == ConsumerStep("while", IF mState = "RUNNING" THEN "waitForItems" ELSE "stopped")

WaitForItems ==
    ConsumerStep("waitForItems", IF mQueue = <<>> /\ mIsActive THEN "blocked" ELSE "sleep")

Sleep == ConsumerStep("sleep", IF mState = "STOP_REQUESTED" THEN "stopped" ELSE "slept")

Slept == ConsumerStep("slept", IF mState = "STOP_REQUESTED" THEN "stopped" ELSE "flush")

Flush ==
    /\ consumer = "flush"
    /\ IF mQueue = <<>> \/ ~mIsActive
       THEN consumer' = "while" /\ UNCHANGED <<mQueue, items>>
       ELSE consumer' = "onBatchReceived" /\ items' = mQueue /\ mQueue' = <<>>
    /\ UNCHANGED <<mIsActive, mState>>

\* The batch has been handled.
BatchDone ==
    /\ consumer = "callbacks"
    /\ consumer' = "while" /\ items' = <<>>
    /\ UNCHANGED <<queueVars, mState>>

ConsumerStopped ==
    /\ consumer = "stopped"
    /\ mState' = "STOPPED" /\ consumer' = "done"
    /\ UNCHANGED <<queueVars, items>>

ConsumerNext ==
    StartConsumer \/ WhileRunning \/ WaitForItems \/ Sleep \/ Slept \/ Flush \/ ConsumerStopped
=============================================================================
