# A TLA+ verification of Android HAL default implementations

This directory holds TLA+ models of parts of Android's `hardware/interfaces`, the TLC
configurations that check them and the TLAPS proofs of what holds for every size. All
paths below are relative to the repository (`src/`). `PROJECT.json` maps each definition
to the lines it models, and lists the hazards, the runs, the mutants and the theorems.

## 1. The system

The repository defines hardware interfaces in HIDL (`*.hal`), with a default C++
implementation for many of them and VTS tests. An implementation is a service process:
binder threads run the calls, and some services have threads of their own, queues shared
with the framework (fast message queues, FMQs), callbacks into other processes, and
clients that die. Most implementations forward a call to a vendor library. The ones with
logic of their own are these.

| Component | State | Operations | What is hard |
|---|---|---|---|
| Sensors 2.0 HAL (`sensors/2.0/default`) | sensors (enabled, mode, last report), Event FMQ, Wake Lock FMQ, count of outstanding wake-up events, wake lock | `initialize`, `activate`, `setOperationMode`, `batch`, `flush`, `injectSensorData`; a run thread for each sensor; the wake-lock thread | five kinds of actors on one count, a queue replaced at run time, a timeout, a framework that restarts |
| EVS camera (`automotive/evs/1.0/default/EvsCamera.cpp`) | buffer records, two counters, stream state, capture thread | `setMaxFramesInFlight`, `startVideoStream`, `doneWithFrame`, `stopVideoStream`, `forceShutdown`, `generateFrames` | resizing with frames in flight, a join outside the lock, failed allocations and deliveries |
| EVS enumerator and display (`EvsEnumerator.cpp`, `EvsDisplay.cpp`) | weak pointers to the active camera of each kind and to the active display; the display's state and buffer | `openCamera`, `closeCamera`, `openDisplay`, `closeDisplay`, `setDisplayState`, `getTargetBuffer`, `returnTargetBufferForDisplay`, destructors | ownership is stolen; the old owner keeps calling and closes late |
| Vehicle HAL framework (`automotive/vehicle/2.0/default/common`) and emulated HAL | four maps of subscriptions, the event queue and its thread, the timer's events | `subscribe`, `unsubscribe`, client death, `set`, HAL events, batching consumer, recurrent timer, destructor | calls to the HAL outside the lock, an unlock between two steps of a clean-up, notifications, a shutdown of three steps |
| Bluetooth HCI (`bluetooth/1.0/default`) | the watcher's timeout and pipe, the packet being assembled, low-power flags, the internal command, the session | `initialize`, `close`, `send*`, watcher thread, `OnTimeout`, `OnFirmwareConfigured`, the vendor library's commands | a timeout racing a send, state shared without a lock, bytes that come in pieces, failure half way through opening |
| Bluetooth audio session, Wi-Fi, broadcast radio, audio streams, external camera | various | various | see `PROJECT.json` |

Interaction. The sensors HAL talks to the framework through two queues: it writes events
to one, and reads from the other how many wake-up events were handled. The EVS enumerator
creates cameras and displays, gives each client a strong reference, keeps only weak ones,
and shuts the old object down when another client opens the same thing; a camera sends
frames to its client's stream object, and the client returns them. The vehicle HAL's
manager records who subscribes to what and tells the HAL below, which registers continuous
properties with the timer; the timer's and the binder's threads push values into the queue,
whose thread asks the manager for the clients of each value and calls them. The Bluetooth
HAL starts the watcher's thread when it opens the UART; that thread reads packets, answers
the vendor library's own commands through a callback, passes everything else to the client,
and takes the controller's wake back when nothing was sent for a while.

What makes them correct:

* sensors: the device does not suspend while a wake-up event is unhandled; the wake lock
  is not held for ever; a disabled sensor is silent; a queue is not used while it is
  replaced; an enabled sensor reports;
* EVS camera: the counters and the records agree; a frame has one owner; the null frame
  ends the stream; a stop returns; a client that returns its frames gets new ones;
* EVS enumerator: one working object for each camera and for the display, whatever late
  calls arrive;
* vehicle HAL: the maps agree; a client that is subscribed to a continuous property gets
  events, at the merged rate unless calls raced; a client that died leaves nothing behind; a
  value in the queue reaches its subscribers; the destructor ends; the timer does not sleep
  past an event (it can: see the findings);
* Bluetooth: the wake is asserted whenever a packet is written, and has a timeout that takes
  it back; packets are handed on whole and in order; an answer goes to whoever sent the
  command; each `initialize` is answered.

## 2. Modules

```
SensorsHal <- MCSensorsHal                                       SensorsHalProofs
SensorBatch                                                      SensorBatchProofs
EvsCamera  --INSTANCE--> EvsCameraService                        EvsCameraProofs
EvsEnumerator <- MCEvsEnumerator                                 EvsEnumeratorProofs

VehicleConfig <- SubscriptionManager <- VehicleHal <- MCVehicleHal   VehicleHalProofs
                 VehicleEventQueue   <-'    |
RecurrentTimerSpec <-------INSTANCE---------'
       ^----INSTANCE---- RecurrentTimer                          RecurrentTimerProofs

H4Protocol <- MCH4Protocol                                       H4ProtocolProofs
    ^-- VendorInterface <- MCVendorInterface                     VendorInterfaceProofs
AsyncFdWatcher <-'
```

An arrow without a label is EXTENDS. An operator whose comment begins with "Mutant:" is not
part of the specification: it is a plausible defect, used to show that a property can fail.

### SensorsHal

Actors: the binder thread (`service.cpp` configures one), a run thread for each sensor, the
wake-lock thread, the framework, the clock. Variables carry the names of the members they
stand for. Events have no contents: a queue is a number of wake-up events and a number of
others, and the Wake Lock FMQ a number of messages and their total. A section under a mutex
that touches only what the mutex protects is one step, and everything between two sections
is interleaved:

* `postEvents` is `PostWrite` (take `mWriteLock`, write to the FMQ) and `PostUpdate`
  (`updateWakeLock`, release). A run thread also holds its `mRunMutex` in both;
* `initialize` is eight steps, from the loop that disables the sensors, through the join of
  the wake-lock thread and the replacement of the queues, to the new thread;
* `activate` of an on-change sensor is two steps, as the code clears `mPreviousEventSet`
  after the lock is gone;
* `setOperationMode` is a step for each sensor.

`updateWakeLock` is `UpdateWakeLock`, with the clamp (`Counted`), the automatic release
(`Kept`) and the calls to the power library, which may fail (`PowerCalls`). Time is one
Boolean, `autoReleaseElapsed`. `mStopThread` is never initialised in the code and starts
with either value here. `synced` and `acquireFailed` are history variables: whether the
automatic release has given up unhandled events, and whether the last acquire failed. The
framework's part (`Tick`, `Fw...`) is external.

Left out: when a sample is due (a run thread may sample whenever its sensor is enabled in
normal mode), what an event holds, the direct channel calls (which refuse), the
destructors (the service never destroys its HAL).

### SensorBatch

`batch` on its own, in units of 16 ns so that TLC's integers hold the values: the `int64_t`
argument is truncated to `int32_t` (`Int32`), and `maxDelay * 1000` overflows, which is
undefined in C++: the product is either wrapped or, in the comparison, computed wider
(`MaxDelayNs`).

### EvsCamera and EvsCameraService

`mBuffers`, a vector of `[handle, inUse]`, is its size and two sets of indices, `filled`
and `busy`. `Resize` is both loops, the one that adds buffers at the first empty record and
the one that frees from the low end; `Removed` is how many the second frees, including what
it does when asked for zero. The capture thread picks a record under the lock
(`CapturePick`), delivers it outside (`CaptureDelivered` or `CaptureFailed`) and ends with
the null frame (`CaptureLast`). `stopVideoStream` is `BeginStop` and `JoinCapture`;
`forceShutdown` goes on to `DropBuffers`.

A client returns only frames that it holds. `doneWithFrame` would take any id, so a client that
returns a frame twice could free a record that has been delivered again: not explored.

`EvsCameraService` is what a client may rely on: a budget, the frames it holds, a stream that
is open and then ended. `EvsCamera` implements it under the mapping at the end of its module
(`ImplementsService`).

### EvsEnumerator

Camera and display objects are drawn from finite sets and can be used again once destroyed.
A weak pointer to a destroyed object is `None`. A camera object is reduced to the phases of
`EvsCameraService`. The service has a single binder thread and the enumerator starts no
other, so each call is a step. Clients are not named: an object stands for the client that
has it, and may be called, closed or dropped at any time. A buffer is returned to the display it
came from only; as all displays give theirs the id 0x3870, the code would also accept another's.

### VehicleConfig, SubscriptionManager, VehicleEventQueue, VehicleHal

`VehicleConfig` is the checks of `VehicleHalManager` against the property configurations
(`checkSampleRate`, `isSubscribable`, permissions). `SubscriptionManager` is the four maps;
each of its operations is one section of `mLock`. A list of options is a function from the
properties. `VehicleEventQueue` is `ConcurrentQueue` and `BatchingConsumer`: its thread tests
its predicate under the lock, so a notification cannot be lost and a thread at "blocked" goes
back to the test when one comes.

`VehicleHal` composes them, with several binder threads:

* `subscribe` is `Subscribe`, up to the end of `addOrUpdateSubscription`, and then a
  `HalSubscribe` for each property whose merged options changed, without the lock. Calls of
  other threads come between;
* `unsubscribe` calls the HAL inside the lock, so `UnsubscribeFromHal` is one step;
* `onCallbackDead` reads the properties under the lock (`OnCallbackDead`) and takes it again
  for each of them (`UnsubscribeDead`);
* `OnBatchHalEvent` finds the clients under the lock, `OnPropertyEvent` calls them without;
* the destructor is `requestStop`, `deactivate`, `waitStopped`.

The emulated HAL registers continuous properties with the timer, which is used through
`RecurrentTimerSpec`. `raced` and `late` are history variables: properties for which the HAL
was called while another `subscribe` had still to call it, and subscriptions a client made
after its death had been handled. A value is reduced to its property.

What the model makes plain, and the properties therefore do not claim:

* after a race the last call of the HAL wins (`VehicleHalManager.cpp:157` against
  `SubscriptionManager.cpp:268`): the timer may be left running for nobody, or at a lower rate
  than the merged options say. A client of events of the car is never left without them
  (`SubscribedPropertyTicks`, which needs no exception for races);
* the merged rate stays at the maximum after the client that asked for it has gone;
* `HalClient::mSubscriptions` is not erased by `unsubscribe`, so a client that comes back for
  its own sets only keeps the flag for car events;
* an empty list of options leaves a client in `mClients`;
* when the emulated HAL has no value of a continuous property, its timer sends nothing for it;
  in the model it has one. `handlePropertySetEvent`, which keeps no state, is left out, as is a
  call into a manager that was destroyed;
* `unsubscribe` of a property that is not subscribed answers OK, where `IVehicle.hal:86-88`
  asks for INVALID_ARG; results are not modelled;
* two `set` calls may store in one order and report in the other; values are not modelled.

### RecurrentTimerSpec and RecurrentTimer

`RecurrentTimer` has the thread's loop step by step, with the clock read before the lock in
`loop` and in `registerRecurrentEvent`, and `notify_one` after it. `wait_until` has no
predicate, hence the violated run. `updateNextEventTime` is modelled exactly: when the thread
is late an event can still be due after it was moved, and fires twice in a row.
`RecurrentTimerSpec` is the timer without time: what is registered, and what the thread has
collected and still has to act on.

### H4Protocol, AsyncFdWatcher, VendorInterface

`H4Protocol` is `H4Protocol::OnDataReady` and `HciPacketizer::OnDataReady`, one `read` per
call, of as many bytes as have arrived and at most what was asked for. A byte is the packet it
belongs to and its place in it; packets carry alternating bits, so that a lost or repeated one
shows. `AsyncFdWatcher` is the loop of the thread: the timeout for the next `select` is read
without the lock, the pipe is looked at first, then the descriptor, then the time.

`VendorInterface` composes them with `BluetoothHci` and `VendorInterface`. Any thread can be in
`Send`, which holds `wakeup_mutex_` through `Send`, `SendConfigure`, `SendAssert` and
`SendWrite`; `transmit_cb` writes `internal_command` in two steps and no lock;
`OnFirmwareConfigured` runs on the watcher's thread, or on the one that called `initialize`
when the vendor library fails at once, and arms the timeout without the mutex.
`HandleIncomingEvent` uses `internal_command` without a lock too, one access after the other:
`HandleIncomingEvent` (is there a callback), `InternalCommandEventMatch` (the opcode),
`SaveInternalCallback` and `CallSavedCallback` (it is cleared, then called), with writes of
`transmit_cb` on other threads in between; `saved_cb` is the callback as the thread has read it,
which may stem from the first read or the second. The operation `BT_VND_OP_LPM_SET_MODE`, of
which a comment at line 276 says that the vendor library may send a command, is called by
`EnableLpm` and by `Close`: both do so or do not. `dialogue` is a history variable: whether
vendor commands have overlapped in this session. The vendor library (`FwCfg`, `VendorCallback`) and the controller (`Answer`, `Unsolicited`) are external:
the library sends `FwCommands` commands, each from the callback of the one before. `phase` is
the session as the client sees it. To keep the state space small, locals are reset when a
function returns and the objects that `close` deletes are reset there; `internal_command`,
`lpm_wake_deasserted` and `lpm_timeout_ms` are global and keep their values, as in the code.

Assumptions and limits of this part:

* a client sends after `initializationComplete` and has no send in progress when it closes. The
  code does not check either; a client that dies within a call breaks the second, since
  `serviceDied` calls `close` on a thread of its own and the service has five (`service.cpp:24`).
  What a `Send` does with what was deleted is undefined and not modelled;
* a vendor library that reports success has sent at least one command (`VendorAssumption`).
  Otherwise a `Send` could read `lpm_timeout_ms = 0` while `OnFirmwareConfigured` sets it, and
  disarm the timeout for the rest of the session;
* nothing in the code keeps two commands of the vendor library from sharing `internal_command`.
  They do when the client closes, or dies, while the firmware is configured or the command of
  `EnableLpm` is unanswered, and `Close` makes the library send another one. The first answer can
  then take the second's callback, or go to the client. The runs explore this; `AnswersRouted`
  claims nothing of the vendor library's answers from there to the end of the session
  (`dialogue = "overlap"`), and still that what the client waits for reaches the client. The
  claim without that condition was checked, and fails in this way;
* the vendor library's commands have opcodes of their own, different from the client's;
* after an `Open` that failed once the library was loaded, `Close` calls
  `BT_VND_OP_LPM_SET_MODE` with no protocol object to send with; `CloseFailed` leaves that out;
* a packet with an empty payload stops the packetizer until the next close (see the findings);
* a failed `Open` leaves `g_vendor_interface` set, so `initialize` is refused until `close`;
* a controller with several channels (`MctProtocol`) is not modelled, nor a second `initialize`
  that replaces the death recipient.

## 3. Runs

| Run | Result | Shows |
|---|---|---|
| `sensors_hal` | holds | the safety properties with two sensors, one of them a wake-up on-change sensor, one with data injection |
| `sensors_live` | holds | `InitializeReturns`, `WakeLockReleased`, `EnabledSensorReports` under fairness |
| `sensors_phantom_count` | violated | the race that `ISensors.hal` warns of: an event acknowledged before it is counted |
| `sensors_reinitialize` | violated | `initialize` keeps the old count and the wake lock |
| `sensors_batch` | violated | a period of 2 s becomes 1.41 s |
| `evs_camera` | holds | ten properties of the camera, its refinement of `EvsCameraService` among them |
| `evs_rollback` | violated | a failed increase frees the buffers the camera had |
| `evs_enumerator` | holds | exclusive ownership under theft and late close |
| `vehicle_hal` | holds | the maps agree, subscribers tick, the dead are forgotten, queued values arrive, the destructor ends |
| `vehicle_timer` | violated | an event registered between the scan and the wait is slept past |
| `bluetooth_hci` | holds | wake and timeout, whole packets, routed answers, initialization completes |
| `bluetooth_empty_payload` | violated | a read of no bytes, taken for the end of the UART, on an open UART |

The six violated runs are disagreements between the code and a comment, a test or an interface
document, quoted under `findings`. They show what the code does; nothing else in the models
depends on them. `NoPhantomCount` and `OutstandingCovers` belong together: the race makes
the count too high, and the proof shows that it never makes it too low.

Bounds, and why they are enough.

* Sensors: two sensors, so that two run threads and the binder contend for `mWriteLock` and
  the loops of `initialize` and `setOperationMode` are seen half way. Queues of one message,
  so that both are full at times. `MaxOutstanding = 2` is a guard of the actions that start
  a post; the count can still be too high by the phantom event. `MaxUnacked = 1` limits what
  the framework reads ahead of its acknowledgements. The liveness run and the two violated
  runs need one sensor, which is wake-up and on-change. No sensor of the default table has
  the `ONE_SHOT_MODE` flag, so `OneShot` is empty; the proofs do not assume it.
* EVS camera: `MaxBuffers = 5` in place of 100, with requests from zero to one above the
  limit: enough for a high record to move down past several others and for an allocation to
  fail after 0 to 4 buffers.
* EVS enumerator: two cameras, so that opening one can be seen not to disturb the other, and
  three objects of each kind: an owner, an orphan, and a new one. Objects of a kind and the
  two cameras are interchangeable, hence the symmetry sets; no liveness is checked there.
* Vehicle HAL: two clients, two binder threads, a continuous and an on-change property.
  `MaxInputs = 4` limits what the environment starts (calls, deaths, values, collections of the
  timer); what follows from an input is not limited. Four are enough for two subscribes and an
  unsubscribe to overtake each other with a value in the queue, and for a client to subscribe,
  die and be replaced. `Second = 2` gives the two rates 1 and 2 different intervals, and a
  request of 3 is above the maximum. `MaxQueue = 1`: batches are sets of properties when they
  are distributed, so a longer queue adds no case.
* Timer: one cookie, one caller and a clock up to 3 show the lost wake-up. The invariants and
  the refinement were checked on two cookies, two callers and a larger clock before they were
  proved.
* Bluetooth: two senders beside the watcher and the control thread; two firmware commands, so
  that one is sent from the callback of the other; a `MaxUart = 2` admits a packet when fewer
  than two bytes are left, so that a packet arrives behind one that is half read; data packets
  of length 0 and 2, events with a one-byte preamble and data with a two-byte one, so that both
  parts are read in pieces.

Fairness.

* `SensorsHal!Fairness`: threads are scheduled (weak fairness), time goes by, and whoever
  waits for `mRunMutex` or `mWriteLock` gets it in the end (strong fairness). A `std::mutex`
  does not promise the last; it is justified since run threads sleep in `wait_for` between
  samples and hold `mWriteLock` for two short steps. Nothing is assumed of the framework.
* `EvsCamera!Fairness`: the two threads are scheduled, and the client returns its frames, as
  `IEvsCamera.hal` asks of it; `KeepsDelivering` needs the latter.
* `VehicleHal!FairSpec`: the consumer's thread and the thread in the destructor are scheduled.
  Callbacks to clients are oneway calls, so they return. `MCSpec` states the same for the
  specification with the bound on inputs.
* `VendorInterface!FairSpec`: the watcher and the thread of `initialize` and `close` are
  scheduled, and the controller answers each command; the code has no other way out of an
  unanswered firmware command than a timer that aborts the process. Nothing is assumed of the
  clients.

Deadlock is checked in the passing runs except `vehicle_hal`, where everything stops when the
inputs are used up or the HAL is gone. Two of the violated runs switch it off as well
(`vehicle_timer` at the end of its clock, `bluetooth_empty_payload` after a hang-up): they are
about one invariant.

## 4. Proofs

The theorems hold for every value of the constants that the `ASSUME` of each module admits:
any set of sensors and flags and any queue sizes, any limit on buffers and any requests, any
number of cameras and objects, any clients, threads, properties and rates, any senders, packets
and firmware commands. Each proof module defines an inductive invariant (`Inv`, `H4Inv`), shows
`Init => Inv` and, with a lemma for each action, `Inv /\ [Next]_vars => Inv'`, and derives the
rest.

* `SensorsHalProofs`. `OutstandingCovers` is not inductive: it needs to know that only the
  holder of `mWriteLock` has an uncounted vector (`WriteLockInv`), that `eventsHandled` is
  nonzero only between the read and the update (`ReaderInv`), and that a queue made by
  `initialize` is empty, with nothing unacknowledged from before (`QueueInv`, `CallInv`).
  `WakeLockCovers` then follows with `HeldInv`. `NoPostWithoutQueue` needs that the loop of
  `initialize` leaves every sensor disabled (`DisabledInv`), that a disabled sensor's thread
  does not post (`NoSampleWhenDisabled`, from `mRunMutex`), and that an enabled sensor has a
  queue. `FreshInv` gives `FreshOnEnable`. `LockFollowsCount` is exact where `WakeLockCovers` is
  one-sided, and holds when the kernel refuses no power call.
* `EvsCameraProofs`. `Inv` is the run's invariants and `StateInv`, which ties the positions of
  the two threads to the stream state. The lemmas about `Resize` and `MoveDown` are arguments
  on cardinalities: that a buffer in use above `mFramesAllowed` has an empty record below it
  is a counting argument (`GapExists`). `Implements` proves the refinement step by step.
  `LimitIsFollowed` says what every call of `setMaxFramesInFlight` makes of the limit, with the
  free records counted as `mFramesAllowed - mFramesInUse` (`FreeCount`).
* `EvsEnumeratorProofs`. `PointerInv` says that the weak pointers point to objects that exist,
  of the right camera; the actions on cameras and on the display are proved apart, each
  leaving the other half of `Inv` alone.
* `VehicleHalProofs`. `TimerMatchesOptions` is not inductive: between the lock and the call of
  the HAL a thread must have the merged options in its hands, and be the only one, unless calls
  raced (`PendingInv`). `DeadClientsForgotten` needs to say where a dead client's subscription
  is on its way out (`DeadInv`: announced, or being unsubscribed by a thread, or late).
  `RatesInv` keeps the rates that reach the timer above zero, so that `Second \div rate` is an
  interval. `UsesTimerAsSpecified` shows that the HAL drives its timer as `RecurrentTimerSpec`
  allows, so that with the next module the abstract timer is met from both sides.
* `RecurrentTimerProofs`, under `IntervalOK`: the clock values that the thread and the callers
  hold are not in the future (`PastInv`), so an event is never more than one interval ahead;
  events stay on multiples of their interval; and the timer implements `RecurrentTimerSpec`
  (`Implements`), which is what `VehicleHal` uses in its place.
* `H4ProtocolProofs`. A stream of packets is described by how bytes at any distance relate
  (`Ordered`), so that no induction is needed: `BetweenInv` and `WithinInv` say what the next
  byte in the UART is, from which a read of n bytes yields the next n of the packet.
* `VendorInterfaceProofs`. `AwakeWhenWriting` follows from `MutexInv` and `WakeInv`.
  `AwakeHasTimeout` needs that a `Send` which read `lpm_timeout_ms` before it was known cannot
  arm the timeout with the old value: `StartedInv` says that once the vendor library has sent a
  command the wake is asserted, or the timeout is known from an earlier session, so such a
  `Send` does not touch the timeout. `WholePackets` carries `H4Inv` through the composition.
  `AnswersRouted` looks one step ahead only, and its invariant (`Routing`) has to follow a vendor
  command on its whole way: from `transmit_cb`, which writes `internal_command` in two steps
  without a lock, over the UART to the controller, back as the last byte of a packet at some
  place of the stream, into the packetizer's callback and through the four steps of
  `HandleIncomingEvent`. `RouteInv` says that as long as the library's commands do not overlap
  there is at most one on its way, that `internal_command` is about it as soon as it can be
  answered, and that the callback `HandleIncomingEvent` has read is still that of the answer it
  handles; `OneAnswerInv` that a command is answered once; `CommandInv` which threads can have
  one. That the client's own answers and data reach the client needs no condition: it follows from
  `internal_opcode` being that of a command of the vendor library (`CommandInv`), which an answer
  to the client never matches.
* `SensorBatchProofs`, under `TableOK` (the wrapped `maxDelay * 1000` is still between the limits,
  as 10 s is in every sensor of the table): what is left of the clamping in 32 bits.

Two groups of theorems belong to runs that do not check a safety property that holds.

*When the refuted properties hold.* Where a run refutes a property, a theorem says that the behaviour it
shows is the only one that does, under a hypothesis that names the remedy:
`SleepsPastOnlyByEarlyNotify` (`NotifiedInTime`: no `notify_one` between the timer's scan and its
`wait_until`; `DeadlineInv` says that the deadline covers every event unless a notification is
owed), `PhantomOnlyByEarlyRead` (`ReadsAfterCount`: the framework reads nothing between the write
and the count of `postEvents`), `EofOnlyWithoutPayload` (every packet has a payload),
`OnlyLongPeriodsSuffer` (requests up to the wrapped limit), and `LimitIsFollowed`, which lists the
outcomes of a failed increase, the refuted one among them.

*The safety half of liveness.* A thread that should go on is never left where nothing will wake
it; the other half, that it is scheduled, is what TLC checks under fairness.
`NobodyWaitsInVain` for `InitializeReturns` and `EnabledSensorReports`; `ConsumerMissesNothing` for
`EventsReachSubscribers` and `DestructorEnds`; `InitializeNeverForgotten` for
`InitializationCompletes` (if firmware answers have a payload, as HCI command-complete events
do); `StopNeverMissed` for the join of the watcher's thread in `close`.

Only model-checked: the liveness properties themselves, since the prover handles neither fairness
nor `ENABLED`, and the six violations, which are counterexamples. No module uses recursion.

## 5. Not modelled

Sample times, pixel data, frame rates, property values and log messages. The data race between
the unlocked read of `mBuffers[idx]` in `generateFrames` and a reallocation in
`setMaxFramesInFlight`, and the walk of `watched_fds_` without its lock, which matters only with
`MctProtocol`: both are listed as hazards. Destructors of the sensors HAL. Of the vehicle HAL,
`get`, the configuration calls and `dump`, which only answer, the property store, the object
pool, the emulator's socket protocol and the VMS utilities. The components marked `not_modelled`
in `PROJECT.json`, each with its reason: mostly wrappers of vendor libraries whose behaviour is
outside the repository, declarations, tests and data.

## 6. Plan

1. Done: sensors, EVS camera, EVS enumerator and display, with their runs and proofs.
2. Done: the vehicle HAL with its subscriptions, queue and timer; the Bluetooth HCI transport
   with its packetizer and watcher; proofs of their safety properties.
3. Done: proofs of the action property `AnswersRouted`, of the use of the timer by the vehicle
   HAL, of the conditions under which the refuted properties hold, and of the safety half of the
   liveness properties.
4. Left to model, where it would add most: the Bluetooth audio session (one mutex between
   observers, the stack's callbacks and the data path), the tuner's task thread, the command
   and status queues of the audio streams.
