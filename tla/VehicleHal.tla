----------------------------- MODULE VehicleHal -----------------------------
(***************************************************************************)
(* The default vehicle HAL 2.0: VehicleHalManager, which clients call on   *)
(* several binder threads, its subscription manager, the emulated HAL with *)
(* its timer, and the queue whose thread delivers events to the clients    *)
(* (automotive/vehicle/2.0/default).                                       *)
(*                                                                         *)
(* subscribe changes the subscriptions under the manager's lock and calls  *)
(* the HAL after it has released it; unsubscribe calls the HAL with the    *)
(* lock held.  The timer is used through RecurrentTimerSpec.               *)
(***************************************************************************)
EXTENDS SubscriptionManager, VehicleEventQueue

CONSTANTS
    Thread,         \* the binder threads
    RequestedLists, \* option lists that clients ask for
    NoEvent         \* not registered with the timer

ASSUME RequestAssumption ==
    /\ RequestedLists \subseteq [Prop -> [sampleRate : Nat, flags : SUBSET SubscribeFlags]
                                             \cup {NoOptions}]
    /\ NoEvent \notin Nat
    /\ NoOptions \notin [sampleRate : Nat, flags : SUBSET SubscribeFlags]

VARIABLES
    registered, collected,   \* of RecurrentTimerSpec
    updatedOptions,  \* of each thread in subscribe: what it still passes to the HAL
    deadProps,       \* of each thread in onCallbackDead: what it still unsubscribes
    outgoing,        \* the properties whose values the consumer still sends a client
    destructor,      \* "alive", "stopRequested", "deactivated" or "gone"
    raced,  \* history: properties the HAL was called for while a subscribe that
            \* had changed their options had still to call it
    late    \* history: subscriptions a client made after its death was handled

Timer == INSTANCE RecurrentTimerSpec WITH Cookie <- Prop, Interval <- 1..Second

timerVars == <<registered, collected>>
callVars == <<updatedOptions, deadProps>>
vars == <<managerVars, dead, queueVars, consumerVars, timerVars, callVars, outgoing, destructor,
          raced, late>>

Init ==
    /\ ManagerInit
    /\ QueueInit
    /\ Timer!Init
    /\ updatedOptions = [t \in Thread |-> EmptyList]
    /\ deadProps = [t \in Thread |-> {}]
    /\ outgoing = [c \in Client |-> {}]
    /\ destructor = "alive"
    /\ raced = {} /\ late = {}

IsIdle(t) == updatedOptions[t] = EmptyList /\ deadProps[t] = {}

\* A thread has still to call mHal->subscribe for p.
IsPending(p) == \E t \in Thread : updatedOptions[t][p] # NoOptions

----------------------------------------------------------------------------
(* Calls. A call that a client made before it died may run after its death. *)

VerifiedOptions(options) ==
    [p \in Prop |-> IF options[p] = NoOptions THEN NoOptions
                    ELSE [options[p] EXCEPT !.sampleRate = CheckSampleRate(p, @)]]

\* subscribe, up to and with addOrUpdateSubscription.
Subscribe(t, c, options) ==
    /\ destructor = "alive" /\ IsIdle(t)
    /\ \A p \in Prop : options[p] # NoOptions => IsSubscribable(p, options[p].flags)
    /\ LET verified == VerifiedOptions(options)
           updated == OutUpdatedSubscriptions(verified) IN
       /\ AddOrUpdateSubscription(c, verified)
       /\ updatedOptions' = [updatedOptions EXCEPT ![t] =
              [p \in Prop |-> IF p \in updated THEN UpdatedHalOptions(verified)[p]
                                               ELSE NoOptions]]
       /\ raced' = raced \cup {p \in updated : IsPending(p)}
       /\ late' = IF c \in dead \ obituary
                  THEN late \cup {<<c, p>> : p \in {q \in Prop : options[q] # NoOptions}}
                  ELSE late
    /\ UNCHANGED <<queueVars, consumerVars, timerVars, deadProps, outgoing, destructor>>

\* The loop of subscribe that calls mHal->subscribe, one property per step.
HalSubscribe(t, p) ==
    /\ updatedOptions[t][p] # NoOptions
    /\ IF IsContinuousProperty(p)
       THEN Timer!Register(p, HertzToInterval(updatedOptions[t][p].sampleRate))
       ELSE UNCHANGED timerVars
    /\ updatedOptions' = [updatedOptions EXCEPT ![t] = [@ EXCEPT ![p] = NoOptions]]
    /\ UNCHANGED <<managerVars, dead, queueVars, consumerVars, deadProps, outgoing, destructor,
                   raced, late>>

\* Mutant: the HAL is called for every client that unsubscribes.
UnsubscribeAlwaysFromHal(c, p) ==
    /\ UnsubscribeLocked(c, p)
    /\ IF IsContinuousProperty(p) THEN Timer!Unregister(p) ELSE UNCHANGED timerVars
    /\ raced' = IF IsPending(p) THEN raced \cup {p} ELSE raced
    /\ UNCHANGED <<queueVars, consumerVars, updatedOptions, outgoing, destructor, late>>

\* SubscriptionManager::unsubscribe with onAllClientsUnsubscribed, which calls
\* mHal->unsubscribe.
UnsubscribeFromHal(c, p) ==
    /\ UnsubscribeLocked(c, p)
    /\ IF LastClientOf(c, p) /\ IsContinuousProperty(p) THEN Timer!Unregister(p)
                                                        ELSE UNCHANGED timerVars
    /\ raced' = IF LastClientOf(c, p) /\ IsPending(p) THEN raced \cup {p} ELSE raced
    /\ UNCHANGED <<queueVars, consumerVars, updatedOptions, outgoing, destructor, late>>

Unsubscribe(t, c, p) ==
    /\ destructor = "alive" /\ IsIdle(t)
    /\ UnsubscribeFromHal(c, p)
    /\ UNCHANGED deadProps

ClientDies(c) ==
    /\ Die(c)
    /\ UNCHANGED <<queueVars, consumerVars, timerVars, callVars, outgoing, destructor, raced, late>>

\* onCallbackDead reads the properties of the dead client under the lock ...
OnCallbackDead(t, c) ==
    /\ destructor = "alive" /\ IsIdle(t)
    /\ c \in obituary
    /\ obituary' = obituary \ {c}
    /\ deadProps' = [deadProps EXCEPT ![t] = {<<c, p>> : p \in GetSubscribedProperties(c)}]
    /\ UNCHANGED <<mClients, mSubscriptions, mPropToClients, mHalEventSubscribeOptions, dead,
                   queueVars, consumerVars, timerVars, updatedOptions, outgoing, destructor,
                   raced, late>>

\* ... and takes it again to unsubscribe from each of them.
UnsubscribeDead(t, c, p) ==
    /\ <<c, p>> \in deadProps[t]
    /\ deadProps' = [deadProps EXCEPT ![t] = @ \ {<<c, p>>}]
    /\ UnsubscribeFromHal(c, p)

----------------------------------------------------------------------------
(* Events. *)

\* doHalEvent, onHalEvent: the manager exists.  (Nobody is assumed to call into one
\* that is destroyed.)
HalEvent(p) ==
    /\ destructor # "gone"
    /\ Push(p)
    /\ UNCHANGED <<managerVars, dead, callVars, outgoing, destructor, raced, late>>

\* A client sets a property, or the emulated vehicle does; the HAL stores the value.
\* Callbacks for the setting of a property keep no state and are left out.
Set(p) ==
    /\ destructor = "alive" /\ (CheckWritePermission(p) /\ \E t \in Thread : IsIdle(t))
    /\ HalEvent(p)
    /\ UNCHANGED timerVars

SetPropertyFromVehicle(p) ==
    /\ HalEvent(p)
    /\ UNCHANGED timerVars

\* The timer's thread collects events that are due ...
TimerCollect(props) ==
    /\ Timer!Collect(props)
    /\ UNCHANGED <<managerVars, dead, queueVars, consumerVars, callVars, outgoing, destructor,
                   raced, late>>

\* ... and onContinuousPropertyTimer sends the value of each.  (The property store
\* has a value of each continuous property here; without one the code sends nothing.)
OnContinuousPropertyTimer(p) ==
    /\ Timer!Act(p)
    /\ HalEvent(p)

----------------------------------------------------------------------------
(* The consumer's thread, and the destructor. *)

RunInternal ==
    /\ ConsumerNext
    /\ UNCHANGED <<managerVars, dead, timerVars, callVars, outgoing, destructor, raced, late>>

\* onBatchHalEvent asks for the clients of the values, under the manager's lock ...
OnBatchHalEvent ==
    /\ consumer = "onBatchReceived"
    /\ outgoing' = DistributeValuesToClients({items[i] : i \in DOMAIN items})
    /\ consumer' = "callbacks"
    /\ UNCHANGED <<managerVars, dead, queueVars, mState, items, timerVars, callVars, destructor,
                   raced, late>>

\* ... and calls them back without it.
OnPropertyEvent(c) ==
    /\ consumer = "callbacks" /\ outgoing[c] # {}
    /\ outgoing' = [outgoing EXCEPT ![c] = {}]
    /\ UNCHANGED <<managerVars, dead, queueVars, consumerVars, timerVars, callVars, destructor,
                   raced, late>>

EndOfBatch ==
    /\ \A c \in Client : outgoing[c] = {}
    /\ BatchDone
    /\ UNCHANGED <<managerVars, dead, timerVars, callVars, outgoing, destructor, raced, late>>

\* ~VehicleHalManager, when no call is in progress.
DestructorRequestStop ==
    /\ destructor = "alive" /\ \A t \in Thread : IsIdle(t)
    /\ destructor' = "stopRequested"
    /\ RequestStop
    /\ UNCHANGED <<managerVars, dead, timerVars, callVars, outgoing, raced, late>>

DestructorDeactivate ==
    /\ destructor = "stopRequested"
    /\ destructor' = "deactivated"
    /\ Deactivate
    /\ UNCHANGED <<managerVars, dead, timerVars, callVars, outgoing, raced, late>>

DestructorWaitStopped ==
    /\ destructor = "deactivated" /\ consumer = "done"
    /\ destructor' = "gone"
    /\ UNCHANGED <<managerVars, dead, queueVars, consumerVars, timerVars, callVars, outgoing,
                   raced, late>>

Consumer == RunInternal \/ OnBatchHalEvent \/ (\E c \in Client : OnPropertyEvent(c)) \/ EndOfBatch

Destructor == DestructorDeactivate \/ DestructorWaitStopped

\* What the environment does: clients call and die, the vehicle or the clock
\* gives the HAL something to report, the HAL is taken down.
Input ==
    \/ \E t \in Thread, c \in Client :
          \/ \E options \in RequestedLists : Subscribe(t, c, options)
          \/ \E p \in Prop : Unsubscribe(t, c, p)
    \/ \E c \in Client : ClientDies(c)
    \/ \E p \in Prop : Set(p) \/ SetPropertyFromVehicle(p)
    \/ \E props \in SUBSET Prop : TimerCollect(props)
    \/ DestructorRequestStop

\* What follows from it.
Progress ==
    \/ \E t \in Thread, p \in Prop : HalSubscribe(t, p)
    \/ \E t \in Thread, c \in Client :
          \/ OnCallbackDead(t, c)
          \/ \E p \in Prop : UnsubscribeDead(t, c, p)
    \/ \E p \in Prop : OnContinuousPropertyTimer(p)
    \/ Consumer
    \/ Destructor

Next == Input \/ Progress

Spec == Init /\ [][Next]_vars

\* The consumer's thread and the thread in the destructor keep running.
FairSpec == Spec /\ WF_vars(Consumer) /\ WF_vars(Destructor)

----------------------------------------------------------------------------
(* Properties. *)

\* The types of the state.
TypeOK ==
    /\ mClients \subseteq Client
    /\ mSubscriptions \in [Client -> OptionList]
    /\ mPropToClients \in [Prop -> SUBSET Client]
    /\ mHalEventSubscribeOptions \in OptionList
    /\ dead \subseteq Client /\ obituary \subseteq dead
    /\ mQueue \in Seq(Prop) /\ mIsActive \in BOOLEAN
    /\ mState \in {"INIT", "RUNNING", "STOP_REQUESTED", "STOPPED"}
    /\ consumer \in ConsumerPlace
    /\ items \in Seq(Prop)
    /\ registered \in [Prop -> (1..Second) \cup {NoEvent}]
    /\ collected \subseteq Prop
    /\ updatedOptions \in [Thread -> OptionList]
    /\ deadProps \in [Thread -> SUBSET (Client \X Prop)]
    /\ outgoing \in [Client -> SUBSET Prop]
    /\ destructor \in {"alive", "stopRequested", "deactivated", "gone"}
    /\ raced \subseteq Prop
    /\ late \subseteq Client \X Prop

\* A client that some property has is known, and the property is among those
\* its HalClient lists: so when it dies the HAL hears of it and unsubscribes it
\* from everything (SubscriptionManager.cpp:86-118 and 232-292 keep the three
\* maps in step).
SubscribedClientsKnown ==
    \A p \in Prop : \A c \in mPropToClients[p] : p \in GetSubscribedProperties(c)

\* No options stay merged for a property nobody subscribes to, whichever of
\* unsubscribe and the clients' deaths came last: a later subscriber would find
\* them and the HAL would not be called.
OptionsHaveAClient ==
    \A p \in Prop : mHalEventSubscribeOptions[p] # NoOptions => mPropToClients[p] # {}

\* While options are merged for a continuous property, that is, clients subscribe to
\* events of the car, the timer runs for it, or a subscribe that has changed its
\* options is about to start it: an unsubscribe that overtakes a subscribe between its
\* lock and its call of the HAL (VehicleHalManager.cpp:157) never leaves such a client
\* without events.
SubscribedPropertyTicks ==
    \A p \in Prop :
        mHalEventSubscribeOptions[p] # NoOptions /\ IsContinuousProperty(p) =>
            registered[p] # NoEvent \/ IsPending(p)

\* When no calls have raced for it, a continuous property ticks exactly at the
\* rate its merged options have, and does not tick when it has none.  (After a
\* race the last call of the HAL wins: see the README.)
TimerMatchesOptions ==
    \A p \in Prop :
        IsContinuousProperty(p) /\ p \notin raced /\ ~IsPending(p) =>
            registered[p] = IF mHalEventSubscribeOptions[p] = NoOptions THEN NoEvent
                            ELSE HertzToInterval(mHalEventSubscribeOptions[p].sampleRate)

\* Once the death of a client has been handled it has no subscription, except
\* one that a call still in progress made after onCallbackDead had read its
\* properties (SubscriptionManager.cpp:278-291).
DeadClientsForgotten ==
    \A c \in dead \ obituary :
        (\A t \in Thread : \A q \in Prop : <<c, q>> \notin deadProps[t]) =>
            \A p \in Prop : c \in mPropToClients[p] => <<c, p>> \in late

\* A value that is queued reaches every client that subscribes to events of its
\* property from the car, unless the client's subscription or the HAL ends
\* first: no notification of the consumer's thread is lost.
EventsReachSubscribers ==
    \A c \in Client, p \in Prop :
        (\E i \in DOMAIN mQueue : mQueue[i] = p) /\ IsSubscribed(c, p, "EVENTS_FROM_CAR")
            ~> p \in outgoing[c] \/ ~IsSubscribed(c, p, "EVENTS_FROM_CAR") \/ destructor # "alive"

\* The destructor ends: the consumer's thread, wherever it was, and however
\* late it started, stops.
DestructorEnds == destructor = "stopRequested" ~> destructor = "gone"
=============================================================================
