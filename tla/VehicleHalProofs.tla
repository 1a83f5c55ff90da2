-------------------------- MODULE VehicleHalProofs --------------------------
(***************************************************************************)
(* Proofs about VehicleHal, for every set of clients, threads, properties  *)
(* and requests.                                                           *)
(***************************************************************************)
EXTENDS VehicleHal, TLAPS

(* The parts of the inductive invariant that no run names. *)

\* A rate that reaches the timer is a number of events per second, not 0.
RatesInv ==
    \A p \in Prop : IsContinuousProperty(p) =>
        /\ mHalEventSubscribeOptions[p] # NoOptions => mHalEventSubscribeOptions[p].sampleRate >= 1
        /\ \A t \in Thread :
              updatedOptions[t][p] # NoOptions => updatedOptions[t][p].sampleRate >= 1

\* Where no calls have raced, a subscribe that has still to call the HAL is the
\* only one for its property, and has the merged options in its hands.
PendingInv ==
    \A p \in Prop \ raced : \A t \in Thread : updatedOptions[t][p] # NoOptions =>
        /\ updatedOptions[t][p] = mHalEventSubscribeOptions[p]
        /\ \A u \in Thread : updatedOptions[u][p] # NoOptions => u = t

\* The death of a client that still has a subscription is to be announced, or a
\* thread is unsubscribing it, or it subscribed too late.
DeadInv ==
    \A p \in Prop : \A c \in mPropToClients[p] :
        c \in dead /\ <<c, p>> \notin late =>
            c \in obituary \/ \E t \in Thread : <<c, p>> \in deadProps[t]

Inv ==
    /\ TypeOK
    /\ RatesInv
    /\ SubscribedClientsKnown
    /\ OptionsHaveAClient
    /\ SubscribedPropertyTicks
    /\ PendingInv
    /\ TimerMatchesOptions
    /\ DeadInv

USE ConfigAssumption, RequestAssumption

-----------------------------------------------------------------------------
(* Facts about options. *)

\* An interval is at least a tick and at most a second.
LEMMA IntervalInRange ==
    ASSUME NEW rate \in 1..Second
    PROVE  HertzToInterval(rate) \in 1..Second
  <1> DEFINE q == Second \div rate
  <1>1. q \in Int /\ Second = rate * q + (Second % rate) /\ Second % rate \in 0..(rate - 1)
    OBVIOUS
  <1>2. q >= 1
    <2> SUFFICES ASSUME q <= 0 PROVE FALSE
      BY <1>1
    <2>1. rate * q <= 0
      BY <1>1
    <2> QED
      BY <1>1, <2>1
  <1>3. q <= Second
    <2>1. rate * q >= q
      BY <1>1, <1>2
    <2> QED
      BY <1>1, <2>1
  <1> QED
    BY <1>1, <1>2, <1>3 DEF HertzToInterval

\* A checked rate is within what types.hal allows, and no continuous property
\* is given rate 0.
LEMMA CheckedRate ==
    ASSUME NEW p \in Prop, NEW rate \in Nat
    PROVE  /\ CheckSampleRate(p, rate) \in 0..Second
           /\ IsContinuousProperty(p) => CheckSampleRate(p, rate) >= 1
  BY DEF CheckSampleRate, IsContinuousProperty

\* NoOptions is not an option record.
LEMMA OptionsDiffer == NoOptions \notin SubscribeOptions
  BY DEF SubscribeOptions

\* The checks of subscribe turn a request into a list of options.
LEMMA VerifiedFacts ==
    ASSUME NEW options \in RequestedLists
    PROVE  /\ VerifiedOptions(options) \in OptionList
           /\ \A p \in Prop :
                 /\ VerifiedOptions(options)[p] = NoOptions <=> options[p] = NoOptions
                 /\ IsContinuousProperty(p) /\ VerifiedOptions(options)[p] # NoOptions =>
                        VerifiedOptions(options)[p].sampleRate >= 1
  <1> SUFFICES ASSUME NEW p \in Prop
               PROVE  /\ VerifiedOptions(options)[p] \in SubscribeOptions \cup {NoOptions}
                      /\ VerifiedOptions(options)[p] = NoOptions <=> options[p] = NoOptions
                      /\ IsContinuousProperty(p) /\ VerifiedOptions(options)[p] # NoOptions =>
                             VerifiedOptions(options)[p].sampleRate >= 1
    BY DEF VerifiedOptions, OptionList
  <1>1. options[p] \in [sampleRate : Nat, flags : SUBSET SubscribeFlags] \cup {NoOptions}
    OBVIOUS
  <1>2. CASE options[p] = NoOptions
    BY <1>2 DEF VerifiedOptions
  <1>3. CASE options[p] # NoOptions
    <2>1. options[p].sampleRate \in Nat /\ options[p].flags \in SUBSET SubscribeFlags
      BY <1>1, <1>3
    <2> DEFINE rate == CheckSampleRate(p, options[p].sampleRate)
    <2>2. rate \in 0..Second /\ (IsContinuousProperty(p) => rate >= 1)
      BY <2>1, CheckedRate
    <2>3. VerifiedOptions(options)[p] = [sampleRate |-> rate, flags |-> options[p].flags]
      BY <1>1, <1>3 DEF VerifiedOptions
    <2> QED
      BY <1>3, <2>1, <2>2, <2>3, OptionsDiffer DEF SubscribeOptions
  <1> QED
    BY <1>2, <1>3

\* Merging adds options and never lowers a rate.
LEMMA MergeFacts ==
    ASSUME NEW old \in SubscribeOptions \cup {NoOptions},
           NEW new \in SubscribeOptions \cup {NoOptions}
    PROVE  /\ MergeSubscribeOptions(old, new) \in SubscribeOptions \cup {NoOptions}
           /\ MergeSubscribeOptions(old, new) = NoOptions <=> old = NoOptions /\ new = NoOptions
           /\ new = NoOptions => MergeSubscribeOptions(old, new) = old
           /\ old # NoOptions => MergeSubscribeOptions(old, new).sampleRate >= old.sampleRate
           /\ new # NoOptions => MergeSubscribeOptions(old, new).sampleRate >= new.sampleRate
  <1>1. CASE new = NoOptions
    BY <1>1, OptionsDiffer DEF MergeSubscribeOptions, SubscribeOptions
  <1>2. CASE new # NoOptions /\ old = NoOptions
    BY <1>2, OptionsDiffer DEF MergeSubscribeOptions, SubscribeOptions
  <1>3. CASE new # NoOptions /\ old # NoOptions
    <2>1. old \in SubscribeOptions /\ new \in SubscribeOptions
      BY <1>3
    <2> DEFINE rate == IF new.sampleRate > old.sampleRate THEN new.sampleRate ELSE old.sampleRate
    <2>2. MergeSubscribeOptions(old, new) = [sampleRate |-> rate, flags |-> old.flags \cup new.flags]
      BY <1>3 DEF MergeSubscribeOptions
    <2>3. /\ rate \in 0..Second /\ rate >= old.sampleRate /\ rate >= new.sampleRate
          /\ old.flags \cup new.flags \in SUBSET SubscribeFlags
      BY <2>1 DEF SubscribeOptions
    <2>4. MergeSubscribeOptions(old, new) \in SubscribeOptions
      BY <2>2, <2>3 DEF SubscribeOptions
    <2> QED
      BY <1>3, <2>2, <2>3, <2>4, OptionsDiffer
  <1> QED
    BY <1>1, <1>2, <1>3

\* What addOrUpdateSubscription does to the merged options of a property.
LEMMA UpdatedFacts ==
    ASSUME mHalEventSubscribeOptions \in OptionList, NEW options \in OptionList, NEW p \in Prop
    PROVE  LET merged == UpdatedHalOptions(options)[p] IN
           /\ UpdatedHalOptions(options) \in OptionList
           /\ merged \in SubscribeOptions \cup {NoOptions}
           /\ mHalEventSubscribeOptions[p] # NoOptions => merged # NoOptions
           /\ merged # NoOptions =>
                 mHalEventSubscribeOptions[p] # NoOptions \/ options[p] # NoOptions
           /\ mHalEventSubscribeOptions[p] # NoOptions =>
                 merged.sampleRate >= mHalEventSubscribeOptions[p].sampleRate
           /\ merged # NoOptions /\ mHalEventSubscribeOptions[p] = NoOptions =>
                 merged.sampleRate >= options[p].sampleRate
  <1> DEFINE Opt == SubscribeOptions \cup {NoOptions}
  <1>1. \A q \in Prop : /\ mHalEventSubscribeOptions[q] \in Opt
                        /\ CarOptions(options)[q] \in Opt
                        /\ CarOptions(options)[q] \in {options[q], NoOptions}
    BY DEF OptionList, CarOptions
  <1>2. \A q \in Prop : /\ UpdatedHalOptions(options)[q] =
                               MergeSubscribeOptions(mHalEventSubscribeOptions[q],
                                                     CarOptions(options)[q])
                        /\ UpdatedHalOptions(options)[q] \in Opt
    BY <1>1, MergeFacts DEF UpdatedHalOptions
  <1>3. UpdatedHalOptions(options) \in OptionList
    BY <1>2 DEF UpdatedHalOptions, OptionList
  <1> HIDE DEF Opt
  <1> QED
    BY <1>1, <1>2, <1>3, MergeFacts DEF Opt

-----------------------------------------------------------------------------
(* Each step preserves the invariant. *)

\* Initially nobody subscribes and no thread is in a call.
LEMMA InitInv ==
    ASSUME Init PROVE Inv
  <1> USE DEF Init, ManagerInit, QueueInit, Timer!Init
  <1>1. EmptyList \in OptionList /\ \A p \in Prop : EmptyList[p] = NoOptions
    BY DEF EmptyList, OptionList
  <1>2. TypeOK
    BY <1>1 DEF TypeOK, ConsumerPlace
  <1>3. RatesInv /\ OptionsHaveAClient /\ SubscribedPropertyTicks /\ PendingInv
    BY <1>1 DEF RatesInv, OptionsHaveAClient, SubscribedPropertyTicks, PendingInv
  <1>4. SubscribedClientsKnown /\ DeadInv
    BY DEF SubscribedClientsKnown, DeadInv
  <1>5. TimerMatchesOptions
    BY <1>1 DEF TimerMatchesOptions
  <1> QED
    BY <1>2, <1>3, <1>4, <1>5 DEF Inv

\* Steps that leave the subscriptions, the calls in progress and the registered
\* events alone have only the types to keep.
LEMMA EventFrame ==
    ASSUME Inv, TypeOK',
           UNCHANGED <<managerVars, dead, registered, callVars, raced, late>>
    PROVE  Inv'
  <1> USE DEF managerVars, callVars
  <1>1. RatesInv' /\ OptionsHaveAClient'
    BY DEF Inv, RatesInv, OptionsHaveAClient
  <1>2. SubscribedClientsKnown' /\ DeadInv'
    BY DEF Inv, SubscribedClientsKnown, GetSubscribedProperties, DeadInv
  <1>3. SubscribedPropertyTicks' /\ PendingInv' /\ TimerMatchesOptions'
    BY DEF Inv, SubscribedPropertyTicks, PendingInv, TimerMatchesOptions, IsPending
  <1> QED
    BY <1>1, <1>2, <1>3 DEF Inv

\* An event of the HAL goes to the queue.
LEMMA HalEventInv ==
    ASSUME Inv, NEW p \in Prop, HalEvent(p), registered' = registered,
           collected' \in SUBSET Prop
    PROVE  Inv'
  <1> USE DEF HalEvent, Push, Notified, managerVars, queueVars, consumerVars, callVars
  <1>1. mQueue' \in Seq(Prop)
    <2>1. mQueue \in Seq(Prop)
      BY DEF Inv, TypeOK
    <2>2. Append(mQueue, p) \in Seq(Prop)
      BY <2>1
    <2>3. mQueue' = Append(mQueue, p) \/ mQueue' = mQueue
      OBVIOUS
    <2> QED
      BY <2>1, <2>2, <2>3
  <1>2. consumer' \in ConsumerPlace
    BY DEF Inv, TypeOK, ConsumerPlace
  <1>3. TypeOK'
    BY <1>1, <1>2 DEF Inv, TypeOK
  <1> QED
    BY <1>3, EventFrame

\* The timer's thread collects events.
LEMMA TimerCollectInv ==
    ASSUME Inv, NEW props \in SUBSET Prop, TimerCollect(props)
    PROVE  Inv'
  <1> USE DEF TimerCollect, Timer!Collect, managerVars, queueVars, consumerVars, callVars
  <1>1. TypeOK'
    BY DEF Inv, TypeOK
  <1> QED
    BY <1>1, EventFrame

\* The consumer's thread changes its own state and the queue.
LEMMA ConsumerInv ==
    ASSUME Inv, Consumer
    PROVE  Inv'
  <1> USE DEF managerVars, queueVars, consumerVars, callVars, timerVars
  <1>1. CASE RunInternal
    <2>1. TypeOK'
      <3> USE DEF Inv, TypeOK, ConsumerPlace, RunInternal, ConsumerStep
      <3>1. CASE StartConsumer
        <4>1. consumer' \in {"while", "stopped"}
          BY <3>1 DEF StartConsumer
        <4> QED
          BY <1>1, <3>1, <4>1 DEF StartConsumer
      <3>2. CASE WhileRunning
        BY <1>1, <3>2 DEF WhileRunning
      <3>3. CASE WaitForItems
        BY <1>1, <3>3 DEF WaitForItems
      <3>4. CASE Sleep
        BY <1>1, <3>4 DEF Sleep
      <3>5. CASE Slept
        BY <1>1, <3>5 DEF Slept
      <3>6. CASE Flush
        <4>1. <<>> \in Seq(Prop)
          OBVIOUS
        <4>2. mQueue' \in Seq(Prop) /\ items' \in Seq(Prop)
          BY <3>6, <4>1 DEF Flush
        <4>3. consumer' \in {"while", "onBatchReceived"}
          BY <3>6 DEF Flush
        <4> QED
          BY <1>1, <3>6, <4>2, <4>3 DEF Flush
      <3>7. CASE ConsumerStopped
        BY <1>1, <3>7 DEF ConsumerStopped
      <3> QED
        BY <1>1, <3>1, <3>2, <3>3, <3>4, <3>5, <3>6, <3>7 DEF ConsumerNext
    <2> QED
      BY <1>1, <2>1, EventFrame DEF RunInternal
  <1>2. CASE OnBatchHalEvent
    <2>1. \A i \in DOMAIN items : items[i] \in Prop
      BY DEF Inv, TypeOK
    <2>2. outgoing' \in [Client -> SUBSET Prop]
      BY <1>2, <2>1 DEF OnBatchHalEvent, DistributeValuesToClients
    <2>3. TypeOK'
      BY <1>2, <2>2 DEF Inv, TypeOK, ConsumerPlace, OnBatchHalEvent
    <2> QED
      BY <1>2, <2>3, EventFrame DEF OnBatchHalEvent
  <1>3. ASSUME NEW c \in Client, OnPropertyEvent(c) PROVE Inv'
    <2>1. TypeOK'
      BY <1>3 DEF Inv, TypeOK, OnPropertyEvent
    <2> QED
      BY <1>3, <2>1, EventFrame DEF OnPropertyEvent
  <1>4. CASE EndOfBatch
    <2>1. TypeOK'
      BY <1>4 DEF Inv, TypeOK, ConsumerPlace, EndOfBatch, BatchDone
    <2> QED
      BY <1>4, <2>1, EventFrame DEF EndOfBatch
  <1> QED
    BY <1>1, <1>2, <1>3, <1>4 DEF Consumer

\* The destructor stops the consumer.
LEMMA DestructorInv ==
    ASSUME Inv, DestructorRequestStop \/ Destructor
    PROVE  Inv'
  <1> USE DEF managerVars, queueVars, consumerVars, callVars, timerVars
  <1>1. TypeOK'
    <2> USE DEF Inv, TypeOK, ConsumerPlace
    <2>1. CASE DestructorRequestStop
      BY <2>1 DEF DestructorRequestStop, RequestStop
    <2>2. CASE DestructorDeactivate
      BY <2>2 DEF DestructorDeactivate, Deactivate, Notified
    <2>3. CASE DestructorWaitStopped
      BY <2>3 DEF DestructorWaitStopped
    <2> QED
      BY <2>1, <2>2, <2>3 DEF Destructor
  <1>2. UNCHANGED <<managerVars, dead, registered, callVars, raced, late>>
    BY DEF DestructorRequestStop, Destructor, DestructorDeactivate, DestructorWaitStopped
  <1> QED
    BY <1>1, <1>2, EventFrame

\* subscribe changes the maps and leaves what is new for the HAL.
LEMMA SubscribeInv ==
    ASSUME Inv, NEW t \in Thread, NEW c \in Client, NEW options \in RequestedLists,
           Subscribe(t, c, options)
    PROVE  Inv'
  <1> DEFINE V == VerifiedOptions(options)
             M == UpdatedHalOptions(V)
             H == mHalEventSubscribeOptions
  <1>1. /\ V \in OptionList
        /\ \A p \in Prop :
              /\ V[p] = NoOptions <=> options[p] = NoOptions
              /\ IsContinuousProperty(p) /\ V[p] # NoOptions => V[p].sampleRate >= 1
    BY VerifiedFacts
  <1> HIDE DEF V
  <1>2. H \in OptionList
    BY DEF Inv, TypeOK
  <1>3. /\ M \in OptionList
        /\ \A p \in Prop :
              /\ M[p] \in SubscribeOptions \cup {NoOptions}
              /\ H[p] # NoOptions => M[p] # NoOptions
              /\ M[p] # NoOptions => H[p] # NoOptions \/ V[p] # NoOptions
              /\ H[p] # NoOptions => M[p].sampleRate >= H[p].sampleRate
              /\ M[p] # NoOptions /\ H[p] = NoOptions => M[p].sampleRate >= V[p].sampleRate
    <2>1. M \in OptionList
      <3>1. CASE Prop = {}
        BY <3>1 DEF OptionList, UpdatedHalOptions
      <3>2. CASE Prop # {}
        BY <1>1, <1>2, <3>2, UpdatedFacts
      <3> QED
        BY <3>1, <3>2
    <2> QED
      BY <1>1, <1>2, <2>1, UpdatedFacts
  <1>4. /\ mClients' = mClients \cup {c}
        /\ mHalEventSubscribeOptions' = M
        /\ mSubscriptions' = [mSubscriptions EXCEPT ![c] =
               [p \in Prop |-> MergeSubscribeOptions(mSubscriptions[c][p], V[p])]]
        /\ mPropToClients' = [p \in Prop |->
               IF V[p] # NoOptions THEN mPropToClients[p] \cup {c} ELSE mPropToClients[p]]
        /\ updatedOptions' = [updatedOptions EXCEPT ![t] =
               [p \in Prop |-> IF M[p] # H[p] THEN M[p] ELSE NoOptions]]
        /\ raced' = raced \cup {p \in Prop : M[p] # H[p] /\ IsPending(p)}
        /\ c \in dead \ obituary =>
              \A p \in Prop : options[p] # NoOptions => <<c, p>> \in late'
        /\ late \subseteq late' /\ late' \in SUBSET (Client \X Prop)
        /\ IsIdle(t)
        /\ UNCHANGED <<dead, obituary, queueVars, consumerVars, timerVars, deadProps, outgoing,
                       destructor>>
    <2>1. OutUpdatedSubscriptions(V) = {p \in Prop : M[p] # H[p]}
      BY DEF OutUpdatedSubscriptions
    <2>2. /\ AddOrUpdateSubscription(c, V)
          /\ IsIdle(t)
          /\ updatedOptions' = [updatedOptions EXCEPT ![t] =
                 [p \in Prop |-> IF p \in OutUpdatedSubscriptions(V) THEN M[p] ELSE NoOptions]]
          /\ raced' = raced \cup {p \in OutUpdatedSubscriptions(V) : IsPending(p)}
          /\ UNCHANGED <<queueVars, consumerVars, timerVars, deadProps, outgoing, destructor>>
      BY DEF Subscribe, V
    <2>3. late' = IF c \in dead \ obituary
                  THEN late \cup {<<c, p>> : p \in {q \in Prop : options[q] # NoOptions}}
                  ELSE late
      BY DEF Subscribe
    <2>4. /\ c \in dead \ obituary =>
               \A p \in Prop : options[p] # NoOptions => <<c, p>> \in late'
          /\ late \subseteq late' /\ late' \in SUBSET (Client \X Prop)
      BY <2>3 DEF Inv, TypeOK
    <2>5. [p \in Prop |-> IF p \in OutUpdatedSubscriptions(V) THEN M[p] ELSE NoOptions]
            = [p \in Prop |-> IF M[p] # H[p] THEN M[p] ELSE NoOptions]
      BY <2>1
    <2>6. {p \in OutUpdatedSubscriptions(V) : IsPending(p)}
            = {p \in Prop : M[p] # H[p] /\ IsPending(p)}
      BY <2>1
    <2> QED
      BY <2>2, <2>4, <2>5, <2>6 DEF AddOrUpdateSubscription
  <1> HIDE DEF M, H
  <1>5. ASSUME NEW p \in Prop
        PROVE  /\ updatedOptions[t][p] = NoOptions
               /\ updatedOptions'[t][p] = IF M[p] # H[p] THEN M[p] ELSE NoOptions
               /\ \A u \in Thread : u # t => updatedOptions'[u][p] = updatedOptions[u][p]
    BY <1>4 DEF Inv, TypeOK, IsIdle, EmptyList
  <1>6. TypeOK'
    <2>1. mSubscriptions' \in [Client -> OptionList]
      <3>1. \A p \in Prop : MergeSubscribeOptions(mSubscriptions[c][p], V[p])
                                \in SubscribeOptions \cup {NoOptions}
        <4>0. mSubscriptions[c] \in OptionList
          BY DEF Inv, TypeOK
        <4>1. \A p \in Prop : /\ mSubscriptions[c][p] \in SubscribeOptions \cup {NoOptions}
                              /\ V[p] \in SubscribeOptions \cup {NoOptions}
          BY <1>1, <4>0 DEF OptionList
        <4> QED
          BY <4>1, MergeFacts
      <3>2. [p \in Prop |-> MergeSubscribeOptions(mSubscriptions[c][p], V[p])] \in OptionList
        BY <3>1 DEF OptionList
      <3> QED
        BY <1>4, <3>2 DEF Inv, TypeOK
    <2>2. mPropToClients' \in [Prop -> SUBSET Client]
      BY <1>4 DEF Inv, TypeOK
    <2>3. updatedOptions' \in [Thread -> OptionList]
      <3>1. [p \in Prop |-> IF M[p] # H[p] THEN M[p] ELSE NoOptions] \in OptionList
        BY <1>3 DEF OptionList
      <3> QED
        BY <1>4, <3>1 DEF Inv, TypeOK
    <2> QED
      BY <1>3, <1>4, <2>1, <2>2, <2>3
         DEF Inv, TypeOK, queueVars, consumerVars, timerVars
  <1>7. \A p \in Prop : /\ M[p] \in SubscribeOptions \cup {NoOptions}
                        /\ H[p] \in SubscribeOptions \cup {NoOptions}
                        /\ V[p] \in SubscribeOptions \cup {NoOptions}
    BY <1>1, <1>2, <1>3 DEF OptionList
  <1>8. RatesInv'
    <2> SUFFICES ASSUME NEW p \in Prop, IsContinuousProperty(p)
                 PROVE  /\ M[p] # NoOptions => M[p].sampleRate >= 1
                        /\ \A u \in Thread : updatedOptions'[u][p] # NoOptions =>
                                               updatedOptions'[u][p].sampleRate >= 1
      BY <1>4 DEF RatesInv, IsContinuousProperty
    <2>1. H[p] # NoOptions => H[p].sampleRate >= 1
      BY DEF Inv, RatesInv, H
    <2>2. M[p] # NoOptions => M[p].sampleRate >= 1
      BY <1>1, <1>3, <1>7, <2>1 DEF SubscribeOptions
    <2>3. \A u \in Thread : updatedOptions[u][p] # NoOptions =>
                                updatedOptions[u][p].sampleRate >= 1
      BY DEF Inv, RatesInv
    <2> QED
      BY <1>5, <2>2, <2>3
  <1>9. SubscribedClientsKnown'
    <2> SUFFICES ASSUME NEW p \in Prop, NEW d \in mPropToClients'[p]
                 PROVE  d \in mClients' /\ mSubscriptions'[d][p] # NoOptions
      BY DEF SubscribedClientsKnown, GetSubscribedProperties
    <2>1. d \in mPropToClients[p] => d \in mClients /\ mSubscriptions[d][p] # NoOptions
      BY DEF Inv, SubscribedClientsKnown, GetSubscribedProperties
    <2>2. d \in mPropToClients[p] \/ (d = c /\ V[p] # NoOptions)
      BY <1>4
    <2>3. CASE d = c
      <3>1. mSubscriptions[c][p] \in SubscribeOptions \cup {NoOptions}
        BY DEF Inv, TypeOK, OptionList
      <3>2. mSubscriptions'[c][p] = MergeSubscribeOptions(mSubscriptions[c][p], V[p])
        BY <1>4 DEF Inv, TypeOK
      <3> QED
        BY <1>4, <1>7, <2>1, <2>2, <2>3, <3>1, <3>2, MergeFacts
    <2>4. CASE d # c
      BY <1>4, <2>1, <2>2, <2>4 DEF Inv, TypeOK
    <2> QED
      BY <2>3, <2>4
  <1>10. OptionsHaveAClient'
    <2> SUFFICES ASSUME NEW p \in Prop, M[p] # NoOptions
                 PROVE  mPropToClients'[p] # {}
      BY <1>4 DEF OptionsHaveAClient
    <2> QED
      BY <1>3, <1>4 DEF Inv, OptionsHaveAClient, H
  <1>11. SubscribedPropertyTicks'
    <2> SUFFICES ASSUME NEW p \in Prop, M[p] # NoOptions, IsContinuousProperty(p),
                        registered[p] = NoEvent
                 PROVE  \E u \in Thread : updatedOptions'[u][p] # NoOptions
      BY <1>4 DEF SubscribedPropertyTicks, IsContinuousProperty, IsPending, timerVars
    <2>1. CASE M[p] # H[p]
      BY <1>5, <2>1
    <2>2. CASE M[p] = H[p]
      <3>1. PICK u \in Thread : updatedOptions[u][p] # NoOptions
        BY <2>2 DEF Inv, SubscribedPropertyTicks, IsPending, H
      <3> QED
        BY <1>5, <3>1
    <2> QED
      BY <2>1, <2>2
  <1>12. PendingInv'
    <2> SUFFICES ASSUME NEW p \in Prop, p \notin raced', NEW u \in Thread,
                        updatedOptions'[u][p] # NoOptions
                 PROVE  /\ updatedOptions'[u][p] = M[p]
                        /\ \A w \in Thread : updatedOptions'[w][p] # NoOptions => w = u
      BY <1>4 DEF PendingInv
    <2>1. CASE M[p] # H[p]
      <3>1. \A w \in Thread : updatedOptions[w][p] = NoOptions
        BY <1>4, <2>1 DEF IsPending
      <3> QED
        BY <1>5, <2>1, <3>1
    <2>2. CASE M[p] = H[p]
      <3>1. p \notin raced
        BY <1>4
      <3>2. u # t /\ updatedOptions[u][p] # NoOptions
        BY <1>5, <2>2
      <3>3. /\ updatedOptions[u][p] = H[p]
            /\ \A w \in Thread : updatedOptions[w][p] # NoOptions => w = u
        BY <3>1, <3>2 DEF Inv, PendingInv, H
      <3> QED
        BY <1>5, <2>2, <3>2, <3>3
    <2> QED
      BY <2>1, <2>2
  <1>13. TimerMatchesOptions'
    <2> SUFFICES ASSUME NEW p \in Prop, IsContinuousProperty(p), p \notin raced',
                        \A u \in Thread : updatedOptions'[u][p] = NoOptions
                 PROVE  registered[p] = IF M[p] = NoOptions THEN NoEvent
                                        ELSE HertzToInterval(M[p].sampleRate)
      BY <1>4 DEF TimerMatchesOptions, IsContinuousProperty, IsPending, timerVars,
                  HertzToInterval
    <2>1. M[p] = H[p] \/ M[p] = NoOptions
      BY <1>5
    <2>2. M[p] = H[p]
      BY <1>3, <2>1
    <2>3. \A u \in Thread : updatedOptions[u][p] = NoOptions
      BY <1>5
    <2>4. p \notin raced
      BY <1>4
    <2> QED
      BY <2>2, <2>3, <2>4 DEF Inv, TimerMatchesOptions, IsPending, H
  <1>14. DeadInv'
    <2> SUFFICES ASSUME NEW p \in Prop, NEW d \in mPropToClients'[p], d \in dead,
                        <<d, p>> \notin late'
                 PROVE  d \in obituary \/ \E u \in Thread : <<d, p>> \in deadProps[u]
      BY <1>4 DEF DeadInv
    <2>1. d \in mPropToClients[p] \/ (d = c /\ options[p] # NoOptions)
      BY <1>1, <1>4
    <2>2. CASE d \in mPropToClients[p]
      BY <1>4, <2>2 DEF Inv, DeadInv
    <2>3. CASE d = c /\ options[p] # NoOptions
      BY <1>4, <2>3
    <2> QED
      BY <2>1, <2>2, <2>3
  <1> QED
    BY <1>6, <1>8, <1>9, <1>10, <1>11, <1>12, <1>13, <1>14 DEF Inv

\* The HAL is told of the options of one property.
LEMMA HalSubscribeInv ==
    ASSUME Inv, NEW t \in Thread, NEW p \in Prop, HalSubscribe(t, p)
    PROVE  Inv'
  <1> USE DEF managerVars, queueVars, consumerVars, timerVars, Timer!Register
  <1> DEFINE interval == HertzToInterval(updatedOptions[t][p].sampleRate)
  <1>1. updatedOptions \in [Thread -> OptionList] /\ updatedOptions[t] \in OptionList
    BY DEF Inv, TypeOK
  <1>2. /\ updatedOptions' = [updatedOptions EXCEPT ![t] = [@ EXCEPT ![p] = NoOptions]]
        /\ \A u \in Thread : \A q \in Prop :
              updatedOptions'[u][q] = IF u = t /\ q = p THEN NoOptions ELSE updatedOptions[u][q]
    BY <1>1 DEF HalSubscribe, OptionList
  <1>3. updatedOptions[t][p] \in SubscribeOptions
    BY <1>1 DEF HalSubscribe, OptionList
  <1>4. IsContinuousProperty(p) => interval \in 1..Second
    <2> SUFFICES ASSUME IsContinuousProperty(p) PROVE interval \in 1..Second
      OBVIOUS
    <2>1. updatedOptions[t][p].sampleRate \in 1..Second
      BY <1>3 DEF Inv, RatesInv, SubscribeOptions, HalSubscribe
    <2> QED
      BY <2>1, IntervalInRange
  <1> HIDE DEF interval
  <1>5. registered' = IF IsContinuousProperty(p) THEN [registered EXCEPT ![p] = interval]
                      ELSE registered
    BY DEF HalSubscribe, interval
  <1>6. UNCHANGED <<managerVars, dead, queueVars, consumerVars, collected, deadProps, outgoing,
                    destructor, raced, late>>
    BY DEF HalSubscribe
  <1>7. TypeOK'
    <2>1. updatedOptions' \in [Thread -> OptionList]
      <3>1. [updatedOptions[t] EXCEPT ![p] = NoOptions] \in OptionList
        BY <1>1 DEF OptionList
      <3> QED
        BY <1>1, <1>2, <3>1
    <2>2. registered' \in [Prop -> (1..Second) \cup {NoEvent}]
      BY <1>4, <1>5 DEF Inv, TypeOK
    <2> QED
      BY <1>6, <2>1, <2>2 DEF Inv, TypeOK
  <1>8. registered \in [Prop -> (1..Second) \cup {NoEvent}]
    BY DEF Inv, TypeOK
  <1>9. RatesInv'
    BY <1>2, <1>6 DEF Inv, RatesInv, IsContinuousProperty
  <1>10. SubscribedClientsKnown' /\ OptionsHaveAClient' /\ DeadInv'
    BY <1>6 DEF Inv, SubscribedClientsKnown, GetSubscribedProperties, OptionsHaveAClient, DeadInv
  <1>11. SubscribedPropertyTicks'
    <2> SUFFICES ASSUME NEW q \in Prop, mHalEventSubscribeOptions[q] # NoOptions,
                        IsContinuousProperty(q), registered'[q] = NoEvent
                 PROVE  \E u \in Thread : updatedOptions'[u][q] # NoOptions
      BY <1>6 DEF SubscribedPropertyTicks, IsContinuousProperty, IsPending
    <2>1. q # p
      BY <1>4, <1>5, <1>8
    <2>2. registered[q] = NoEvent
      BY <1>5, <1>8, <2>1
    <2> QED
      BY <1>2, <2>1, <2>2 DEF Inv, SubscribedPropertyTicks, IsPending
  <1>12. PendingInv'
    BY <1>2, <1>6 DEF Inv, PendingInv
  <1>13. TimerMatchesOptions'
    <2> SUFFICES ASSUME NEW q \in Prop, IsContinuousProperty(q), q \notin raced,
                        \A u \in Thread : updatedOptions'[u][q] = NoOptions
                 PROVE  registered'[q] = IF mHalEventSubscribeOptions[q] = NoOptions THEN NoEvent
                                         ELSE HertzToInterval(mHalEventSubscribeOptions[q].sampleRate)
      BY <1>6 DEF TimerMatchesOptions, IsContinuousProperty, IsPending, HertzToInterval
    <2>1. CASE q = p
      <3>1. updatedOptions[t][p] = mHalEventSubscribeOptions[p] /\ updatedOptions[t][p] # NoOptions
        BY <2>1 DEF Inv, PendingInv, HalSubscribe
      <3> QED
        BY <1>5, <1>8, <2>1, <3>1 DEF interval
    <2>2. CASE q # p
      <3>1. \A u \in Thread : updatedOptions[u][q] = NoOptions
        BY <1>2, <2>2
      <3> QED
        BY <1>5, <1>8, <2>2, <3>1 DEF Inv, TimerMatchesOptions, IsPending
    <2> QED
      BY <2>1, <2>2
  <1> QED
    BY <1>7, <1>9, <1>10, <1>11, <1>12, <1>13 DEF Inv

\* unsubscribe, called by a client or by onCallbackDead.
LEMMA UnsubscribeInv ==
    ASSUME Inv, NEW c \in Client, NEW p \in Prop, UnsubscribeFromHal(c, p),
           deadProps' \in [Thread -> SUBSET (Client \X Prop)],
           \A u \in Thread : \A d \in Client, q \in Prop :
               <<d, q>> \in deadProps[u] /\ ~(d = c /\ q = p) => <<d, q>> \in deadProps'[u]
    PROVE  Inv'
  <1> USE DEF queueVars, consumerVars, timerVars, Timer!Unregister
  <1> DEFINE H == mHalEventSubscribeOptions
             last == LastClientOf(c, p)
  <1>1. /\ mPropToClients \in [Prop -> SUBSET Client]
        /\ H \in OptionList
        /\ registered \in [Prop -> (1..Second) \cup {NoEvent}]
        /\ updatedOptions \in [Thread -> OptionList]
        /\ mSubscriptions \in [Client -> OptionList]
    BY DEF Inv, TypeOK
  <1>2. \A q \in Prop : \A d \in mPropToClients[q] :
           d \in mClients /\ mSubscriptions[d][q] # NoOptions
    BY DEF Inv, SubscribedClientsKnown, GetSubscribedProperties
  \* c is no client of p afterwards, known or not.
  <1>3. mPropToClients' = [mPropToClients EXCEPT ![p] = mPropToClients[p] \ {c}]
    <2>1. RemainingClients(c, p) = mPropToClients[p] \ {c}
      BY <1>2 DEF RemainingClients
    <2> QED
      BY <2>1 DEF UnsubscribeFromHal, UnsubscribeLocked
  <1>4. last <=> mPropToClients'[p] = {}
    BY <1>1, <1>3 DEF LastClientOf, UnsubscribeFromHal, UnsubscribeLocked
  <1>5. H' = IF last THEN [H EXCEPT ![p] = NoOptions] ELSE H
    BY DEF UnsubscribeFromHal, UnsubscribeLocked
  <1>6. \/ /\ \A q \in Prop : c \notin mPropToClients'[q]
           /\ mClients' = mClients \ {c} /\ obituary' = obituary \ {c}
           /\ mSubscriptions' = [mSubscriptions EXCEPT ![c] = EmptyList]
        \/ UNCHANGED <<mClients, mSubscriptions, obituary>>
    <2>1. CASE IsClientErased(c, p)
      BY <1>1, <1>3, <2>1 DEF IsClientErased, UnsubscribeFromHal, UnsubscribeLocked
    <2>2. CASE ~IsClientErased(c, p)
      BY <2>2 DEF UnsubscribeFromHal, UnsubscribeLocked
    <2> QED
      BY <2>1, <2>2
  <1>7. /\ registered' = IF last /\ IsContinuousProperty(p)
                         THEN [registered EXCEPT ![p] = NoEvent] ELSE registered
        /\ collected' = collected
        /\ raced' = IF last /\ IsPending(p) THEN raced \cup {p} ELSE raced
        /\ UNCHANGED <<dead, queueVars, consumerVars, updatedOptions, outgoing, destructor, late>>
    BY DEF UnsubscribeFromHal, UnsubscribeLocked
  <1> HIDE DEF H, last
  <1>8. TypeOK'
    <2>1. H' \in OptionList
      BY <1>1, <1>5 DEF OptionList
    <2>2. EmptyList \in OptionList
      BY DEF EmptyList, OptionList
    <2>3. mClients' \subseteq Client /\ obituary' \subseteq dead'
      BY <1>6, <1>7 DEF Inv, TypeOK
    <2>4. mSubscriptions' \in [Client -> OptionList]
      BY <1>1, <1>6, <2>2
    <2>5. /\ registered' \in [Prop -> (1..Second) \cup {NoEvent}]
          /\ raced' \subseteq Prop
          /\ mPropToClients' \in [Prop -> SUBSET Client]
      BY <1>1, <1>3, <1>7 DEF Inv, TypeOK
    <2> QED
      BY <1>7, <2>1, <2>3, <2>4, <2>5 DEF Inv, TypeOK, H
  <1>9. RatesInv'
    BY <1>1, <1>5, <1>7 DEF Inv, RatesInv, IsContinuousProperty, H, OptionList
  <1>10. SubscribedClientsKnown'
    <2> SUFFICES ASSUME NEW q \in Prop, NEW d \in mPropToClients'[q]
                 PROVE  d \in mClients' /\ mSubscriptions'[d][q] # NoOptions
      BY DEF SubscribedClientsKnown, GetSubscribedProperties
    <2>1. d \in mPropToClients[q] /\ d \in Client
      BY <1>1, <1>3
    <2> QED
      BY <1>1, <1>2, <1>6, <2>1
  <1>11. OptionsHaveAClient'
    <2> SUFFICES ASSUME NEW q \in Prop, H'[q] # NoOptions PROVE mPropToClients'[q] # {}
      BY DEF OptionsHaveAClient, H
    <2>1. CASE q = p
      BY <1>1, <1>4, <1>5, <2>1 DEF OptionList
    <2>2. CASE q # p
      BY <1>1, <1>3, <1>5, <2>2 DEF Inv, OptionsHaveAClient, H, OptionList
    <2> QED
      BY <2>1, <2>2
  <1>12. \A q \in Prop : IsPending(q)' <=> IsPending(q)
    BY <1>7 DEF IsPending
  <1>13. SubscribedPropertyTicks'
    <2> SUFFICES ASSUME NEW q \in Prop, H'[q] # NoOptions, IsContinuousProperty(q)
                 PROVE  registered'[q] # NoEvent \/ IsPending(q)
      BY <1>12 DEF SubscribedPropertyTicks, IsContinuousProperty, H
    <2>1. ~(last /\ q = p) /\ H[q] # NoOptions
      BY <1>1, <1>5 DEF OptionList
    <2>2. registered'[q] = registered[q]
      BY <1>1, <1>7, <2>1
    <2> QED
      BY <2>1, <2>2 DEF Inv, SubscribedPropertyTicks, H
  <1>14. PendingInv'
    <2> SUFFICES ASSUME NEW q \in Prop, q \notin raced', NEW u \in Thread,
                        updatedOptions[u][q] # NoOptions
                 PROVE  /\ updatedOptions[u][q] = H'[q]
                        /\ \A w \in Thread : updatedOptions[w][q] # NoOptions => w = u
      BY <1>7 DEF PendingInv, H
    <2>1. q \notin raced /\ ~(last /\ q = p)
      BY <1>7 DEF IsPending
    <2>2. H'[q] = H[q]
      BY <1>1, <1>5, <2>1 DEF OptionList
    <2> QED
      BY <2>1, <2>2 DEF Inv, PendingInv, H
  <1>15. TimerMatchesOptions'
    <2> SUFFICES ASSUME NEW q \in Prop, IsContinuousProperty(q), q \notin raced', ~IsPending(q)
                 PROVE  registered'[q] = IF H'[q] = NoOptions THEN NoEvent
                                         ELSE HertzToInterval(H'[q].sampleRate)
      BY <1>12 DEF TimerMatchesOptions, IsContinuousProperty, HertzToInterval, H
    <2>1. CASE last /\ q = p
      BY <1>1, <1>5, <1>7, <2>1 DEF OptionList
    <2>2. CASE ~(last /\ q = p)
      <3>1. H'[q] = H[q] /\ registered'[q] = registered[q]
        BY <1>1, <1>5, <1>7, <2>2 DEF OptionList
      <3>2. q \notin raced
        BY <1>7
      <3> QED
        BY <3>1, <3>2 DEF Inv, TimerMatchesOptions, H
    <2> QED
      BY <2>1, <2>2
  <1>16. DeadInv'
    <2> SUFFICES ASSUME NEW q \in Prop, NEW d \in mPropToClients'[q], d \in dead,
                        <<d, q>> \notin late
                 PROVE  d \in obituary' \/ \E u \in Thread : <<d, q>> \in deadProps'[u]
      BY <1>7 DEF DeadInv
    <2>1. d \in mPropToClients[q] /\ ~(d = c /\ q = p) /\ d \in Client
      BY <1>1, <1>3
    <2>2. d \in obituary \/ \E u \in Thread : <<d, q>> \in deadProps[u]
      BY <2>1 DEF Inv, DeadInv
    <2>3. d \in obituary => d \in obituary'
      BY <1>6
    <2> QED
      BY <2>1, <2>2, <2>3
  <1> QED
    BY <1>8, <1>9, <1>10, <1>11, <1>13, <1>14, <1>15, <1>16 DEF Inv

\* A client dies: its death is announced if it has subscriptions.
LEMMA ClientDiesInv ==
    ASSUME Inv, NEW c \in Client, ClientDies(c)
    PROVE  Inv'
  <1> USE DEF ClientDies, Die, queueVars, consumerVars, timerVars, callVars
  <1>1. TypeOK'
    BY DEF Inv, TypeOK
  <1>2. RatesInv' /\ OptionsHaveAClient' /\ PendingInv'
    BY DEF Inv, RatesInv, OptionsHaveAClient, PendingInv
  <1>3. SubscribedClientsKnown'
    BY DEF Inv, SubscribedClientsKnown, GetSubscribedProperties
  <1>4. SubscribedPropertyTicks' /\ TimerMatchesOptions'
    BY DEF Inv, SubscribedPropertyTicks, TimerMatchesOptions, IsPending
  <1>5. DeadInv'
    BY DEF Inv, SubscribedClientsKnown, GetSubscribedProperties, DeadInv
  <1> QED
    BY <1>1, <1>2, <1>3, <1>4, <1>5 DEF Inv

\* onCallbackDead takes note of everything the client subscribes to.
LEMMA OnCallbackDeadInv ==
    ASSUME Inv, NEW t \in Thread, NEW c \in Client, OnCallbackDead(t, c)
    PROVE  Inv'
  <1> USE DEF queueVars, consumerVars, timerVars
  <1> DEFINE noted == {<<c, p>> : p \in GetSubscribedProperties(c)}
  <1>1. /\ deadProps' = [deadProps EXCEPT ![t] = noted]
        /\ deadProps[t] = {}
        /\ obituary' = obituary \ {c}
        /\ UNCHANGED <<mClients, mSubscriptions, mPropToClients, mHalEventSubscribeOptions, dead,
                       queueVars, consumerVars, timerVars, updatedOptions, outgoing, destructor,
                       raced, late>>
    BY DEF OnCallbackDead, IsIdle
  <1>2. noted \in SUBSET (Client \X Prop)
    BY DEF GetSubscribedProperties
  <1>3. \A p \in Prop : p \in GetSubscribedProperties(c) => <<c, p>> \in noted
    OBVIOUS
  <1> HIDE DEF noted
  <1>4. TypeOK'
    BY <1>1, <1>2 DEF Inv, TypeOK
  <1>5. RatesInv' /\ OptionsHaveAClient' /\ PendingInv'
    BY <1>1 DEF Inv, RatesInv, OptionsHaveAClient, PendingInv
  <1>6. SubscribedClientsKnown'
    BY <1>1 DEF Inv, SubscribedClientsKnown, GetSubscribedProperties
  <1>7. SubscribedPropertyTicks' /\ TimerMatchesOptions'
    BY <1>1 DEF Inv, SubscribedPropertyTicks, TimerMatchesOptions, IsPending
  <1>8. DeadInv'
    <2> SUFFICES ASSUME NEW p \in Prop, NEW d \in mPropToClients[p], d \in dead,
                        <<d, p>> \notin late
                 PROVE  d \in obituary' \/ \E u \in Thread : <<d, p>> \in deadProps'[u]
      BY <1>1 DEF DeadInv
    <2>1. CASE d = c
      <3>1. <<d, p>> \in noted
        BY <1>3, <2>1 DEF Inv, SubscribedClientsKnown
      <3> QED
        BY <1>1, <3>1 DEF Inv, TypeOK
    <2>2. CASE d # c
      <3>1. d \in obituary \/ \E u \in Thread : <<d, p>> \in deadProps[u]
        BY DEF Inv, DeadInv
      <3> QED
        BY <1>1, <2>2, <3>1 DEF Inv, TypeOK
    <2> QED
      BY <2>1, <2>2
  <1> QED
    BY <1>4, <1>5, <1>6, <1>7, <1>8 DEF Inv

\* Every step preserves the invariant.
LEMMA NextInv ==
    ASSUME Inv, [Next]_vars
    PROVE  Inv'
  <1>1. ASSUME NEW t \in Thread, NEW c \in Client, NEW options \in RequestedLists,
               Subscribe(t, c, options)
        PROVE  Inv'
    BY <1>1, SubscribeInv
  <1>2. ASSUME NEW t \in Thread, NEW c \in Client, NEW p \in Prop, Unsubscribe(t, c, p)
        PROVE  Inv'
    <2>1. UnsubscribeFromHal(c, p) /\ deadProps' = deadProps
      BY <1>2 DEF Unsubscribe
    <2>2. deadProps' \in [Thread -> SUBSET (Client \X Prop)]
      BY <2>1 DEF Inv, TypeOK
    <2> QED
      BY <2>1, <2>2, UnsubscribeInv
  <1>3. ASSUME NEW t \in Thread, NEW c \in Client, NEW p \in Prop, UnsubscribeDead(t, c, p)
        PROVE  Inv'
    <2>1. /\ UnsubscribeFromHal(c, p)
          /\ deadProps' = [deadProps EXCEPT ![t] = @ \ {<<c, p>>}]
          /\ deadProps \in [Thread -> SUBSET (Client \X Prop)]
      BY <1>3 DEF UnsubscribeDead, Inv, TypeOK
    <2>2. deadProps' \in [Thread -> SUBSET (Client \X Prop)]
      BY <2>1
    <2>3. \A u \in Thread : \A d \in Client, q \in Prop :
             <<d, q>> \in deadProps[u] /\ ~(d = c /\ q = p) => <<d, q>> \in deadProps'[u]
      BY <2>1
    <2> QED
      BY <2>1, <2>2, <2>3, UnsubscribeInv
  <1>4. ASSUME NEW p \in Prop, Set(p) \/ SetPropertyFromVehicle(p)
        PROVE  Inv'
    <2>1. HalEvent(p) /\ registered' = registered /\ collected' \in SUBSET Prop
      BY <1>4 DEF Set, SetPropertyFromVehicle, timerVars, Inv, TypeOK
    <2> QED
      BY <2>1, HalEventInv
  <1>5. ASSUME NEW p \in Prop, OnContinuousPropertyTimer(p)
        PROVE  Inv'
    <2>1. HalEvent(p) /\ registered' = registered /\ collected' \in SUBSET Prop
      BY <1>5 DEF OnContinuousPropertyTimer, Timer!Act, Inv, TypeOK
    <2> QED
      BY <2>1, HalEventInv
  <1>6. CASE UNCHANGED vars
    <2> USE <1>6 DEF vars, managerVars, queueVars, consumerVars, timerVars, callVars
    <2>1. TypeOK'
      BY DEF Inv, TypeOK
    <2> QED
      BY <2>1, EventFrame
  <1>7. CASE Input
    BY <1>1, <1>2, <1>4, <1>7, ClientDiesInv, TimerCollectInv, DestructorInv DEF Input
  <1>8. CASE Progress
    BY <1>3, <1>5, <1>8, HalSubscribeInv, OnCallbackDeadInv, ConsumerInv, DestructorInv
       DEF Progress
  <1> QED
    BY <1>6, <1>7, <1>8 DEF Next

-----------------------------------------------------------------------------
(* The theorems. *)

\* The inductive invariant holds of every behaviour of the vehicle HAL.
THEOREM InvHolds == Spec => []Inv
  BY InitInv, NextInv, PTL DEF Spec

\* Every variable keeps its type: no rate or interval leaves its range,
\* whatever rates the clients ask for.
THEOREM TypeCorrect == Spec => []TypeOK
  <1>1. Inv => TypeOK
    BY DEF Inv
  <1> QED
    BY <1>1, InvHolds, PTL

\* The maps of the subscription manager stay in step.
THEOREM ClientsAreKnown == Spec => []SubscribedClientsKnown
  <1>1. Inv => SubscribedClientsKnown
    BY DEF Inv
  <1> QED
    BY <1>1, InvHolds, PTL

\* No merged options outlive the last client of their property.
THEOREM OptionsAreUsed == Spec => []OptionsHaveAClient
  <1>1. Inv => OptionsHaveAClient
    BY DEF Inv
  <1> QED
    BY <1>1, InvHolds, PTL

\* A continuous property that is subscribed to ticks, or is about to, however
\* many calls overtake each other between the manager's lock and the HAL.
THEOREM SubscribersGetTicks == Spec => []SubscribedPropertyTicks
  <1>1. Inv => SubscribedPropertyTicks
    BY DEF Inv
  <1> QED
    BY <1>1, InvHolds, PTL

\* Without such a race the timer has exactly the rate of the merged options.
THEOREM TimerIsRight == Spec => []TimerMatchesOptions
  <1>1. Inv => TimerMatchesOptions
    BY DEF Inv
  <1> QED
    BY <1>1, InvHolds, PTL

\* A client whose death has been handled has no subscription but those it made
\* too late.
THEOREM DeadAreForgotten == Spec => []DeadClientsForgotten
  <1>1. Inv => DeadClientsForgotten
    BY DEF Inv, DeadInv, DeadClientsForgotten, TypeOK
  <1> QED
    BY <1>1, InvHolds, PTL

-----------------------------------------------------------------------------
(* What the HAL relies on, and the safety half of what must happen. *)

\* Each step uses the timer as its specification allows.
LEMMA TimerStep ==
    ASSUME Inv, [Next]_vars
    PROVE  [Timer!Next]_timerVars
  <1> SUFFICES ASSUME timerVars' # timerVars PROVE Timer!Next
    OBVIOUS
  <1>1. ASSUME UNCHANGED timerVars PROVE FALSE
    BY <1>1
  <1>2. ASSUME NEW c \in Client, NEW p \in Prop, UnsubscribeFromHal(c, p)
        PROVE  Timer!Next
    BY <1>1, <1>2 DEF UnsubscribeFromHal, Timer!Next
  <1>3. ASSUME NEW t \in Thread, NEW p \in Prop, HalSubscribe(t, p)
        PROVE  Timer!Next
    <2> DEFINE rate == updatedOptions[t][p].sampleRate
    <2>1. IsContinuousProperty(p) /\ updatedOptions[t][p] # NoOptions
      BY <1>1, <1>3 DEF HalSubscribe
    <2>2. updatedOptions[t][p] \in SubscribeOptions
      BY <2>1 DEF Inv, TypeOK, OptionList
    <2>3. rate \in 0..Second /\ rate >= 1
      BY <2>1, <2>2 DEF Inv, RatesInv, SubscribeOptions
    <2>4. HertzToInterval(rate) \in 1..Second
      BY <2>3, IntervalInRange
    <2>5. Timer!Register(p, HertzToInterval(rate))
      BY <1>3, <2>1 DEF HalSubscribe
    <2> QED
      BY <2>4, <2>5 DEF Timer!Next
  <1>4. CASE Input
    <2>1. ASSUME NEW t \in Thread, NEW c \in Client, NEW options \in RequestedLists,
                 Subscribe(t, c, options)
          PROVE  FALSE
      BY <1>1, <2>1 DEF Subscribe
    <2>2. ASSUME NEW t \in Thread, NEW c \in Client, NEW p \in Prop, Unsubscribe(t, c, p)
          PROVE  Timer!Next
      BY <1>2, <2>2 DEF Unsubscribe
    <2>3. CASE \/ \E c \in Client : ClientDies(c)
               \/ \E p \in Prop : Set(p) \/ SetPropertyFromVehicle(p)
               \/ DestructorRequestStop
      BY <1>1, <2>3 DEF ClientDies, Set, SetPropertyFromVehicle, DestructorRequestStop
    <2>4. ASSUME NEW props \in SUBSET Prop, TimerCollect(props)
          PROVE  Timer!Next
      BY <2>4 DEF TimerCollect, Timer!Next
    <2> QED
      BY <1>4, <2>1, <2>2, <2>3, <2>4 DEF Input
  <1>5. CASE Progress
    <2>1. ASSUME NEW t \in Thread, NEW c \in Client, NEW p \in Prop, UnsubscribeDead(t, c, p)
          PROVE  Timer!Next
      BY <1>2, <2>1 DEF UnsubscribeDead
    <2>2. ASSUME NEW t \in Thread, NEW c \in Client, OnCallbackDead(t, c)
          PROVE  FALSE
      BY <1>1, <2>2 DEF OnCallbackDead
    <2>3. ASSUME NEW p \in Prop, OnContinuousPropertyTimer(p)
          PROVE  Timer!Next
      BY <2>3 DEF OnContinuousPropertyTimer, Timer!Next
    <2>4. CASE Consumer \/ Destructor
      BY <1>1, <2>4 DEF Consumer, RunInternal, OnBatchHalEvent, OnPropertyEvent, EndOfBatch,
                        Destructor, DestructorDeactivate, DestructorWaitStopped
    <2> QED
      BY <1>3, <1>5, <2>1, <2>2, <2>3, <2>4 DEF Progress
  <1> QED
    BY <1>1, <1>4, <1>5 DEF Next, vars

\* The vehicle HAL keeps to the timer's specification, which RecurrentTimer
\* implements: it registers an event only with an interval between a tick and a
\* second, whatever rate a client asked for, and acts only on what the timer's
\* thread has collected.
THEOREM UsesTimerAsSpecified == Spec => Timer!Spec
  <1>1. Init => Timer!Init
    BY DEF Init
  <1>2. Inv /\ [Next]_vars => [Timer!Next]_(Timer!timerVars)
    BY TimerStep DEF timerVars, Timer!timerVars
  <1> QED
    BY <1>1, <1>2, InvHolds, PTL DEF Spec, Timer!Spec

\* The consumer's thread is blocked only while there is nothing for it to do: the
\* queue is empty and has not been deactivated.  No push and no deactivation is
\* lost between the test of the predicate and the wait.
BlockedForAReason == consumer = "blocked" => mQueue = <<>> /\ mIsActive

\* Once a stop has been requested it is not forgotten, although runInternal
\* overwrites mState when it starts: the state says so until the thread has left
\* its loop.
StopRequestKept ==
    /\ destructor # "alive" => mState = "STOP_REQUESTED" \/ consumer \in {"stopped", "done"}
    /\ mIsActive <=> destructor \in {"alive", "stopRequested"}

\* The consumer's thread and the destructor keep both.
LEMMA ConsumerStopKept ==
    ASSUME Inv, BlockedForAReason, StopRequestKept,
           Consumer \/ Destructor \/ DestructorRequestStop
    PROVE  BlockedForAReason' /\ StopRequestKept'
  <1> USE DEF queueVars, consumerVars, BlockedForAReason, StopRequestKept
  <1>1. CASE RunInternal
    BY <1>1
    DEF RunInternal, ConsumerNext, StartConsumer, WhileRunning, WaitForItems, Sleep, Slept, Flush,
        ConsumerStopped, ConsumerStep
  <1>2. CASE OnBatchHalEvent
    BY <1>2 DEF OnBatchHalEvent
  <1>3. CASE (\E c \in Client : OnPropertyEvent(c)) \/ EndOfBatch
    BY <1>3 DEF OnPropertyEvent, EndOfBatch, BatchDone
  <1>4. CASE DestructorRequestStop
    BY <1>4 DEF DestructorRequestStop, RequestStop
  <1>5. CASE Destructor
    BY <1>5 DEF Destructor, DestructorDeactivate, Deactivate, Notified, DestructorWaitStopped
  <1> QED
    BY <1>1, <1>2, <1>3, <1>4, <1>5 DEF Consumer

\* What the HAL and its clients do keeps both, a new value in the queue included.
LEMMA CallsKeepStop ==
    ASSUME Inv, BlockedForAReason, StopRequestKept, [Next]_vars,
           ~(Consumer \/ Destructor \/ DestructorRequestStop)
    PROVE  BlockedForAReason' /\ StopRequestKept'
  <1> USE DEF queueVars, consumerVars
  <1>1. ASSUME UNCHANGED <<queueVars, consumerVars, destructor>>
        PROVE  BlockedForAReason' /\ StopRequestKept'
    BY <1>1 DEF BlockedForAReason, StopRequestKept
  <1>2. ASSUME NEW p \in Prop, HalEvent(p)
        PROVE  BlockedForAReason' /\ StopRequestKept'
    BY <1>2 DEF HalEvent, Push, Notified, BlockedForAReason, StopRequestKept
  <1>3. ASSUME NEW c \in Client, NEW p \in Prop, UnsubscribeFromHal(c, p)
        PROVE  UNCHANGED <<queueVars, consumerVars, destructor>>
    BY <1>3 DEF UnsubscribeFromHal
  <1>4. ASSUME NEW t \in Thread, NEW c \in Client, NEW options \in RequestedLists,
               Subscribe(t, c, options)
        PROVE  UNCHANGED <<queueVars, consumerVars, destructor>>
    BY <1>4 DEF Subscribe
  <1>5. ASSUME NEW t \in Thread, NEW p \in Prop, HalSubscribe(t, p)
        PROVE  UNCHANGED <<queueVars, consumerVars, destructor>>
    BY <1>5 DEF HalSubscribe
  <1>6. CASE \/ UNCHANGED vars \/ \E c \in Client : ClientDies(c)
             \/ \E props \in SUBSET Prop : TimerCollect(props)
             \/ \E t \in Thread, c \in Client : OnCallbackDead(t, c)
    BY <1>1, <1>6 DEF vars, ClientDies, TimerCollect, OnCallbackDead
  <1>7. CASE \E p \in Prop : Set(p) \/ SetPropertyFromVehicle(p) \/ OnContinuousPropertyTimer(p)
    BY <1>2, <1>7 DEF Set, SetPropertyFromVehicle, OnContinuousPropertyTimer
  <1>8. CASE \E t \in Thread, c \in Client, p \in Prop :
                 Unsubscribe(t, c, p) \/ UnsubscribeDead(t, c, p)
    BY <1>1, <1>3, <1>8 DEF Unsubscribe, UnsubscribeDead
  <1> QED
    BY <1>1, <1>4, <1>5, <1>6, <1>7, <1>8 DEF Next, Input, Progress

\* The consumer's thread misses nothing: it blocks only on an empty, active queue,
\* and a request to stop stays visible until the thread has left its loop.  So it
\* can always go on once a value is pushed or the destructor runs.
THEOREM ConsumerMissesNothing == Spec => [](BlockedForAReason /\ StopRequestKept)
  <1>1. Init => BlockedForAReason /\ StopRequestKept
    BY DEF Init, QueueInit, BlockedForAReason, StopRequestKept
  <1>2. Inv /\ BlockedForAReason /\ StopRequestKept /\ [Next]_vars =>
            BlockedForAReason' /\ StopRequestKept'
    BY ConsumerStopKept, CallsKeepStop
  <1> QED
    BY <1>1, <1>2, InvHolds, PTL DEF Spec
=============================================================================
