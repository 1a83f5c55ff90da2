------------------------ MODULE SubscriptionManager ------------------------
(***************************************************************************)
(* The subscriptions of the vehicle HAL                                    *)
(* (automotive/vehicle/2.0/default/common/src/SubscriptionManager.cpp).    *)
(* Each operation is one critical section of mLock, so one step.           *)
(*                                                                         *)
(* A list of options is a function from the properties: NoOptions for a    *)
(* property the list does not name.                                        *)
(***************************************************************************)
EXTENDS VehicleConfig

CONSTANTS Client, NoOptions

VARIABLES
    mClients,         \* the clients that have a HalClient, linked to their death
    mSubscriptions,   \* of the HalClient of each client, by property
    mPropToClients,   \* the clients of each property
    mHalEventSubscribeOptions,  \* merged, for the properties subscribed to in the HAL
    dead,             \* the clients that died
    obituary          \* those whose death is still to be announced

managerVars == <<mClients, mSubscriptions, mPropToClients, mHalEventSubscribeOptions, obituary>>

SubscribeOptions == [sampleRate : 0..Second, flags : SUBSET SubscribeFlags]
OptionList == [Prop -> SubscribeOptions \cup {NoOptions}]
EmptyList == [p \in Prop |-> NoOptions]

ManagerInit ==
    /\ mClients = {}
    /\ mSubscriptions = [c \in Client |-> EmptyList]
    /\ mPropToClients = [p \in Prop |-> {}]
    /\ mHalEventSubscribeOptions = EmptyList
    /\ dead = {} /\ obituary = {}

\* The result of adding options to those there are, if any: the higher rate and
\* the flags of both.
MergeSubscribeOptions(old, new) ==
    CASE new = NoOptions -> old
      [] old = NoOptions -> new
      [] OTHER -> [sampleRate |-> IF new.sampleRate > old.sampleRate
                                  THEN new.sampleRate ELSE old.sampleRate,
                   flags |-> old.flags \cup new.flags]

\* The options that go to the HAL: only events from the car come from there.
CarOptions(options) ==
    [p \in Prop |-> IF options[p] # NoOptions /\ "EVENTS_FROM_CAR" \in options[p].flags
                    THEN options[p] ELSE NoOptions]

UpdatedHalOptions(options) ==
    [p \in Prop |-> MergeSubscribeOptions(mHalEventSubscribeOptions[p], CarOptions(options)[p])]

\* Mutant: the HAL is told of new properties only, not of a higher rate.
OutNewSubscriptions(options) ==
    {p \in Prop : CarOptions(options)[p] # NoOptions /\ mHalEventSubscribeOptions[p] = NoOptions}

\* The properties of *outUpdatedSubscriptions.
OutUpdatedSubscriptions(options) ==
    {p \in Prop : UpdatedHalOptions(options)[p] # mHalEventSubscribeOptions[p]}

\* getOrCreateHalClientLocked: linkToDeath fails for a client that is dead.  (The
\* code asks isOk() of the call; a failure that the transport does not report would
\* leave subscriptions like those of VehicleHal's history variable late.)
CanGetOrCreateHalClient(c) == c \in mClients \/ c \notin dead

AddOrUpdateSubscription(c, options) ==
    /\ CanGetOrCreateHalClient(c)
    /\ mClients' = mClients \cup {c}
    /\ mSubscriptions' = [mSubscriptions EXCEPT ![c] =
           [p \in Prop |-> MergeSubscribeOptions(mSubscriptions[c][p], options[p])]]
    /\ mPropToClients' = [p \in Prop |->
           IF options[p] # NoOptions THEN mPropToClients[p] \cup {c} ELSE mPropToClients[p]]
    /\ mHalEventSubscribeOptions' = UpdatedHalOptions(options)
    /\ UNCHANGED <<dead, obituary>>

\* The clients of a property once c, if it is known, is removed from them.
RemainingClients(c, p) ==
    IF c \in mClients THEN mPropToClients[p] \ {c} ELSE mPropToClients[p]

\* Mutant: the clients are looked at before c is removed.
NoClientsOf(c, p) == mPropToClients[p] = {}

\* Nobody is left, so mOnPropertyUnsubscribed is called.
LastClientOf(c, p) == RemainingClients(c, p) = {}

\* Mutant: the client's other properties are not looked at.
IsClientKnown(c, p) == c \in mClients

\* A client with no other property is unlinked and erased with its HalClient.
\* The HalClient of one that stays keeps the options of p in mSubscriptions.
IsClientErased(c, p) ==
    /\ c \in mClients
    /\ \A q \in Prop \ {p} : c \notin mPropToClients[q]

UnsubscribeLocked(c, p) ==
    /\ mPropToClients' = [mPropToClients EXCEPT ![p] = RemainingClients(c, p)]
    /\ mHalEventSubscribeOptions' =
           IF LastClientOf(c, p) THEN [mHalEventSubscribeOptions EXCEPT ![p] = NoOptions]
                                 ELSE mHalEventSubscribeOptions
    /\ IF IsClientErased(c, p)
       THEN /\ mClients' = mClients \ {c}
            /\ mSubscriptions' = [mSubscriptions EXCEPT ![c] = EmptyList]
            /\ obituary' = obituary \ {c}
       ELSE UNCHANGED <<mClients, mSubscriptions, obituary>>
    /\ UNCHANGED dead

\* A client dies: the HAL hears of it if the client is linked.
Die(c) ==
    /\ c \notin dead
    /\ dead' = dead \cup {c}
    /\ obituary' = IF c \in mClients THEN obituary \cup {c} ELSE obituary
    /\ UNCHANGED <<mClients, mSubscriptions, mPropToClients, mHalEventSubscribeOptions>>

\* Mutant: only the properties the client has car events of.
GetCarProperties(c) ==
    IF c \in mClients
    THEN {p \in Prop : CarOptions(mSubscriptions[c])[p] # NoOptions} ELSE {}

\* getSubscribedProperties, also those it has unsubscribed from since.
GetSubscribedProperties(c) ==
    IF c \in mClients THEN {p \in Prop : mSubscriptions[c][p] # NoOptions} ELSE {}

IsSubscribed(c, p, flag) ==
    /\ c \in mPropToClients[p]
    /\ mSubscriptions[c][p] # NoOptions
    /\ flag \in mSubscriptions[c][p].flags

\* For each client, the properties of the values that are for it.
DistributeValuesToClients(values) ==
    [c \in Client |-> {p \in values : IsSubscribed(c, p, "EVENTS_FROM_CAR")}]
=============================================================================
