SPECIFICATION MCSpec
CONSTANTS
    speed = speed
    gear = gear
    Prop = {speed, gear}
    Config <- MCConfig
    Second = 2
    Client = {c1, c2}
    NoOptions = NoOptions
    MaxQueue = 1
    MaxInputs = 4
    Thread = {t1, t2}
    RequestedLists <- MCRequestedLists
    NoEvent = NoEvent
INVARIANTS
    TypeOK
    SubscribedClientsKnown
    OptionsHaveAClient
    SubscribedPropertyTicks
    TimerMatchesOptions
    DeadClientsForgotten
PROPERTIES
    EventsReachSubscribers
    DestructorEnds
CHECK_DEADLOCK FALSE
