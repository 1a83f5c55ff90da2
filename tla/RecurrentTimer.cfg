SPECIFICATION Spec
CONSTANTS
    Cookie = {speed}
    Interval = {1, 2}
    NoEvent = NoEvent
    Caller = {t1}
    MaxClock = 3
INVARIANT NeverSleepsPastAnEvent
CHECK_DEADLOCK FALSE
