--------------------------- MODULE RecurrentTimer ---------------------------
(***************************************************************************)
(* The timer of the vehicle HAL                                            *)
(* (automotive/vehicle/2.0/default/common/include/vhal_v2_0/               *)
(* RecurrentTimer.h): one thread that scans the registered events, calls   *)
(* the action for those that are due and sleeps until the next one, and    *)
(* callers that register, unregister and stop.                             *)
(*                                                                         *)
(* A critical section of mLock is one step.  The clock is read before the  *)
(* lock is taken, in the loop and in registerRecurrentEvent, and           *)
(* notify_one follows the release: both are steps of their own.            *)
(***************************************************************************)
EXTENDS Integers

CONSTANTS
    Cookie, Interval, NoEvent,
    Caller,     \* the threads that call the timer
    MaxClock    \* bound on the clock

VARIABLES
    clock,
    mCookieToEventsMap,  \* [interval, absoluteTime] of each registered cookie
    mStopRequested,
    pc,            \* of the thread: "while", "scan", "action", "wait",
                   \* "waiting" (in wait_until) or "done"
    now,           \* its local variables
    cookies,
    nextEventTime,
    call           \* what each caller is doing, and its local now

vars == <<clock, mCookieToEventsMap, mStopRequested, pc, now, cookies, nextEventTime, call>>

\* TimePoint(Nanos::max()), which no clock value reaches.
InvalidTime == -1

Idle == [op |-> "idle"]
Notifying == [op |-> "notify"]

Event == [interval : Interval, absoluteTime : Nat]

\* A duration that is registered is positive (see ConfigAssumption of
\* VehicleConfig for the rates it is computed from).
IntervalOK ==
    /\ Interval \subseteq Nat \ {0}
    /\ NoEvent \notin Interval /\ NoEvent \notin Event
    /\ MaxClock \in Nat

Registered == {c \in Cookie : mCookieToEventsMap[c] # NoEvent}

Init ==
    /\ clock = 0
    /\ mCookieToEventsMap = [c \in Cookie |-> NoEvent]
    /\ mStopRequested = FALSE
    /\ pc = "while" /\ now = 0 /\ cookies = {} /\ nextEventTime = InvalidTime
    /\ call = [t \in Caller |-> Idle]

Tick ==
    /\ clock < MaxClock
    /\ clock' = clock + 1
    /\ UNCHANGED <<mCookieToEventsMap, mStopRequested, pc, now, cookies, nextEventTime, call>>

----------------------------------------------------------------------------
(* Callers. *)

\* registerRecurrentEvent reads the clock ...
RegisterRecurrentEvent(t, interval, c) ==
    /\ call[t] = Idle /\ ~mStopRequested
    /\ call' = [call EXCEPT ![t] = [op |-> "register", interval |-> interval,
                                    cookie |-> c, now |-> clock]]
    /\ UNCHANGED <<clock, mCookieToEventsMap, mStopRequested, pc, now, cookies, nextEventTime>>

\* ... and inserts the event, aligned to its interval, under the lock.
Insert(t) ==
    /\ call[t].op = "register"
    /\ mCookieToEventsMap' = [mCookieToEventsMap EXCEPT ![call[t].cookie] =
           [interval |-> call[t].interval,
            absoluteTime |-> call[t].now - (call[t].now % call[t].interval)]]
    /\ call' = [call EXCEPT ![t] = Notifying]
    /\ UNCHANGED <<clock, mStopRequested, pc, now, cookies, nextEventTime>>

UnregisterRecurrentEvent(t, c) ==
    /\ call[t] = Idle /\ ~mStopRequested
    /\ mCookieToEventsMap' = [mCookieToEventsMap EXCEPT ![c] = NoEvent]
    /\ call' = [call EXCEPT ![t] = Notifying]
    /\ UNCHANGED <<clock, mStopRequested, pc, now, cookies, nextEventTime>>

\* mCond.notify_one(): only a thread that is in wait_until is woken.
NotifyOne(t) ==
    /\ call[t] = Notifying
    /\ pc' = IF pc = "waiting" THEN "while" ELSE pc
    /\ call' = [call EXCEPT ![t] = Idle]
    /\ UNCHANGED <<clock, mCookieToEventsMap, mStopRequested, now, cookies, nextEventTime>>

\* stop(), from the destructor, when no other call is in progress; it joins the
\* thread after the notification.
StopRequest(t) ==
    /\ \A u \in Caller : call[u] = Idle
    /\ ~mStopRequested
    /\ mStopRequested' = TRUE
    /\ call' = [call EXCEPT ![t] = [op |-> "stop"]]
    /\ UNCHANGED <<clock, mCookieToEventsMap, pc, now, cookies, nextEventTime>>

StopClear(t) ==
    /\ call[t].op = "stop"
    /\ mCookieToEventsMap' = [c \in Cookie |-> NoEvent]
    /\ call' = [call EXCEPT ![t] = Notifying]
    /\ UNCHANGED <<clock, mStopRequested, pc, now, cookies, nextEventTime>>

----------------------------------------------------------------------------
(* The thread. *)

\* The interval multiplier is an integer division; a late event moves by whole
\* intervals, an event that is due just now by one.
UpdateNextEventTime(event, t) ==
    LET multiplier == (t - event.absoluteTime) \div event.interval IN
    [event EXCEPT !.absoluteTime =
        @ + (IF multiplier <= 0 THEN 1 ELSE multiplier) * event.interval]

Due(c) == mCookieToEventsMap[c] # NoEvent /\ mCookieToEventsMap[c].absoluteTime <= now

\* The earliest time in a set, InvalidTime if there is none.
Earliest(times) ==
    IF times = {} THEN InvalidTime ELSE CHOOSE t \in times : \A u \in times : t <= u

While ==
    /\ pc = "while"
    /\ IF mStopRequested THEN pc' = "done" /\ UNCHANGED now
                         ELSE pc' = "scan" /\ now' = clock
    /\ UNCHANGED <<clock, mCookieToEventsMap, mStopRequested, cookies, nextEventTime, call>>

Scan ==
    /\ pc = "scan"
    /\ mCookieToEventsMap' = [c \in Cookie |->
           IF Due(c) THEN UpdateNextEventTime(mCookieToEventsMap[c], now)
                     ELSE mCookieToEventsMap[c]]
    /\ cookies' = {c \in Cookie : Due(c)}
    /\ nextEventTime' = Earliest({mCookieToEventsMap'[c].absoluteTime : c \in Registered})
    /\ pc' = IF cookies' = {} THEN "wait" ELSE "action"
    /\ UNCHANGED <<clock, mStopRequested, now, call>>

\* action(cookies) handles the cookies one by one, without the lock.
Action(c) ==
    /\ pc = "action" /\ c \in cookies
    /\ cookies' = cookies \ {c}
    /\ pc' = IF cookies' = {} THEN "wait" ELSE "action"
    /\ UNCHANGED <<clock, mCookieToEventsMap, mStopRequested, now, nextEventTime, call>>

\* wait_until has no predicate: the thread sleeps whatever has been registered,
\* or stopped, since the scan.
Wait ==
    /\ pc = "wait"
    /\ pc' = "waiting"
    /\ UNCHANGED <<clock, mCookieToEventsMap, mStopRequested, now, cookies, nextEventTime, call>>

\* The time has come.
TimedOut ==
    /\ pc = "waiting"
    /\ nextEventTime # InvalidTime /\ nextEventTime <= clock
    /\ pc' = "while"
    /\ UNCHANGED <<clock, mCookieToEventsMap, mStopRequested, now, cookies, nextEventTime, call>>

Next ==
    \/ Tick
    \/ \E t \in Caller :
          \/ \E i \in Interval, c \in Cookie : RegisterRecurrentEvent(t, i, c)
          \/ Insert(t)
          \/ \E c \in Cookie : UnregisterRecurrentEvent(t, c)
          \/ NotifyOne(t)
          \/ StopRequest(t)
          \/ StopClear(t)
    \/ While
    \/ Scan
    \/ \E c \in Cookie : Action(c)
    \/ Wait
    \/ TimedOut

Spec == Init /\ [][Next]_vars

----------------------------------------------------------------------------
(* Properties. *)

Call ==
    [op : {"idle", "notify", "stop"}]
        \cup [op : {"register"}, interval : Interval, cookie : Cookie, now : 0..MaxClock]

\* The types of the state.
TypeOK ==
    /\ clock \in 0..MaxClock
    /\ mCookieToEventsMap \in [Cookie -> Event \cup {NoEvent}]
    /\ mStopRequested \in BOOLEAN
    /\ pc \in {"while", "scan", "action", "wait", "waiting", "done"}
    /\ now \in 0..MaxClock
    /\ cookies \in SUBSET Cookie
    /\ nextEventTime \in Nat \cup {InvalidTime}
    /\ call \in [Caller -> Call]

\* The timer's thread never sleeps past an event: when every call has returned,
\* a thread in wait_until will wake in time for each registered event.  It is
\* what the header promises (RecurrentTimer.h:52, "Registers recurrent event for
\* a given interval") and what the test oneInterval counts on.
NeverSleepsPastAnEvent ==
    pc = "waiting" /\ (\A t \in Caller : call[t] = Idle) =>
        \A c \in Registered : /\ nextEventTime # InvalidTime
                              /\ nextEventTime <= mCookieToEventsMap[c].absoluteTime

\* An event is never more than one interval away, however late the thread was
\* when it moved it and however old the clock value it did so with.
DueWithinOneInterval ==
    \A c \in Registered :
        mCookieToEventsMap[c].absoluteTime <= clock + mCookieToEventsMap[c].interval

\* Events stay on multiples of their interval, so that those of a 1 ms and of a
\* 2 ms interval fall together (RecurrentTimer.h:58).
AlignedToInterval ==
    \A c \in Registered :
        mCookieToEventsMap[c].absoluteTime % mCookieToEventsMap[c].interval = 0

\* The specification that VehicleHal relies on: the map without its times, and
\* the cookies the action is still to be called for.
Timer == INSTANCE RecurrentTimerSpec WITH
    registered <- [c \in Cookie |-> IF mCookieToEventsMap[c] = NoEvent THEN NoEvent
                                    ELSE mCookieToEventsMap[c].interval],
    collected <- cookies
=============================================================================
