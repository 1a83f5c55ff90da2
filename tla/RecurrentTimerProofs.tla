------------------------ MODULE RecurrentTimerProofs ------------------------
(***************************************************************************)
(* Proofs about RecurrentTimer, for every set of cookies, intervals and    *)
(* callers: the types, where the events lie in time, and that the timer    *)
(* implements the specification that VehicleHal relies on.                 *)
(***************************************************************************)
EXTENDS RecurrentTimer, WellFoundedInduction, TLAPS

(* The parts of the inductive invariant that RecurrentTimer does not name. *)

\* The clock values that the thread and the callers hold are not in the future.
PastInv ==
    /\ now <= clock
    /\ \A t \in Caller : call[t].op = "register" => call[t].now <= clock

\* The thread has cookies to handle only while it calls the action.
CookiesInv == pc # "action" => cookies = {}

Inv ==
    /\ TypeOK
    /\ PastInv
    /\ CookiesInv
    /\ DueWithinOneInterval
    /\ AlignedToInterval

-----------------------------------------------------------------------------
(* Arithmetic. *)

\* The largest multiple of an interval that is not after a time.
LEMMA AlignedPast ==
    ASSUME NEW t \in Nat, NEW i \in Nat \ {0}
    PROVE  /\ t - (t % i) \in Nat
           /\ t - (t % i) <= t
           /\ (t - (t % i)) % i = 0
  <1> DEFINE q == t \div i
             r == t % i
  <1>1. q \in Int /\ r \in 0..(i - 1) /\ t = i * q + r
    OBVIOUS
  <1>2. q >= 0
    <2> SUFFICES ASSUME q <= -1 PROVE FALSE
      BY <1>1
    <2>1. i * q <= i * (-1)
      BY <1>1
    <2> QED
      BY <1>1, <2>1
  <1>3. i * q >= 0
    BY <1>1, <1>2
  <1>4. (i * q) % i = 0
    BY <1>1
  <1> QED
    BY <1>1, <1>3, <1>4

\* Moving an event that is due: forwards, by whole intervals, and to at most one
\* interval after the time it was moved at.
LEMMA MoveInTime ==
    ASSUME NEW i \in Nat \ {0}, NEW a \in Nat, NEW t \in Nat, a <= t
    PROVE  LET m == (t - a) \div i
               k == IF m <= 0 THEN 1 ELSE m
           IN  /\ a + k * i \in Nat
               /\ a + k * i <= t + i
               /\ a % i = 0 => (a + k * i) % i = 0
  <1> DEFINE d == t - a
             m == d \div i
             k == IF m <= 0 THEN 1 ELSE m
  <1>1. d \in Nat /\ m \in Int /\ d % i \in 0..(i - 1) /\ d = i * m + (d % i)
    OBVIOUS
  <1>2. k \in Nat \ {0}
    BY <1>1
  <1>3. k * i \in Nat
    BY <1>2
  <1>4. k * i <= d + i
    <2>1. CASE m <= 0
      BY <2>1, <1>1
    <2>2. CASE m > 0
      <3>1. k * i = i * m
        BY <2>2, <1>1
      <3> QED
        BY <3>1, <1>1
    <2> QED
      BY <2>1, <2>2, <1>1
  <1>5. ASSUME a % i = 0 PROVE (a + k * i) % i = 0
    <2> DEFINE b == a \div i
    <2>1. b \in Int /\ a = i * b
      BY <1>5
    <2>2. a + k * i = i * (b + k)
      BY <2>1, <1>2
    <2>3. (i * (b + k)) % i = 0
      BY <2>1, <1>2
    <2> QED
      BY <2>2, <2>3
  <1> QED
    BY <1>1, <1>2, <1>3, <1>4, <1>5

\* The time the thread sleeps to is the earliest one, if there is any.
LEMMA EarliestIsLeast ==
    ASSUME NEW times \in SUBSET Nat, times # {}
    PROVE  Earliest(times) \in times /\ \A u \in times : Earliest(times) <= u
  <1> DEFINE R == OpToRel(<, Nat)
  <1>1. \E t \in times : \A u \in times : ~(<<u, t>> \in R)
    <2> HIDE DEF R
    <2>1. IsWellFoundedOn(R, Nat)
      BY NatLessThanWellFounded DEF R
    <2> QED
      BY <2>1, WFMin
  <1>2. \E t \in times : \A u \in times : t <= u
    <2>1. PICK t \in times : \A u \in times : ~(<<u, t>> \in R)
      BY <1>1
    <2>2. ASSUME NEW u \in times PROVE t <= u
      <3>1. ~(u < t)
        BY <2>1 DEF OpToRel
      <3> QED
        BY <3>1
    <2> QED
      BY <2>2
  <1> QED
    BY <1>2 DEF Earliest

\* It is a time or InvalidTime.
LEMMA EarliestType ==
    ASSUME NEW times \in SUBSET Nat
    PROVE  Earliest(times) \in Nat \cup {InvalidTime}
  <1>1. CASE times = {}
    BY <1>1 DEF Earliest
  <1>2. CASE times # {}
    BY <1>2, EarliestIsLeast
  <1> QED
    BY <1>1, <1>2

-----------------------------------------------------------------------------
(* The invariant. *)

\* What the initial state looks like.
LEMMA InitInv == ASSUME IntervalOK, Init PROVE Inv
  <1>1. TypeOK
    <2>1. clock \in 0..MaxClock /\ now \in 0..MaxClock
      BY DEF Init, IntervalOK
    <2>2. call \in [Caller -> Call]
      BY DEF Init, Idle, Call
    <2> QED
      BY <2>1, <2>2 DEF Init, TypeOK
  <1>2. PastInv /\ CookiesInv
    BY DEF Init, PastInv, CookiesInv, Idle
  <1>3. DueWithinOneInterval /\ AlignedToInterval
    <2>1. Registered = {}
      BY DEF Init, Registered
    <2> QED
      BY <2>1 DEF DueWithinOneInterval, AlignedToInterval
  <1> QED
    BY <1>1, <1>2, <1>3 DEF Inv

\* What a caller at Insert has in its hands.
LEMMA InsertArguments ==
    ASSUME IntervalOK, Inv, NEW t \in Caller, Insert(t)
    PROVE  /\ call[t].interval \in Nat \ {0} /\ call[t].interval \in Interval
           /\ call[t].cookie \in Cookie
           /\ call[t].now \in Nat /\ call[t].now <= clock
  <1>1. call[t] \in Call /\ call[t].op = "register"
    BY DEF Insert, Inv, TypeOK
  <1>2. call[t] \in [op : {"register"}, interval : Interval, cookie : Cookie, now : 0..MaxClock]
    BY <1>1 DEF Call
  <1>3. call[t].now <= clock
    BY <1>1 DEF Inv, PastInv
  <1>4. /\ call[t].interval \in Interval /\ call[t].cookie \in Cookie
        /\ call[t].now \in 0..MaxClock
    BY <1>2
  <1>5. call[t].interval \in Nat \ {0}
    BY <1>4 DEF IntervalOK
  <1>6. call[t].now \in Nat
    BY <1>4 DEF IntervalOK
  <1> QED
    BY <1>3, <1>4, <1>5, <1>6

\* A new event is at the last multiple of its interval.
LEMMA InsertInv ==
    ASSUME IntervalOK, Inv, NEW t \in Caller, Insert(t)
    PROVE  Inv'
  <1> DEFINE r == call[t]
             e == [interval |-> r.interval, absoluteTime |-> r.now - (r.now % r.interval)]
  <1>1. /\ r.interval \in Nat \ {0} /\ r.interval \in Interval /\ r.cookie \in Cookie
        /\ r.now \in Nat /\ r.now <= clock
    BY InsertArguments
  <1>2. /\ e.absoluteTime \in Nat
        /\ e.absoluteTime <= r.now
        /\ e.absoluteTime % e.interval = 0
    BY <1>1, AlignedPast
  <1>3. e \in Event
    BY <1>1, <1>2 DEF Event
  <1>4. mCookieToEventsMap' = [mCookieToEventsMap EXCEPT ![r.cookie] = e]
    BY DEF Insert
  <1>5. e.interval \in Nat /\ clock \in Nat
    BY <1>1 DEF Inv, TypeOK, IntervalOK
  <1> HIDE DEF e
  <1>6. TypeOK'
    <2>1. mCookieToEventsMap' \in [Cookie -> Event \cup {NoEvent}]
      BY <1>1, <1>3, <1>4 DEF Inv, TypeOK
    <2>2. call' \in [Caller -> Call]
      BY DEF Insert, Inv, TypeOK, Notifying, Call
    <2> QED
      BY <2>1, <2>2 DEF Insert, Inv, TypeOK
  <1>7. PastInv' /\ CookiesInv'
    BY DEF Insert, Inv, TypeOK, PastInv, CookiesInv, Notifying
  <1>8. \A c \in Registered' :
           /\ mCookieToEventsMap'[c].absoluteTime <= clock + mCookieToEventsMap'[c].interval
           /\ mCookieToEventsMap'[c].absoluteTime % mCookieToEventsMap'[c].interval = 0
    <2> SUFFICES ASSUME NEW c \in Registered'
                 PROVE  /\ mCookieToEventsMap'[c].absoluteTime
                              <= clock + mCookieToEventsMap'[c].interval
                        /\ mCookieToEventsMap'[c].absoluteTime % mCookieToEventsMap'[c].interval = 0
      OBVIOUS
    <2>1. CASE c = r.cookie
      <3>1. mCookieToEventsMap'[c] = e
        BY <2>1, <1>1, <1>4 DEF Inv, TypeOK
      <3> QED
        BY <3>1, <1>1, <1>2, <1>5
    <2>2. CASE c # r.cookie
      <3>1. mCookieToEventsMap'[c] = mCookieToEventsMap[c] /\ c \in Registered
        BY <2>2, <1>4 DEF Registered, Inv, TypeOK
      <3> QED
        BY <3>1 DEF Inv, DueWithinOneInterval, AlignedToInterval
    <2> QED
      BY <2>1, <2>2
  <1>9. clock' = clock
    BY DEF Insert
  <1> QED
    BY <1>6, <1>7, <1>8, <1>9 DEF Inv, DueWithinOneInterval, AlignedToInterval

\* Events that go away leave the others where they were.
LEMMA RemoveInv ==
    ASSUME IntervalOK, Inv, NEW t \in Caller,
           StopClear(t) \/ \E c \in Cookie : UnregisterRecurrentEvent(t, c)
    PROVE  Inv'
  <1>1. mCookieToEventsMap' \in [Cookie -> Event \cup {NoEvent}]
    BY DEF StopClear, UnregisterRecurrentEvent, Inv, TypeOK
  <1>2. TypeOK'
    BY <1>1 DEF StopClear, UnregisterRecurrentEvent, Inv, TypeOK, Notifying, Call
  <1>3. PastInv' /\ CookiesInv'
    BY DEF StopClear, UnregisterRecurrentEvent, Inv, TypeOK, PastInv, CookiesInv, Notifying
  <1>4. /\ \A c \in Registered' :
              c \in Registered /\ mCookieToEventsMap'[c] = mCookieToEventsMap[c]
        /\ clock' = clock
    BY DEF StopClear, UnregisterRecurrentEvent, Inv, TypeOK, Registered
  <1> QED
    BY <1>2, <1>3, <1>4 DEF Inv, DueWithinOneInterval, AlignedToInterval

\* The scan moves the events that are due, and makes and drops none.
LEMMA ScanMoves ==
    ASSUME IntervalOK, Inv, Scan, NEW c \in Cookie
    PROVE  LET m == mCookieToEventsMap IN
           /\ m'[c] \in Event \cup {NoEvent}
           /\ m'[c] # NoEvent =>
                 /\ m[c] # NoEvent
                 /\ m'[c].absoluteTime <= clock + m'[c].interval
                 /\ m'[c].absoluteTime % m'[c].interval = 0
           /\ m[c] # NoEvent => m'[c] # NoEvent /\ m'[c].interval = m[c].interval
  <1> DEFINE m == mCookieToEventsMap
  <1>1. CASE Due(c)
    <2> DEFINE a == m[c].absoluteTime
               i == m[c].interval
               multiplier == (now - a) \div i
               k == IF multiplier <= 0 THEN 1 ELSE multiplier
    <2>1. /\ m[c] \in Event /\ m[c] # NoEvent
          /\ a \in Nat /\ i \in Nat \ {0} /\ i \in Interval /\ a <= now /\ a % i = 0
          /\ now \in Nat /\ clock \in Nat /\ now <= clock
      <3>1. m[c] \in Event /\ m[c] # NoEvent /\ a <= now
        BY <1>1 DEF Due, Inv, TypeOK
      <3>2. a \in Nat /\ i \in Nat \ {0} /\ i \in Interval
        BY <3>1 DEF Event, IntervalOK
      <3>3. a % i = 0
        BY <3>1 DEF Inv, AlignedToInterval, Registered
      <3>4. now \in Nat /\ clock \in Nat /\ now <= clock
        BY DEF Inv, TypeOK, PastInv, IntervalOK
      <3> QED
        BY <3>1, <3>2, <3>3, <3>4
    <2>2. /\ a + k * i \in Nat
          /\ a + k * i <= now + i
          /\ (a + k * i) % i = 0
      BY <2>1, MoveInTime
    <2>3. m'[c] = [interval |-> i, absoluteTime |-> a + k * i]
      <3>1. m'[c] = UpdateNextEventTime(m[c], now)
        BY <1>1 DEF Scan
      <3> QED
        BY <3>1, <2>1 DEF UpdateNextEventTime, Event
    <2> HIDE DEF a, i, k
    <2>4. m'[c] \in Event
      BY <2>1, <2>2, <2>3 DEF Event
    <2>5. m'[c] # NoEvent
      BY <2>4 DEF IntervalOK
    <2>6. m'[c].absoluteTime <= clock + m'[c].interval
      BY <2>1, <2>2, <2>3
    <2> QED
      BY <2>1, <2>2, <2>3, <2>4, <2>5, <2>6 DEF i
  <1>2. CASE ~Due(c)
    <2>1. m'[c] = m[c]
      BY <1>2 DEF Scan
    <2> QED
      BY <2>1 DEF Inv, TypeOK, DueWithinOneInterval, AlignedToInterval, Registered
  <1> QED
    BY <1>1, <1>2

\* The scan keeps the invariant.
LEMMA ScanInv ==
    ASSUME IntervalOK, Inv, Scan
    PROVE  Inv'
  <1> DEFINE m == mCookieToEventsMap
  <1>1. \A c \in Cookie :
           /\ m'[c] \in Event \cup {NoEvent}
           /\ m'[c] # NoEvent =>
                 /\ m[c] # NoEvent
                 /\ m'[c].absoluteTime <= clock + m'[c].interval
                 /\ m'[c].absoluteTime % m'[c].interval = 0
           /\ m[c] # NoEvent => m'[c] # NoEvent
    BY ScanMoves
  <1>2. m' \in [Cookie -> Event \cup {NoEvent}]
    BY <1>1 DEF Scan
  <1>3. nextEventTime' \in Nat \cup {InvalidTime}
    <2>1. {mCookieToEventsMap'[c].absoluteTime : c \in Registered} \in SUBSET Nat
      BY <1>1, <1>2 DEF Registered, Event
    <2> QED
      BY <2>1, EarliestType DEF Scan
  <1>4. TypeOK'
    BY <1>2, <1>3 DEF Scan, Inv, TypeOK
  <1>5. PastInv' /\ CookiesInv'
    BY DEF Scan, Inv, PastInv, CookiesInv
  <1>6. DueWithinOneInterval' /\ AlignedToInterval'
    BY <1>1 DEF Scan, DueWithinOneInterval, AlignedToInterval, Registered
  <1> QED
    BY <1>4, <1>5, <1>6 DEF Inv

\* The other steps leave the events alone; time only goes on.
LEMMA OtherInv ==
    ASSUME IntervalOK, Inv,
           \/ Tick \/ While \/ Wait \/ TimedOut
           \/ \E c \in Cookie : Action(c)
           \/ \E t \in Caller :
                 \/ NotifyOne(t) \/ StopRequest(t)
                 \/ \E i \in Interval, c \in Cookie : RegisterRecurrentEvent(t, i, c)
    PROVE  Inv'
  <1>1. /\ UNCHANGED mCookieToEventsMap
        /\ clock \in Nat /\ clock' \in Nat /\ clock <= clock'
    BY DEF Tick, While, Wait, TimedOut, Action, NotifyOne, StopRequest,
           RegisterRecurrentEvent, Inv, TypeOK, IntervalOK
  <1>2. TypeOK'
    <2>1. call' \in [Caller -> Call]
      BY DEF Tick, While, Wait, TimedOut, Action, NotifyOne, StopRequest,
             RegisterRecurrentEvent, Inv, TypeOK, Idle, Notifying, Call
    <2>2. clock' \in 0..MaxClock /\ now' \in 0..MaxClock
      BY DEF Tick, While, Wait, TimedOut, Action, NotifyOne, StopRequest,
             RegisterRecurrentEvent, Inv, TypeOK, IntervalOK
    <2>3. /\ pc' \in {"while", "scan", "action", "wait", "waiting", "done"}
          /\ mStopRequested' \in BOOLEAN /\ cookies' \in SUBSET Cookie
          /\ nextEventTime' = nextEventTime
      BY DEF Tick, While, Wait, TimedOut, Action, NotifyOne, StopRequest,
             RegisterRecurrentEvent, Inv, TypeOK
    <2> QED
      BY <1>1, <2>1, <2>2, <2>3 DEF Inv, TypeOK
  <1>3. PastInv'
    <2>1. now' <= clock'
      BY <1>1 DEF Tick, While, Wait, TimedOut, Action, NotifyOne, StopRequest,
             RegisterRecurrentEvent, Inv, TypeOK, PastInv, IntervalOK
    <2>2. ASSUME NEW u \in Caller, call'[u].op = "register"
          PROVE  call'[u].now <= clock'
      <3>1. CASE call'[u] = call[u]
        <4>1. call[u].now \in Nat /\ call[u].now <= clock
          BY <3>1, <2>2 DEF Inv, TypeOK, PastInv, Call, IntervalOK
        <4> QED
          BY <4>1, <3>1, <1>1
      <3>2. CASE call'[u] # call[u]
        <4>1. \E i \in Interval, c \in Cookie : RegisterRecurrentEvent(u, i, c)
          BY <3>2, <2>2 DEF Tick, While, Wait, TimedOut, Action, NotifyOne, StopRequest,
             RegisterRecurrentEvent, Inv, TypeOK, Idle, Notifying
        <4> QED
          BY <4>1, <1>1 DEF RegisterRecurrentEvent, Inv, TypeOK
      <3> QED
        BY <3>1, <3>2
    <2> QED
      BY <2>1, <2>2 DEF PastInv
  <1>4. CookiesInv'
    BY DEF Tick, While, Wait, TimedOut, Action, NotifyOne, StopRequest,
           RegisterRecurrentEvent, Inv, CookiesInv
  <1>5. DueWithinOneInterval'
    <2> SUFFICES ASSUME NEW c \in Registered
                 PROVE  mCookieToEventsMap[c].absoluteTime
                            <= clock' + mCookieToEventsMap[c].interval
      BY <1>1 DEF DueWithinOneInterval, Registered
    <2>1. mCookieToEventsMap[c] \in Event
      BY DEF Registered, Inv, TypeOK
    <2>2. mCookieToEventsMap[c].absoluteTime \in Nat /\ mCookieToEventsMap[c].interval \in Nat
      BY <2>1 DEF Event, IntervalOK
    <2>3. mCookieToEventsMap[c].absoluteTime <= clock + mCookieToEventsMap[c].interval
      BY DEF Inv, DueWithinOneInterval
    <2> QED
      BY <1>1, <2>2, <2>3
  <1>6. AlignedToInterval'
    BY <1>1 DEF Inv, AlignedToInterval, Registered
  <1> QED
    BY <1>2, <1>3, <1>4, <1>5, <1>6 DEF Inv

\* The timer's invariant.
THEOREM InvHolds == ASSUME IntervalOK PROVE Spec => []Inv
  <1>1. Init => Inv
    BY InitInv
  <1>2. Inv /\ [Next]_vars => Inv'
    <2> SUFFICES ASSUME Inv, [Next]_vars PROVE Inv'
      OBVIOUS
    <2>1. CASE UNCHANGED vars
      BY <2>1 DEF vars, Inv, TypeOK, PastInv, CookiesInv, DueWithinOneInterval,
                  AlignedToInterval, Registered
    <2>2. CASE Next
      BY <2>2, InsertInv, RemoveInv, ScanInv, OtherInv DEF Next
    <2> QED
      BY <2>1, <2>2
  <1> QED
    BY <1>1, <1>2, PTL DEF Spec

\* Every variable keeps its type; the thread's deadline is a time or InvalidTime.
THEOREM TypeCorrect == ASSUME IntervalOK PROVE Spec => []TypeOK
  BY InvHolds, PTL DEF Inv

\* An event is never more than one interval away: updateNextEventTime, with
\* a clock value from before the lock, does not skip into the future.
THEOREM NeverFarAway == ASSUME IntervalOK PROVE Spec => []DueWithinOneInterval
  BY InvHolds, PTL DEF Inv

\* Events stay on multiples of their interval, so that intervals that divide each
\* other fall together (RecurrentTimer.h:58), however late the thread is.
THEOREM StaysAligned == ASSUME IntervalOK PROVE Spec => []AlignedToInterval
  BY InvHolds, PTL DEF Inv

-----------------------------------------------------------------------------
(* Refinement. *)

\* Every step of the timer is one of RecurrentTimerSpec, or a stutter.
LEMMA TimerStep ==
    ASSUME IntervalOK, Inv, Next
    PROVE  [Timer!Next]_(Timer!timerVars)
  <1> DEFINE reg == [c \in Cookie |-> IF mCookieToEventsMap[c] = NoEvent THEN NoEvent
                                      ELSE mCookieToEventsMap[c].interval]
  <1>1. ASSUME UNCHANGED <<mCookieToEventsMap, cookies>>
        PROVE  UNCHANGED Timer!timerVars
    BY <1>1 DEF Timer!timerVars
  <1>2. ASSUME NEW t \in Caller, Insert(t)
        PROVE  Timer!Next
    <2> DEFINE r == call[t]
               e == [interval |-> r.interval, absoluteTime |-> r.now - (r.now % r.interval)]
    <2>1. /\ r.interval \in Nat \ {0} /\ r.interval \in Interval /\ r.cookie \in Cookie
          /\ r.now \in Nat
      BY <1>2, InsertArguments
    <2>2. e \in Event
      BY <2>1, AlignedPast DEF Event
    <2>3. e # NoEvent /\ e.interval = r.interval
      BY <2>2 DEF IntervalOK
    <2>4. mCookieToEventsMap' = [mCookieToEventsMap EXCEPT ![r.cookie] = e]
      BY <1>2 DEF Insert
    <2> HIDE DEF e
    <2>5. reg' = [reg EXCEPT ![r.cookie] = r.interval]
      BY <2>1, <2>3, <2>4 DEF Inv, TypeOK
    <2>6. PICK c \in Cookie, i \in Interval : c = r.cookie /\ i = r.interval
      BY <2>1
    <2>7. Timer!Register(c, i)
      BY <1>2, <2>5, <2>6 DEF Timer!Register, Insert
    <2> QED
      BY <2>7 DEF Timer!Next
  <1>3. ASSUME NEW t \in Caller, NEW c \in Cookie, UnregisterRecurrentEvent(t, c)
        PROVE  Timer!Next
    <2>1. reg' = [reg EXCEPT ![c] = NoEvent]
      BY <1>3 DEF UnregisterRecurrentEvent, Inv, TypeOK
    <2>2. Timer!Unregister(c)
      BY <1>3, <2>1 DEF Timer!Unregister, UnregisterRecurrentEvent
    <2> QED
      BY <2>2 DEF Timer!Next
  <1>4. ASSUME NEW t \in Caller, StopClear(t)
        PROVE  Timer!Next
    <2>1. reg' = [c \in Cookie |-> NoEvent]
      BY <1>4 DEF StopClear
    <2>2. Timer!Clear
      BY <1>4, <2>1 DEF Timer!Clear, StopClear
    <2> QED
      BY <2>2 DEF Timer!Next
  <1>5. CASE Scan
    <2>1. \A c \in Cookie :
             /\ mCookieToEventsMap'[c] = NoEvent <=> mCookieToEventsMap[c] = NoEvent
             /\ mCookieToEventsMap[c] # NoEvent =>
                   mCookieToEventsMap'[c].interval = mCookieToEventsMap[c].interval
      BY <1>5, ScanMoves
    <2>2. reg' = reg
      BY <2>1
    <2>3. CASE cookies' = {}
      <3>1. cookies = {}
        BY <1>5 DEF Scan, Inv, CookiesInv
      <3> QED
        BY <3>1, <2>2, <2>3 DEF Timer!timerVars
    <2>4. CASE cookies' # {}
      <3>1. cookies = {}
        BY <1>5 DEF Scan, Inv, CookiesInv
      <3>2. ASSUME NEW c \in cookies' PROVE reg[c] # NoEvent
        <4>1. c \in Cookie /\ mCookieToEventsMap[c] # NoEvent
          BY <1>5, <3>2 DEF Scan, Due
        <4>2. mCookieToEventsMap[c] \in Event
          BY <4>1 DEF Inv, TypeOK
        <4> QED
          BY <4>1, <4>2 DEF Event, IntervalOK
      <3>3. cookies' \in SUBSET Cookie
        BY <1>5 DEF Scan
      <3>4. Timer!Collect(cookies')
        BY <2>2, <2>4, <3>1, <3>2 DEF Timer!Collect
      <3> QED
        BY <3>3, <3>4 DEF Timer!Next
    <2> QED
      BY <2>3, <2>4
  <1>6. ASSUME NEW c \in Cookie, Action(c)
        PROVE  Timer!Next
    <2>1. Timer!Act(c)
      BY <1>6 DEF Timer!Act, Action
    <2> QED
      BY <2>1 DEF Timer!Next
  <1>7. ASSUME \/ Tick \/ While \/ Wait \/ TimedOut
               \/ \E t \in Caller :
                     \/ NotifyOne(t) \/ StopRequest(t)
                     \/ \E i \in Interval, c \in Cookie : RegisterRecurrentEvent(t, i, c)
        PROVE  UNCHANGED <<mCookieToEventsMap, cookies>>
    BY <1>7 DEF Tick, While, Wait, TimedOut, NotifyOne, StopRequest, RegisterRecurrentEvent
  <1> QED
    BY <1>1, <1>2, <1>3, <1>4, <1>5, <1>6, <1>7 DEF Next

\* The timer implements what VehicleHal relies on: calls take effect at once, and
\* the action is called once for each cookie of a scan, all of them registered
\* when the scan was made.
THEOREM Implements == ASSUME IntervalOK PROVE Spec => Timer!Spec
  <1>1. Init => Timer!Init
    BY DEF Init, Timer!Init
  <1>2. Inv /\ [Next]_vars => [Timer!Next]_(Timer!timerVars)
    <2>1. CASE UNCHANGED vars
      BY <2>1 DEF vars, Timer!timerVars
    <2> QED
      BY <2>1, TimerStep
  <1> QED
    BY <1>1, <1>2, InvHolds, PTL DEF Spec, Timer!Spec

-----------------------------------------------------------------------------
(* When the timer sleeps past an event.  TLC finds behaviours in which it  *)
(* does (run vehicle_timer); this is the only way.                *)

\* The deadline of the thread is not after any registered event.
DeadlineCovers ==
    \A c \in Registered : /\ nextEventTime # InvalidTime
                          /\ nextEventTime <= mCookieToEventsMap[c].absoluteTime

\* From its scan on the thread has a deadline that covers every event, unless a
\* caller has changed the events and is still to notify it.
DeadlineInv ==
    pc \in {"action", "wait", "waiting"} /\ (\A t \in Caller : call[t] # Notifying)
        => DeadlineCovers

\* No notify_one falls between the scan of the thread and its wait_until: what a
\* wait with a predicate, or one under the lock of the scan, would achieve.
NotifiedInTime ==
    [][\A t \in Caller : NotifyOne(t) => pc \notin {"action", "wait"}]_vars

\* The scan leaves a deadline that covers every event.
LEMMA ScanCovers ==
    ASSUME IntervalOK, Inv, Scan
    PROVE  DeadlineCovers'
  <1> DEFINE m == mCookieToEventsMap
             times == {m'[c].absoluteTime : c \in Registered}
  <1>1. \A c \in Cookie : /\ m'[c] \in Event \cup {NoEvent}
                          /\ m'[c] # NoEvent <=> m[c] # NoEvent
    BY ScanMoves
  <1>2. Registered' = Registered /\ Registered \subseteq Cookie
    BY <1>1 DEF Registered
  <1>3. times \in SUBSET Nat
    <2> SUFFICES ASSUME NEW c \in Registered PROVE m'[c].absoluteTime \in Nat
      OBVIOUS
    <2>1. m'[c] \in Event
      BY <1>1 DEF Registered
    <2> QED
      BY <2>1 DEF Event
  <1>4. nextEventTime' = Earliest(times)
    BY DEF Scan
  <1>5. ASSUME NEW c \in Registered'
        PROVE  nextEventTime' # InvalidTime /\ nextEventTime' <= m'[c].absoluteTime
    <2>1. m'[c].absoluteTime \in times
      BY <1>2
    <2> HIDE DEF times
    <2>2. nextEventTime' \in times /\ nextEventTime' <= m'[c].absoluteTime
      BY <1>3, <1>4, <2>1, EarliestIsLeast
    <2>3. InvalidTime \notin Nat
      BY DEF InvalidTime
    <2> QED
      BY <1>3, <2>2, <2>3
  <1> QED
    BY <1>5 DEF DeadlineCovers

\* A caller that changes the events owes the notification from then on.
LEMMA ChangeOwesNotify ==
    ASSUME Inv, NEW t \in Caller,
           Insert(t) \/ StopClear(t) \/ \E c \in Cookie : UnregisterRecurrentEvent(t, c)
    PROVE  call'[t] = Notifying
  BY DEF Inv, TypeOK, Insert, StopClear, UnregisterRecurrentEvent

\* Every step keeps the deadline right, if it does not notify too early.
LEMMA DeadlineStep ==
    ASSUME IntervalOK, Inv, DeadlineInv, [Next]_vars,
           [\A t \in Caller : NotifyOne(t) => pc \notin {"action", "wait"}]_vars
    PROVE  DeadlineInv'
  <1>1. CASE UNCHANGED vars
    BY <1>1 DEF vars, DeadlineInv, DeadlineCovers, Registered
  <1>2. ASSUME NEW t \in Caller,
               Insert(t) \/ StopClear(t) \/ \E c \in Cookie : UnregisterRecurrentEvent(t, c)
        PROVE  DeadlineInv'
    BY <1>2, ChangeOwesNotify DEF DeadlineInv
  <1>3. CASE Scan
    BY <1>3, ScanCovers DEF DeadlineInv
  <1>4. ASSUME NEW t \in Caller, NotifyOne(t), ~UNCHANGED vars
        PROVE  DeadlineInv'
    <2>1. pc \notin {"action", "wait"}
      BY <1>4
    <2>2. pc' \notin {"action", "wait", "waiting"}
      BY <1>4, <2>1 DEF NotifyOne
    <2> QED
      BY <2>2 DEF DeadlineInv
  <1>5. CASE While
    BY <1>5 DEF While, DeadlineInv
  <1>6. CASE \/ Tick \/ Wait \/ TimedOut \/ \E c \in Cookie : Action(c)
             \/ \E t \in Caller :
                   \/ StopRequest(t)
                   \/ \E i \in Interval, c \in Cookie : RegisterRecurrentEvent(t, i, c)
    <2>1. UNCHANGED <<mCookieToEventsMap, nextEventTime>>
      BY <1>6 DEF Tick, Wait, TimedOut, Action, StopRequest, RegisterRecurrentEvent
    <2>2. DeadlineCovers => DeadlineCovers'
      BY <2>1 DEF DeadlineCovers, Registered
    <2>3. pc' \in {"action", "wait", "waiting"} => pc \in {"action", "wait", "waiting"}
      BY <1>6 DEF Tick, Wait, TimedOut, Action, StopRequest, RegisterRecurrentEvent
    <2>4. ASSUME NEW t \in Caller, call[t] = Notifying
          PROVE  call'[t] = Notifying
      BY <1>6, <2>4 DEF Tick, Wait, TimedOut, Action, StopRequest,
         RegisterRecurrentEvent, Inv, TypeOK, Idle, Notifying
    <2> QED
      BY <2>2, <2>3, <2>4 DEF DeadlineInv
  <1> QED
    BY <1>1, <1>2, <1>3, <1>4, <1>5, <1>6 DEF Next

\* The thread sleeps past an event only after a notify_one that came between its
\* scan and its wait_until, when nobody heard it: if none does, whatever the
\* callers register, unregister and stop and however late the thread is, it wakes
\* in time for every event.
THEOREM SleepsPastOnlyByEarlyNotify ==
    ASSUME IntervalOK
    PROVE  Spec /\ NotifiedInTime => []NeverSleepsPastAnEvent
  <1>1. Init => DeadlineInv
    BY DEF Init, DeadlineInv
  <1>2. /\ Inv /\ DeadlineInv /\ [Next]_vars
        /\ [\A t \in Caller : NotifyOne(t) => pc \notin {"action", "wait"}]_vars
        => DeadlineInv'
    BY DeadlineStep
  <1>3. DeadlineInv => NeverSleepsPastAnEvent
    <2>1. Idle # Notifying
      <3>1. Idle.op # Notifying.op
        BY DEF Idle, Notifying
      <3> QED
        BY <3>1
    <2> QED
      BY <2>1 DEF DeadlineInv, DeadlineCovers, NeverSleepsPastAnEvent
  <1> QED
    BY <1>1, <1>2, <1>3, InvHolds, PTL DEF Spec, NotifiedInTime
=============================================================================
