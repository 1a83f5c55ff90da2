------------------------- MODULE RecurrentTimerSpec -------------------------
(***************************************************************************)
(* What RecurrentTimer promises to the vehicle HAL: calls that register    *)
(* and unregister a cookie take effect at once, and the timer's thread     *)
(* calls the action for sets of cookies that were registered when it       *)
(* collected them.  A cookie can be unregistered between the two, since    *)
(* the thread calls the action without its lock.  RecurrentTimer           *)
(* implements this specification, VehicleHal uses it.                      *)
(***************************************************************************)
CONSTANTS Cookie, Interval, NoEvent

VARIABLES
    registered,   \* the interval of each registered cookie
    collected     \* the cookies the thread still has to call the action for

timerVars == <<registered, collected>>

Init ==
    /\ registered = [c \in Cookie |-> NoEvent]
    /\ collected = {}

Register(c, interval) ==
    /\ registered' = [registered EXCEPT ![c] = interval]
    /\ UNCHANGED collected

Unregister(c) ==
    /\ registered' = [registered EXCEPT ![c] = NoEvent]
    /\ UNCHANGED collected

\* stop() clears the map.
Clear ==
    /\ registered' = [c \in Cookie |-> NoEvent]
    /\ UNCHANGED collected

Collect(cookies) ==
    /\ collected = {} /\ cookies # {}
    /\ \A c \in cookies : registered[c] # NoEvent
    /\ collected' = cookies
    /\ UNCHANGED registered

\* The action is called for a collected cookie.
Act(c) ==
    /\ c \in collected
    /\ collected' = collected \ {c}
    /\ UNCHANGED registered

Next ==
    \/ \E c \in Cookie : \/ \E i \in Interval : Register(c, i)
                         \/ Unregister(c)
                         \/ Act(c)
    \/ \E cookies \in SUBSET Cookie : Collect(cookies)
    \/ Clear

Spec == Init /\ [][Next]_timerVars
=============================================================================
