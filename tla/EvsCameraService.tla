-------------------------- MODULE EvsCameraService --------------------------
(***************************************************************************)
(* What an EVS camera promises to its client (automotive/evs/1.0/          *)
(* IEvsCamera.hal), without buffers, records and threads.  EvsCamera       *)
(* implements it; EvsEnumerator uses its phases.                           *)
(***************************************************************************)
EXTENDS Naturals, Integers, FiniteSets

VARIABLES
    phase,      \* "stopped", "running" or "dead"
    budget,     \* the frames that may be in flight
    held,       \* the frames the client has
    stream      \* of the client: "none", "open", or "ended" by the null frame

serviceVars == <<phase, budget, held, stream>>

Init ==
    /\ phase = "stopped" /\ budget = 0
    /\ held = {} /\ stream = "none"

\* The client changes the budget: frames that it has stay with it, and count.
Rebudget ==
    /\ phase # "dead"
    /\ budget' \in Nat
    /\ budget' >= Cardinality(held)
    /\ UNCHANGED <<phase, held, stream>>

\* A stream starts with at least one frame.
Start ==
    /\ phase = "stopped"
    /\ phase' = "running" /\ stream' = "open"
    /\ budget' \in Nat \ {0}
    /\ budget' >= Cardinality(held)
    /\ UNCHANGED held

\* A frame the client does not have, within the budget, on an open stream.
Deliver ==
    /\ phase = "running" /\ stream = "open"
    /\ \E id \in held' \ held : held' = held \cup {id}
    /\ Cardinality(held') <= budget
    /\ UNCHANGED <<phase, budget, stream>>

Return ==
    /\ \E id \in held : held' = held \ {id}
    /\ UNCHANGED <<phase, budget, stream>>

\* The null frame, after which nothing is delivered.
End ==
    /\ phase = "running" /\ stream = "open"
    /\ stream' = "ended"
    /\ UNCHANGED <<phase, budget, held>>

\* stopVideoStream returns, after the null frame.
Stop ==
    /\ phase = "running" /\ stream = "ended"
    /\ phase' = "stopped"
    /\ UNCHANGED <<budget, held, stream>>

\* The camera is taken away, once its stream is stopped.
Shutdown ==
    /\ phase # "running"
    /\ phase' = "dead"
    /\ UNCHANGED <<budget, held, stream>>

Next ==
    \/ Rebudget
    \/ Start \/ Deliver \/ Return \/ End \/ Stop
    \/ Shutdown

Spec == Init /\ [][Next]_serviceVars
============================================================================
