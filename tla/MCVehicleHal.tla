---------------------------- MODULE MCVehicleHal ----------------------------
(***************************************************************************)
(* VehicleHal with one continuous property and one that reports changes.   *)
(***************************************************************************)
EXTENDS VehicleHal, TLC

CONSTANTS speed, gear

MCConfig ==
    (speed :> [changeMode |-> "CONTINUOUS", read |-> TRUE, write |-> FALSE,
               minSampleRate |-> 1, maxSampleRate |-> 2])
 @@ (gear :> [changeMode |-> "ON_CHANGE", read |-> TRUE, write |-> TRUE,
              minSampleRate |-> 0, maxSampleRate |-> 0])

Car(rate) == [sampleRate |-> rate, flags |-> {"EVENTS_FROM_CAR"}]
Android == [sampleRate |-> 0, flags |-> {"EVENTS_FROM_ANDROID"}]

\* The slow rate, a rate above the maximum together with the other property,
\* the property of which only set calls are reported, and an empty list.
MCRequestedLists ==
    {(speed :> Car(1)) @@ EmptyList,
     (speed :> Car(3)) @@ (gear :> Car(0)),
     (gear :> Android) @@ EmptyList,
     EmptyList}

----------------------------------------------------------------------------
(* The number of inputs is bounded. *)

CONSTANT MaxInputs

VARIABLE inputs

MCvars == <<vars, inputs>>

MCInit == Init /\ inputs = 0

MCNext ==
    \/ inputs < MaxInputs /\ Input /\ inputs' = inputs + 1
    \/ Progress /\ UNCHANGED inputs

MCSpec ==
    /\ MCInit /\ [][MCNext]_MCvars
    /\ WF_MCvars(Consumer /\ UNCHANGED inputs)
    /\ WF_MCvars(Destructor /\ UNCHANGED inputs)
=============================================================================
