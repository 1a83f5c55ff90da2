------------------------ MODULE EvsEnumeratorProofs ------------------------
(***************************************************************************)
(* Proofs about EvsEnumerator, for any number of cameras and of objects    *)
(* that clients keep alive.                                                *)
(***************************************************************************)
EXTENDS EvsEnumerator, TLAPS

(* What the weak pointers point to, which no run names: an object that     *)
(* exists, of the right camera, and what does not exist does not work.     *)
PointerInv ==
    /\ \A id \in CameraId : activeInstance[id] # None => cameraOf[activeInstance[id]] = id
    /\ sActiveDisplay # None => sActiveDisplay \in displays
    /\ \A d \in Display : mRequestedState[d] # "DEAD" => d \in displays
    /\ lent \subseteq displays

Inv ==
    /\ TypeOK
    /\ PointerInv
    /\ CameraExclusive
    /\ DisplayExclusive
    /\ BusyIsLent

USE EnumeratorAssumption DEF cameraVars, displayVars, DisplayState

\* The enumerator starts with no object, which establishes the invariant.
LEMMA InitInv == Init => Inv
  BY DEF Init, Inv, TypeOK, PointerInv, CameraExclusive, DisplayExclusive, BusyIsLent

-----------------------------------------------------------------------------
(* The calls on cameras. *)

\* What Inv says of the cameras, and of the display.
CameraInv ==
    /\ activeInstance \in [CameraId -> Camera \cup {None}]
    /\ cameraOf \in [Camera -> CameraId \cup {None}]
    /\ phase \in [Camera -> {"stopped", "running", "dead"}]
    /\ \A id \in CameraId : activeInstance[id] # None => cameraOf[activeInstance[id]] = id
    /\ CameraExclusive

DisplayInv ==
    /\ sActiveDisplay \in Display \cup {None}
    /\ displays \subseteq Display
    /\ mRequestedState \in [Display -> DisplayState]
    /\ memHandle \subseteq Display /\ mFrameBusy \subseteq Display /\ lent \subseteq Display
    /\ sActiveDisplay # None => sActiveDisplay \in displays
    /\ \A d \in Display : mRequestedState[d] # "DEAD" => d \in displays
    /\ lent \subseteq displays
    /\ DisplayExclusive
    /\ BusyIsLent

\* The invariant is what it says of the cameras and what it says of the display.
LEMMA TwoHalves == Inv <=> CameraInv /\ DisplayInv
  BY DEF Inv, TypeOK, PointerInv, CameraInv, DisplayInv

\* A call on the display leaves the half about the cameras alone.
LEMMA CamerasKept == CameraInv /\ UNCHANGED cameraVars => CameraInv'
  BY DEF CameraInv, CameraExclusive

\* A call on a camera leaves the half about the display alone.
LEMMA DisplayKept == DisplayInv /\ UNCHANGED displayVars => DisplayInv'
  BY DEF DisplayInv, DisplayExclusive, BusyIsLent

\* openCamera, with the kill of the previous owner, preserves the invariant.
LEMMA OpenCameraInv ==
    ASSUME CameraInv, NEW id \in CameraId, OpenCamera(id)
    PROVE  CameraInv'
  BY DEF OpenCamera, KilledCamera, CameraInv, CameraExclusive

\* closeCamera, of the active object or of an orphan, preserves it.
LEMMA CloseCameraInv ==
    ASSUME CameraInv, NEW c \in Camera, CloseCamera(c)
    PROVE  CameraInv'
  BY DEF CloseCamera, ClosedCamera, CameraInv, CameraExclusive

\* The destruction of a camera object preserves it.
LEMMA DropCameraInv ==
    ASSUME CameraInv, NEW c \in Camera, DropCamera(c)
    PROVE  CameraInv'
  BY DEF DropCamera, CameraInv, CameraExclusive

\* startVideoStream and stopVideoStream of an object preserve it.
LEMMA StreamInv ==
    ASSUME CameraInv, NEW c \in Camera, StartVideoStream(c) \/ StopVideoStream(c)
    PROVE  CameraInv'
  BY DEF StartVideoStream, StopVideoStream, CameraInv, CameraExclusive

-----------------------------------------------------------------------------
(* The calls on the display. *)

\* openDisplay, with the kill of the previous owner, preserves it.
LEMMA OpenDisplayInv ==
    ASSUME DisplayInv, OpenDisplay
    PROVE  DisplayInv'
  BY DEF OpenDisplay, AfterShutdown, DisplayInv, DisplayExclusive, BusyIsLent

\* closeDisplay, of the active display or of an orphan, preserves it.
LEMMA CloseDisplayInv ==
    ASSUME DisplayInv, NEW d \in Display, CloseDisplay(d)
    PROVE  DisplayInv'
  BY DEF CloseDisplay, ClosedDisplay, AfterShutdown, DisplayInv, DisplayExclusive, BusyIsLent

\* The destruction of a display object preserves it.
LEMMA DropDisplayInv ==
    ASSUME DisplayInv, NEW d \in Display, DropDisplay(d)
    PROVE  DisplayInv'
  BY DEF DropDisplay, AfterShutdown, DisplayInv, DisplayExclusive, BusyIsLent

\* setDisplayState preserves it, for any state that is asked for.
LEMMA SetDisplayStateInv ==
    ASSUME DisplayInv, NEW d \in Display, SetDisplayState(d)
    PROVE  DisplayInv'
  BY DEF SetDisplayState, Accepts, Requested, DisplayInv, DisplayExclusive, BusyIsLent

\* getTargetBuffer preserves it.
LEMMA GetTargetBufferInv ==
    ASSUME DisplayInv, NEW d \in Display, GetTargetBuffer(d)
    PROVE  DisplayInv'
  BY DEF GetTargetBuffer, DisplayInv, DisplayExclusive, BusyIsLent

\* returnTargetBufferForDisplay preserves it.
LEMMA ReturnTargetBufferInv ==
    ASSUME DisplayInv, NEW d \in Display, ReturnTargetBufferForDisplay(d)
    PROVE  DisplayInv'
  BY DEF ReturnTargetBufferForDisplay, StillBusy, DisplayInv, DisplayExclusive, BusyIsLent

-----------------------------------------------------------------------------
\* Every call preserves the invariant.
LEMMA NextInv == Inv /\ [Next]_vars => Inv'
  <1>0. CameraInv' /\ DisplayInv' => Inv'
    BY DEF Inv, TypeOK, PointerInv, CameraInv, DisplayInv
  <1> SUFFICES ASSUME CameraInv, DisplayInv, [Next]_vars
               PROVE  CameraInv' /\ DisplayInv'
    BY <1>0, TwoHalves
  <1>1. ASSUME NEW id \in CameraId, OpenCamera(id)
        PROVE  CameraInv' /\ DisplayInv'
    BY <1>1, OpenCameraInv, DisplayKept DEF OpenCamera
  <1>2. ASSUME NEW c \in Camera,
               \/ CloseCamera(c) \/ DropCamera(c)
               \/ StartVideoStream(c) \/ StopVideoStream(c)
        PROVE  CameraInv' /\ DisplayInv'
    BY <1>2, CloseCameraInv, DropCameraInv, StreamInv, DisplayKept
       DEF CloseCamera, DropCamera, StartVideoStream, StopVideoStream
  <1>3. CASE OpenDisplay
    BY <1>3, OpenDisplayInv, CamerasKept DEF OpenDisplay
  <1>4. ASSUME NEW d \in Display,
               \/ CloseDisplay(d) \/ DropDisplay(d) \/ SetDisplayState(d)
               \/ GetTargetBuffer(d) \/ ReturnTargetBufferForDisplay(d)
        PROVE  CameraInv' /\ DisplayInv'
    BY <1>4, CloseDisplayInv, DropDisplayInv, SetDisplayStateInv, GetTargetBufferInv,
       ReturnTargetBufferInv, CamerasKept
       DEF CloseDisplay, DropDisplay, SetDisplayState, GetTargetBuffer,
           ReturnTargetBufferForDisplay
  <1>5. CASE UNCHANGED vars
    BY <1>5, CamerasKept, DisplayKept DEF vars
  <1> QED
    BY <1>1, <1>2, <1>3, <1>4, <1>5 DEF Next

\* Inv is an invariant of EvsEnumerator.
THEOREM InvHolds == Spec => []Inv
  BY InitInv, NextInv, PTL DEF Spec

\* The state of the enumerator and of its objects keeps its type.
THEOREM TypeCorrect == Spec => []TypeOK
  <1>1. Inv => TypeOK
    BY DEF Inv
  <1> QED
    BY <1>1, InvHolds, PTL

\* openCamera, closeCamera and the drop of references leave at most one working
\* object for each camera, and its record points to it.
THEOREM CameraHasOneOwner == Spec => []CameraExclusive
  <1>1. Inv => CameraExclusive
    BY DEF Inv
  <1> QED
    BY <1>1, InvHolds, PTL

\* There is at most one working display and at most one display buffer.
THEOREM DisplayHasOneOwner == Spec => []DisplayExclusive
  <1>1. Inv => DisplayExclusive
    BY DEF Inv
  <1> QED
    BY <1>1, InvHolds, PTL

\* mFrameBusy is right about the client, and a buffer that will be read exists.
THEOREM BufferIsThere == Spec => []BusyIsLent
  <1>1. Inv => BusyIsLent
    BY DEF Inv
  <1> QED
    BY <1>1, InvHolds, PTL

-----------------------------------------------------------------------------
(* What a step may not do. *)

\* A close of an orphaned object takes nothing from the new owner, and an open of
\* one camera nothing from the others.
THEOREM LateCloseIsHarmless == Spec => OthersUndisturbed
  <1>1. ASSUME Inv, NEW c \in Camera, NEW e \in Camera \ {c}, CloseCamera(c)
        PROVE  phase'[e] = phase[e]
    BY <1>1 DEF CloseCamera, ClosedCamera
  <1>2. ASSUME Inv, NEW id \in CameraId, NEW e \in Camera,
               OpenCamera(id), cameraOf[e] \notin {id, None}
        PROVE  phase'[e] = phase[e]
    <2>1. e # activeInstance[id]
      BY <1>2 DEF Inv, TypeOK, PointerInv
    <2> QED
      BY <1>2, <2>1 DEF OpenCamera, KilledCamera
  <1>3. ASSUME Inv, NEW d \in Display, NEW e \in Display \ {d}, CloseDisplay(d)
        PROVE  mRequestedState'[e] = mRequestedState[e]
    BY <1>3 DEF CloseDisplay, ClosedDisplay
  <1>4. Inv =>
          [/\ \A c, e \in Camera : CloseCamera(c) /\ e # c => phase'[e] = phase[e]
           /\ \A id \in CameraId, e \in Camera :
                OpenCamera(id) /\ cameraOf[e] \notin {id, None} => phase'[e] = phase[e]
           /\ \A d, e \in Display :
                CloseDisplay(d) /\ e # d => mRequestedState'[e] = mRequestedState[e]]_vars
    BY <1>1, <1>2, <1>3
  <1> QED
    BY <1>4, InvHolds, PTL DEF Spec, OthersUndisturbed

\* No call brings an object that lost its ownership back to life.
LEMMA DeadStaysDead ==
    ASSUME Inv, Next
    PROVE  /\ \A c \in Camera : cameraOf[c] # None /\ cameraOf'[c] # None /\ phase[c] = "dead"
                 => phase'[c] = "dead"
           /\ \A d \in displays \cap displays' : mRequestedState[d] = "DEAD"
                 => mRequestedState'[d] = "DEAD"
  <1>1. ASSUME NEW id \in CameraId, OpenCamera(id)
        PROVE  \A c \in Camera : cameraOf[c] # None /\ phase[c] = "dead" => phase'[c] = "dead"
    BY <1>1 DEF OpenCamera, Inv, TypeOK
  <1>2. ASSUME NEW o \in Camera,
               \/ CloseCamera(o) \/ DropCamera(o)
               \/ StartVideoStream(o) \/ StopVideoStream(o)
        PROVE  \A c \in Camera : phase[c] = "dead" => phase'[c] = "dead"
    BY <1>2 DEF CloseCamera, DropCamera, StartVideoStream, StopVideoStream, Inv, TypeOK
  <1>3. ASSUME OpenDisplay
        PROVE  \A d \in displays : mRequestedState[d] = "DEAD" => mRequestedState'[d] = "DEAD"
    BY <1>3 DEF OpenDisplay, Inv, TypeOK
  <1>4. ASSUME NEW o \in Display,
               \/ CloseDisplay(o) \/ DropDisplay(o) \/ SetDisplayState(o)
               \/ GetTargetBuffer(o) \/ ReturnTargetBufferForDisplay(o)
        PROVE  \A d \in Display : mRequestedState[d] = "DEAD" => mRequestedState'[d] = "DEAD"
    BY <1>4 DEF CloseDisplay, DropDisplay, SetDisplayState, Accepts, Requested, GetTargetBuffer,
                ReturnTargetBufferForDisplay, Inv, TypeOK
  <1>5. \A c \in Camera : cameraOf[c] # None /\ phase[c] = "dead" => phase'[c] = "dead"
    BY <1>1, <1>2 DEF Next, OpenDisplay, CloseDisplay, DropDisplay, SetDisplayState,
                            GetTargetBuffer, ReturnTargetBufferForDisplay
  <1>6. \A d \in displays : mRequestedState[d] = "DEAD" => mRequestedState'[d] = "DEAD"
    BY <1>3, <1>4 DEF Next, OpenCamera, CloseCamera, DropCamera, StartVideoStream,
                            StopVideoStream, Inv, TypeOK
  <1> QED
    BY <1>5, <1>6

\* An object that lost its camera or the display never works again.
THEOREM LostForGood == Spec => DeadForGood
  <1>1. Inv /\ [Next]_vars =>
          [/\ \A c \in Camera : cameraOf[c] # None /\ cameraOf'[c] # None /\ phase[c] = "dead"
                => phase'[c] = "dead"
           /\ \A d \in displays \cap displays' : mRequestedState[d] = "DEAD"
                => mRequestedState'[d] = "DEAD"]_vars
    BY DeadStaysDead
  <1> QED
    BY <1>1, InvHolds, PTL DEF Spec, DeadForGood
=============================================================================
