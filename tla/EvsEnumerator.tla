--------------------------- MODULE EvsEnumerator ---------------------------
(***************************************************************************)
(* The enumerator of the EVS 1.0 default HAL and the display objects it    *)
(* hands out (automotive/evs/1.0/default/EvsEnumerator.cpp and             *)
(* EvsDisplay.cpp).                                                        *)
(*                                                                         *)
(* The enumerator keeps weak pointers: an object lives as long as a client *)
(* has a reference to it, also after another client has opened the same    *)
(* camera or the display, and then its client still makes calls on it and  *)
(* closes it late.  A weak pointer to an object that is destroyed no       *)
(* longer promotes; it is None here.  A camera object is reduced to the    *)
(* phases of EvsCameraService, which EvsCamera implements.                 *)
(*                                                                         *)
(* The service has one binder thread, so a call is one step.               *)
(***************************************************************************)
EXTENDS Naturals, FiniteSets

CONSTANTS
    CameraId,   \* the cameras of sCameraList
    Camera,     \* the EvsCamera objects that can exist at one time
    Display,    \* the EvsDisplay objects that can exist at one time
    None        \* the null pointer

ASSUME EnumeratorAssumption ==
    /\ None \notin CameraId \cup Camera \cup Display

VARIABLES
    activeInstance,  \* of the record of each camera
    cameraOf,        \* the camera an object was opened for, None: no such object
    phase,           \* of each camera object: "stopped", "running" or "dead"
    sActiveDisplay,
    displays,        \* the display objects that exist
    mRequestedState, \* of each of them, as memHandle, mFrameBusy
    memHandle,       \* the displays that have a graphics buffer
    mFrameBusy,      \* the displays whose buffer is marked as in use
    lent             \* the displays whose buffer their client was given and
                     \* has not returned

cameraVars == <<activeInstance, cameraOf, phase>>
displayVars == <<sActiveDisplay, displays, mRequestedState, memHandle, mFrameBusy, lent>>
vars == <<cameraVars, displayVars>>

DisplayState == {"NOT_OPEN", "NOT_VISIBLE", "VISIBLE_ON_NEXT_FRAME", "VISIBLE", "DEAD"}

Init ==
    /\ activeInstance = [id \in CameraId |-> None]
    /\ cameraOf = [c \in Camera |-> None]
    /\ phase = [c \in Camera |-> "dead"]
    /\ sActiveDisplay = None
    /\ displays = {}
    /\ mRequestedState = [d \in Display |-> "DEAD"]
    /\ memHandle = {} /\ mFrameBusy = {} /\ lent = {}

----------------------------------------------------------------------------
(* Cameras. *)

\* The object that closeCamera(c) shuts down: c itself, unless another object
\* has replaced it or none is active.
ClosedCamera(c) == {activeInstance[cameraOf[c]]} \cap {c}

CloseCamera(c) ==
    /\ cameraOf[c] # None
    /\ phase' = [o \in Camera |-> IF o \in ClosedCamera(c) THEN "dead" ELSE phase[o]]
    /\ activeInstance' = IF ClosedCamera(c) = {} THEN activeInstance
                         ELSE [activeInstance EXCEPT ![cameraOf[c]] = None]
    /\ UNCHANGED <<cameraOf, displayVars>>

\* The object that openCamera(id) kills before it makes a new one.
\* Mutant: none, the old object is only forgotten.
KilledCameraNone(id) == {}

KilledCamera(id) == {activeInstance[id]} \ {None}

OpenCamera(id) ==
    \E new \in Camera :
      /\ cameraOf[new] = None
      /\ cameraOf' = [cameraOf EXCEPT ![new] = id]
      /\ phase' = [o \in Camera |-> IF o = new THEN "stopped"
                                    ELSE IF o \in KilledCamera(id) THEN "dead"
                                    ELSE phase[o]]
      /\ activeInstance' = [activeInstance EXCEPT ![id] = new]
      /\ UNCHANGED displayVars

\* startVideoStream and stopVideoStream of the object, see EvsCamera.
StartVideoStream(c) ==
    /\ cameraOf[c] # None /\ phase[c] = "stopped"
    /\ phase' = [phase EXCEPT ![c] = "running"]
    /\ UNCHANGED <<activeInstance, cameraOf, displayVars>>

StopVideoStream(c) ==
    /\ cameraOf[c] # None /\ phase[c] = "running"
    /\ phase' = [phase EXCEPT ![c] = "stopped"]
    /\ UNCHANGED <<activeInstance, cameraOf, displayVars>>

\* The client drops its reference or dies: the destructor calls forceShutdown.
DropCamera(c) ==
    /\ cameraOf[c] # None
    /\ cameraOf' = [cameraOf EXCEPT ![c] = None]
    /\ phase' = [phase EXCEPT ![c] = "dead"]
    /\ activeInstance' = [id \in CameraId |->
                            IF activeInstance[id] = c THEN None ELSE activeInstance[id]]
    /\ UNCHANGED displayVars

----------------------------------------------------------------------------
(* The display. *)

\* forceShutdown of the displays of D (at most one).  mFrameBusy stays.
\* Mutant: the graphics buffer is left to the destructor.
ShutdownKeepsBuffer(D) == memHandle

AfterShutdown(D) == memHandle \ D

\* Mutant: closeDisplay does not compare the display with the active one.
ClosedDisplayAny(d) == {sActiveDisplay} \ {None}

ClosedDisplay(d) == {sActiveDisplay} \cap {d}

CloseDisplay(d) ==
    /\ d \in displays
    /\ memHandle' = AfterShutdown(ClosedDisplay(d))
    /\ mRequestedState' = [o \in Display |-> IF o \in ClosedDisplay(d) THEN "DEAD"
                                             ELSE mRequestedState[o]]
    /\ sActiveDisplay' = IF ClosedDisplay(d) = {} THEN sActiveDisplay ELSE None
    /\ UNCHANGED <<cameraVars, displays, mFrameBusy, lent>>

OpenDisplay ==
    \E new \in Display \ displays :
      LET killed == {sActiveDisplay} \ {None}
      IN  /\ displays' = displays \cup {new}
          /\ memHandle' = AfterShutdown(killed)
          /\ mRequestedState' = [o \in Display |-> IF o = new THEN "NOT_VISIBLE"
                                                   ELSE IF o \in killed THEN "DEAD"
                                                   ELSE mRequestedState[o]]
          /\ sActiveDisplay' = new
          /\ UNCHANGED <<cameraVars, mFrameBusy, lent>>

\* The client drops its reference or dies, with or without the buffer.
DropDisplay(d) ==
    /\ d \in displays
    /\ displays' = displays \ {d}
    /\ memHandle' = AfterShutdown({d})
    /\ mRequestedState' = [mRequestedState EXCEPT ![d] = "DEAD"]
    /\ mFrameBusy' = mFrameBusy \ {d} /\ lent' = lent \ {d}
    /\ sActiveDisplay' = IF sActiveDisplay = d THEN None ELSE sActiveDisplay
    /\ UNCHANGED cameraVars

\* Mutant: a display that lost its ownership takes a new state.
AcceptsAlways(d) == TRUE

Accepts(d) == mRequestedState[d] # "DEAD"

\* A request for a value that is no display state turns the display off.
\* Mutant: it is recorded.
RequestedAsIs(state) == state

Requested(state) == IF state \in DisplayState THEN state ELSE "NOT_VISIBLE"

SetDisplayState(d) ==
    /\ d \in displays
    /\ Accepts(d)
    /\ \E state \in DisplayState \cup {"unrecognized"} :
         mRequestedState' = [mRequestedState EXCEPT ![d] = Requested(state)]
    /\ UNCHANGED <<cameraVars, sActiveDisplay, displays, memHandle, mFrameBusy, lent>>

\* getTargetBuffer that answers with the buffer: the first one allocates it.
\* Every other answer is a null buffer and changes nothing.
GetTargetBuffer(d) ==
    /\ d \in displays
    /\ mRequestedState[d] # "DEAD"
    /\ d \in memHandle => d \notin mFrameBusy
    /\ memHandle' = memHandle \cup {d}
    /\ mFrameBusy' = mFrameBusy \cup {d} /\ lent' = lent \cup {d}
    /\ UNCHANGED <<cameraVars, sActiveDisplay, displays, mRequestedState>>

\* Mutant: a display that lost its ownership answers before it clears the flag.
StillBusyIfDead(d) == IF mRequestedState[d] = "DEAD" THEN mFrameBusy ELSE mFrameBusy \ {d}

StillBusy(d) == mFrameBusy \ {d}

\* The client returns the buffer to the display it came from.  (All displays give
\* their buffer the same id, so the code would also take another display's.)
ReturnTargetBufferForDisplay(d) ==
    /\ d \in displays
    /\ d \in lent
    /\ d \in mFrameBusy
    /\ mFrameBusy' = StillBusy(d) /\ lent' = lent \ {d}
    /\ mRequestedState' = [mRequestedState EXCEPT
           ![d] = IF @ = "VISIBLE_ON_NEXT_FRAME" THEN "VISIBLE" ELSE @]
    /\ UNCHANGED <<cameraVars, sActiveDisplay, displays, memHandle>>

----------------------------------------------------------------------------
Next ==
    \/ \E id \in CameraId : OpenCamera(id)
    \/ \E c \in Camera : \/ CloseCamera(c) \/ DropCamera(c)
                         \/ StartVideoStream(c) \/ StopVideoStream(c)
    \/ OpenDisplay
    \/ \E d \in Display : \/ CloseDisplay(d) \/ DropDisplay(d)
                          \/ SetDisplayState(d)
                          \/ GetTargetBuffer(d) \/ ReturnTargetBufferForDisplay(d)

Spec == Init /\ [][Next]_vars

----------------------------------------------------------------------------
(* Properties. *)

\* Every variable has its type.
TypeOK ==
    /\ activeInstance \in [CameraId -> Camera \cup {None}]
    /\ cameraOf \in [Camera -> CameraId \cup {None}]
    /\ phase \in [Camera -> {"stopped", "running", "dead"}]
    /\ sActiveDisplay \in Display \cup {None}
    /\ displays \subseteq Display
    /\ mRequestedState \in [Display -> DisplayState]
    /\ memHandle \subseteq Display
    /\ mFrameBusy \subseteq Display
    /\ lent \subseteq Display

\* Exclusive access to a camera: an object that works is the one its record
\* points to, so however cameras are stolen, closed late and dropped, at most one
\* object works for each camera, and the enumerator can still shut it down.
CameraExclusive ==
    \A c \in Camera : phase[c] # "dead" =>
        /\ cameraOf[c] # None
        /\ activeInstance[cameraOf[c]] = c

\* Exclusive access to the display, and to its resources: only the display that
\* the enumerator points to works or has a graphics buffer.
DisplayExclusive ==
    \A d \in Display : mRequestedState[d] # "DEAD" \/ d \in memHandle => sActiveDisplay = d

\* The flag mFrameBusy follows the buffer, also through a theft of the display
\* while its client draws, and a buffer that a working display will read when it
\* is returned has not been freed.
BusyIsLent ==
    /\ mFrameBusy = lent
    /\ \A d \in lent : mRequestedState[d] # "DEAD" => d \in memHandle

\* A close, however late, and an open touch only what they are about: closing an
\* object that was orphaned takes nothing from the new owner, and opening a camera
\* does not disturb the objects of the other ones.
OthersUndisturbed ==
    [][/\ \A c, e \in Camera : CloseCamera(c) /\ e # c => phase'[e] = phase[e]
       /\ \A id \in CameraId, e \in Camera :
              OpenCamera(id) /\ cameraOf[e] \notin {id, None} => phase'[e] = phase[e]
       /\ \A d, e \in Display :
              CloseDisplay(d) /\ e # d => mRequestedState'[e] = mRequestedState[e]]_vars

\* Ownership that is lost stays lost: an object that no longer works never works
\* again for the client that has it, whatever that client calls.
DeadForGood ==
    [][/\ \A c \in Camera : cameraOf[c] # None /\ cameraOf'[c] # None /\ phase[c] = "dead"
              => phase'[c] = "dead"
       /\ \A d \in displays \cap displays' : mRequestedState[d] = "DEAD"
              => mRequestedState'[d] = "DEAD"]_vars
============================================================================
