----------------------------- MODULE EvsCamera -----------------------------
(***************************************************************************)
(* One camera object of the EVS 1.0 default HAL                            *)
(* (automotive/evs/1.0/default/EvsCamera.cpp).                             *)
(*                                                                         *)
(* Actors.  The service's single binder thread runs the HIDL calls and     *)
(* forceShutdown; a capture thread (generateFrames) lives from             *)
(* startVideoStream to the join in stopVideoStream; the client returns the *)
(* frames it was given; the graphics allocator may fail.                   *)
(*                                                                         *)
(* mBuffers is a vector of records [handle, inUse].  It is represented by  *)
(* its size and by two sets of indices: `filled', those with a handle, and *)
(* `busy', those with inUse.  A section under mAccessLock is one step.     *)
(***************************************************************************)
EXTENDS Naturals, Integers, FiniteSets

CONSTANTS
    MaxBuffers,     \* MAX_BUFFERS_IN_FLIGHT
    Requests,       \* the bufferCount arguments of setMaxFramesInFlight
    AllocMayFail    \* whether the graphics allocator can refuse a buffer

ASSUME CameraAssumption ==
    /\ MaxBuffers \in Nat \ {0}
    /\ Requests \subseteq Nat
    /\ AllocMayFail \in BOOLEAN

VARIABLES
    mBuffersSize,   \* mBuffers.size()
    filled,         \* the i with mBuffers[i].handle != nullptr
    busy,           \* the i with mBuffers[i].inUse
    mFramesAllowed,
    mFramesInUse,
    mStreamState,
    mStream,        \* "null" or "set"
    bpc,            \* binder thread: "idle", or joining the capture thread in a
                    \* "stop", or in the stop of a forced "shutdown", or past it: "drop"
    cpc,            \* capture thread: "none", at the "loop", about to "deliver",
                    \* about to send the "last" frame, or "done" and not joined
    idx,            \* local of generateFrames: the record of the frame under way
    clientHolds,    \* the bufferIds the client was given and has not returned
    clientStream    \* what the client knows of its stream: "none", "open", "ended"

bufferVars == <<mBuffersSize, filled, busy, mFramesAllowed, mFramesInUse>>
streamVars == <<mStreamState, mStream>>
clientVars == <<clientHolds, clientStream>>
vars == <<bufferVars, streamVars, bpc, cpc, idx, clientVars>>

Init ==
    /\ mBuffersSize = 0 /\ filled = {} /\ busy = {}
    /\ mFramesAllowed = 0 /\ mFramesInUse = 0
    /\ mStreamState = "STOPPED" /\ mStream = "null"
    /\ bpc = "idle" /\ cpc = "none" /\ idx = 0
    /\ clientHolds = {} /\ clientStream = "none"

----------------------------------------------------------------------------
(* The buffer set. *)

FreeSlots  == filled \ busy
EmptySlots == (0 .. mBuffersSize - 1) \ filled

\* A is what a scan of S from its low end that stops after n elements collects.
Lowest(A, S, n) ==
    /\ Cardinality(A) = n
    /\ \A i \in A, j \in S \ A : i < j

\* increaseAvailableFrames_Locked that gets `added' buffers from the allocator,
\* followed by a loop of decreaseAvailableFrames_Locked that frees `removed' of
\* the free ones.  A new buffer goes to the first record without a handle, or to
\* a new record at the end; the loop that frees goes through the records in order.
\* Mutant: the loop that frees does not look at inUse.
ResizeIgnoresInUse(added, removed) ==
    LET Room == (0 .. mBuffersSize + added - 1) \ filled
    IN  \E A \in SUBSET Room, k \in mBuffersSize .. mBuffersSize + added :
          /\ Lowest(A, Room, added)
          /\ \A i \in A : i < k
          /\ k = mBuffersSize \/ k - 1 \in A
          /\ mBuffersSize' = k
          /\ \E F \in SUBSET (filled \cup A) :
               /\ Lowest(F, filled \cup A, removed)
               /\ filled' = (filled \cup A) \ F
          /\ mFramesAllowed' = mFramesAllowed + added - removed

Resize(added, removed) ==
    LET Room == (0 .. mBuffersSize + added - 1) \ filled
    IN  \E A \in SUBSET Room, k \in mBuffersSize .. mBuffersSize + added :
          /\ Lowest(A, Room, added)
          /\ \A i \in A : i < k
          /\ k = mBuffersSize \/ k - 1 \in A
          /\ mBuffersSize' = k
          /\ \E F \in SUBSET ((filled \cup A) \ busy) :
               /\ Lowest(F, (filled \cup A) \ busy, removed)
               /\ filled' = (filled \cup A) \ F
          /\ mFramesAllowed' = mFramesAllowed + added - removed

\* What decreaseAvailableFrames_Locked(numToRemove) removes if `free' records are
\* free: it stops when `removed' reaches numToRemove, never if that is zero.
Removed(numToRemove, free) ==
    IF numToRemove = 0 \/ numToRemove > free THEN free ELSE numToRemove

\* setAvailableFrames_Locked(bufferCount) that answers true.
SetAvailable(bufferCount) ==
    /\ bufferCount \in 1 .. MaxBuffers
    /\ \/ /\ mFramesAllowed < bufferCount
          /\ Resize(bufferCount - mFramesAllowed, 0)
       \/ /\ mFramesAllowed > bufferCount
          /\ Resize(0, Removed(mFramesAllowed - bufferCount, Cardinality(FreeSlots)))
       \/ /\ mFramesAllowed = bufferCount
          /\ UNCHANGED <<mBuffersSize, filled, mFramesAllowed>>
    /\ UNCHANGED <<busy, mFramesInUse>>

\* One that answers false because the allocator gave fewer buffers than needed:
\* decreaseAvailableFrames_Locked(added) is the rollback.
SetAvailableFails(bufferCount) ==
    /\ AllocMayFail
    /\ bufferCount \in mFramesAllowed + 1 .. MaxBuffers
    /\ \E added \in 0 .. bufferCount - mFramesAllowed - 1 :
         Resize(added, Removed(added, Cardinality(FreeSlots) + added))
    /\ UNCHANGED <<busy, mFramesInUse>>

----------------------------------------------------------------------------
(* The HIDL calls.  A call that is refused changes nothing. *)

SetMaxFramesInFlight(bufferCount) ==
    /\ bpc = "idle" /\ mStreamState # "DEAD"
    /\ SetAvailable(bufferCount) \/ SetAvailableFails(bufferCount)
    /\ UNCHANGED <<streamVars, bpc, cpc, idx, clientVars>>

StartVideoStream ==
    /\ bpc = "idle" /\ mStreamState = "STOPPED"
    /\ IF mFramesAllowed < 1 THEN SetAvailable(1) ELSE UNCHANGED bufferVars
    /\ mStream' = "set"
    /\ mStreamState' = "RUNNING"
    /\ cpc' = "loop" /\ clientStream' = "open"
    /\ UNCHANGED <<bpc, idx, clientHolds>>

StartVideoStreamFails ==
    /\ bpc = "idle" /\ mStreamState = "STOPPED"
    /\ mFramesAllowed < 1
    /\ SetAvailableFails(1)
    /\ UNCHANGED <<streamVars, bpc, cpc, idx, clientVars>>

\* The handle of a record that is high in the array moves to the first record
\* without one, if there is such a record.
\* Mutant: the handle is copied and the old record keeps it.
MoveDownKeepsOld(bufferId) ==
    IF bufferId >= mFramesAllowed /\ EmptySlots # {}
    THEN \E i \in EmptySlots : /\ \A j \in EmptySlots : i <= j
                               /\ filled' = filled \cup {i}
    ELSE UNCHANGED filled

MoveDown(bufferId) ==
    IF bufferId >= mFramesAllowed /\ EmptySlots # {}
    THEN \E i \in EmptySlots : /\ \A j \in EmptySlots : i <= j
                               /\ filled' = (filled \ {bufferId}) \cup {i}
    ELSE UNCHANGED filled

\* The client returns a frame that it holds.  A camera that was shut down has
\* no record for it and ignores the call.  (The code would take any id: a client
\* that returns a frame twice can free a record that was delivered again.)
DoneWithFrame(bufferId) ==
    /\ bpc = "idle"
    /\ bufferId \in clientHolds
    /\ clientHolds' = clientHolds \ {bufferId}
    /\ IF bufferId < mBuffersSize /\ bufferId \in busy
       THEN /\ busy' = busy \ {bufferId}
            /\ mFramesInUse' = mFramesInUse - 1
            /\ MoveDown(bufferId)
       ELSE UNCHANGED <<busy, mFramesInUse, filled>>
    /\ UNCHANGED <<mBuffersSize, mFramesAllowed, streamVars, bpc, cpc, idx,
                   clientStream>>

\* stopVideoStream up to the join, on its own and as the start of forceShutdown.
BeginStop(after) ==
    /\ bpc = "idle" /\ mStreamState = "RUNNING"
    /\ mStreamState' = "STOPPING"
    /\ bpc' = after
    /\ UNCHANGED <<bufferVars, mStream, cpc, idx, clientVars>>

StopVideoStream == BeginStop("stop")

ThreadEnded == cpc = "done"

\* Mutant: the thread is detached, not joined.
JoinCaptureDetached ==
    /\ bpc \in {"stop", "shutdown"}
    /\ mStreamState' = "STOPPED" /\ mStream' = "null"
    /\ bpc' = IF bpc = "stop" THEN "idle" ELSE "drop"
    /\ UNCHANGED <<bufferVars, cpc, idx, clientVars>>

JoinCapture ==
    /\ bpc \in {"stop", "shutdown"} /\ ThreadEnded
    /\ cpc' = "none"
    /\ mStreamState' = "STOPPED" /\ mStream' = "null"
    /\ bpc' = IF bpc = "stop" THEN "idle" ELSE "drop"
    /\ UNCHANGED <<bufferVars, idx, clientVars>>

\* Another client opens the camera, or this one lets go of the last reference.
ForceShutdown ==
    \/ BeginStop("shutdown")
    \/ /\ bpc = "idle" /\ mStreamState \in {"STOPPED", "DEAD"}
       /\ bpc' = "drop"
       /\ UNCHANGED <<bufferVars, streamVars, cpc, idx, clientVars>>

DropBuffers ==
    /\ bpc = "drop"
    /\ filled' = {} /\ busy' = {} /\ mBuffersSize' = 0
    /\ mStreamState' = "DEAD"
    /\ bpc' = "idle"
    /\ UNCHANGED <<mFramesAllowed, mFramesInUse, mStream, cpc, idx, clientVars>>

----------------------------------------------------------------------------
(* generateFrames.  A turn that finds too many frames in flight, or no     *)
(* free record, changes nothing.                                           *)

MayIssue == mFramesInUse < mFramesAllowed

CapturePick ==
    /\ cpc = "loop" /\ mStreamState = "RUNNING"
    /\ MayIssue
    /\ \E i \in FreeSlots : /\ \A j \in FreeSlots : i <= j
                            /\ idx' = i
                            /\ busy' = busy \cup {i}
    /\ mFramesInUse' = mFramesInUse + 1
    /\ cpc' = "deliver"
    /\ UNCHANGED <<mBuffersSize, filled, mFramesAllowed, streamVars, bpc, clientVars>>

CaptureDelivered ==
    /\ cpc = "deliver"
    /\ clientHolds' = clientHolds \cup {idx}
    /\ cpc' = "loop"
    /\ UNCHANGED <<bufferVars, streamVars, bpc, idx, clientStream>>

\* Mutant: the frame that could not be delivered stays in use.
UndeliveredKept ==
    UNCHANGED <<busy, mFramesInUse>>

\* Mutant: the counter goes back and the record stays in use.
UndeliveredStaysInUse ==
    /\ mFramesInUse' = mFramesInUse - 1
    /\ UNCHANGED busy

Undelivered ==
    /\ busy' = busy \ {idx}
    /\ mFramesInUse' = mFramesInUse - 1

CaptureFailed ==
    /\ cpc = "deliver"
    /\ Undelivered
    /\ cpc' = "last"
    /\ UNCHANGED <<mBuffersSize, filled, mFramesAllowed, streamVars, bpc, idx, clientVars>>

\* Mutant: the loop ends only on STOPPED, which the join comes before.
CaptureBreakOnStopped ==
    /\ cpc = "loop" /\ mStreamState = "STOPPED"
    /\ cpc' = "last"
    /\ UNCHANGED <<bufferVars, streamVars, bpc, idx, clientVars>>

CaptureBreak ==
    /\ cpc = "loop" /\ mStreamState # "RUNNING"
    /\ cpc' = "last"
    /\ UNCHANGED <<bufferVars, streamVars, bpc, idx, clientVars>>

\* The frame with a null handle that ends the stream.
CaptureLast ==
    /\ cpc = "last"
    /\ cpc' = "done" /\ clientStream' = "ended"
    /\ UNCHANGED <<bufferVars, streamVars, bpc, idx, clientHolds>>

Capture ==
    CapturePick \/ CaptureDelivered \/ CaptureFailed \/ CaptureBreak \/ CaptureLast

----------------------------------------------------------------------------
Call ==
    \/ \E n \in Requests : SetMaxFramesInFlight(n)
    \/ StartVideoStream \/ StartVideoStreamFails
    \/ StopVideoStream
    \/ ForceShutdown

Next ==
    \/ Call
    \/ \E id \in clientHolds : DoneWithFrame(id)
    \/ JoinCapture \/ DropBuffers
    \/ Capture

Spec == Init /\ [][Next]_vars

(***************************************************************************)
(* Fairness.  The two threads are scheduled, and a client returns the      *)
(* frames that it holds, as IEvsCamera.hal asks of it.                     *)
(***************************************************************************)
Fairness ==
    /\ WF_vars(Capture)
    /\ WF_vars(JoinCapture)
    /\ WF_vars(DropBuffers)
    /\ \A id \in 0 .. MaxBuffers - 1 : WF_vars(DoneWithFrame(id))

FairSpec == Spec /\ Fairness

----------------------------------------------------------------------------
(* Properties. *)

\* Every variable has its type, and no index is beyond the end of mBuffers.
TypeOK ==
    /\ mBuffersSize \in Nat
    /\ filled \subseteq 0 .. mBuffersSize - 1
    /\ busy \subseteq 0 .. mBuffersSize - 1
    /\ mFramesAllowed \in 0 .. MaxBuffers
    /\ mFramesInUse \in Nat
    /\ mStreamState \in {"STOPPED", "RUNNING", "STOPPING", "DEAD"}
    /\ mStream \in {"null", "set"}
    /\ bpc \in {"idle", "stop", "shutdown", "drop"}
    /\ cpc \in {"none", "loop", "deliver", "last", "done"}
    /\ idx \in Nat
    /\ clientHolds \subseteq Nat
    /\ clientStream \in {"none", "open", "ended"}

Alive == mStreamState # "DEAD"

\* The counters agree with the records: mFramesAllowed counts the handles and
\* mFramesInUse the records in use, through every resize, move and rollback.
CountsAgree ==
    Alive => /\ mFramesAllowed = Cardinality(filled)
             /\ mFramesInUse = Cardinality(busy)

\* A record in use is owned by exactly one party: the client has its frame, or
\* the capture thread is delivering it.  Its buffer is not freed under them, and
\* it is not issued a second time.
BusyIsOwned ==
    Alive => /\ busy \subseteq filled
             /\ busy = clientHolds \cup (IF cpc = "deliver" THEN {idx} ELSE {})
             /\ cpc = "deliver" => idx \notin clientHolds

\* generateFrames: after the check of mFramesInUse against mFramesAllowed, an
\* available record is found ("This shouldn't happen").
AvailableSlotExists ==
    Alive /\ mFramesInUse < mFramesAllowed => FreeSlots # {}

\* doneWithFrame: a record that is high in the array finds an empty record below
\* it ("which should always exist in this case").
EmptySlotBelow ==
    \A id \in busy : id >= mFramesAllowed => \E i \in EmptySlots : i < id

\* While the capture thread exists the stream that it calls is there, and a
\* camera that is stopped or dead has no capture thread.
CaptureHasStream ==
    /\ cpc # "none" => mStream = "set"
    /\ mStreamState \in {"STOPPED", "DEAD"} => cpc = "none"

\* The null frame ends the stream: a frame is only delivered before it, and when
\* stopVideoStream or forceShutdown has returned the client has been sent it.
EndIsSignalled ==
    /\ cpc \in {"loop", "deliver", "last"} => clientStream = "open"
    /\ mStreamState \in {"STOPPED", "DEAD"} => clientStream # "open"

\* stopVideoStream and forceShutdown return: the capture thread sees the state.
StopReturns == bpc # "idle" ~> bpc = "idle"

\* A stream that goes on running, whose deliveries succeed and which has a
\* buffer, delivers frame after frame to a client that returns them.
KeepsDelivering ==
    <>[](mStreamState = "RUNNING" /\ cpc \notin {"last", "done"} /\ mFramesAllowed > 0)
        => []<>(cpc = "deliver")

----------------------------------------------------------------------------
(* Refinement. *)

Service == INSTANCE EvsCameraService WITH
    phase  <- CASE mStreamState = "DEAD"    -> "dead"
                [] mStreamState = "STOPPED" -> "stopped"
                [] OTHER                    -> "running",
    budget <- mFramesAllowed,
    held   <- clientHolds,
    stream <- clientStream

\* The camera keeps the promises of EvsCameraService: a frame is delivered only on
\* a stream that is open, within the limit in force, and never while the client
\* still has it; a stop returns after the null frame; nothing follows a shutdown.
ImplementsService == Service!Spec

----------------------------------------------------------------------------
(* What a comment says and the code does not do. *)

\* setAvailableFrames_Locked: "If we didn't add all the frames we needed, then
\* roll back to the previous state": a larger count is reached or nothing
\* changes.
RollbackRestores ==
    [][\A n \in Requests :
         SetMaxFramesInFlight(n) /\ n > mFramesAllowed =>
             mFramesAllowed' \in {n, mFramesAllowed}]_vars
============================================================================
