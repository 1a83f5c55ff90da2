-------------------------- MODULE EvsCameraProofs --------------------------
(***************************************************************************)
(* Proofs about EvsCamera, for every limit on the buffers, every set of    *)
(* requests and an allocator that may or may not fail.                     *)
(***************************************************************************)
EXTENDS EvsCamera, FiniteSetTheorems, TLAPS

(* The part of the inductive invariant that no run names: where the two    *)
(* threads are in each stream state, and that a dead camera has nothing.   *)
StateInv ==
    /\ bpc \in {"stop", "shutdown"} <=> mStreamState = "STOPPING"
    /\ bpc = "drop" => mStreamState \in {"STOPPED", "DEAD"}
    /\ cpc = "none" <=> mStreamState \in {"STOPPED", "DEAD"}
    /\ mStreamState = "DEAD" => mBuffersSize = 0
    /\ cpc = "done" => clientStream = "ended"

Inv ==
    /\ TypeOK
    /\ StateInv
    /\ CountsAgree
    /\ BusyIsOwned
    /\ CaptureHasStream
    /\ EndIsSignalled

USE CameraAssumption DEF bufferVars, streamVars, clientVars

-----------------------------------------------------------------------------
(* Facts about the sets of indices. *)

\* The index sets are finite, so their cardinalities are numbers.
LEMMA FiniteSlots ==
    ASSUME TypeOK
    PROVE  /\ IsFiniteSet(filled) /\ IsFiniteSet(busy) /\ IsFiniteSet(FreeSlots)
           /\ Cardinality(filled) \in Nat /\ Cardinality(busy) \in Nat
           /\ Cardinality(FreeSlots) \in Nat
  <1>1. IsFiniteSet(0 .. mBuffersSize - 1)
    BY FS_Interval DEF TypeOK
  <1>2. IsFiniteSet(filled) /\ IsFiniteSet(busy)
    BY <1>1, FS_Subset DEF TypeOK
  <1>3. FreeSlots \in SUBSET filled
    BY DEF FreeSlots
  <1>4. IsFiniteSet(FreeSlots)
    BY <1>2, <1>3, FS_Subset
  <1> QED
    BY <1>2, <1>4, FS_CardinalityType

\* What one resize does: the records in use keep their buffers, every index
\* stays below the size, and the handles change by what was added and removed.
LEMMA ResizeFacts ==
    ASSUME TypeOK, busy \subseteq filled, NEW added \in Nat, NEW removed \in Nat,
           Resize(added, removed)
    PROVE  /\ mBuffersSize' \in Nat /\ mBuffersSize' >= mBuffersSize
           /\ filled' \subseteq 0 .. mBuffersSize' - 1
           /\ busy \subseteq filled'
           /\ Cardinality(filled') = Cardinality(filled) + added - removed
           /\ Cardinality(filled') \in Nat
           /\ mFramesAllowed' = mFramesAllowed + added - removed
  <1> DEFINE Room == (0 .. mBuffersSize + added - 1) \ filled
  <1>1. PICK A \in SUBSET Room, k \in mBuffersSize .. mBuffersSize + added :
          /\ Cardinality(A) = added
          /\ \A i \in A : i < k
          /\ mBuffersSize' = k
          /\ \E F \in SUBSET ((filled \cup A) \ busy) :
               /\ Cardinality(F) = removed
               /\ filled' = (filled \cup A) \ F
          /\ mFramesAllowed' = mFramesAllowed + added - removed
    BY DEF Resize, Lowest
  <1>2. PICK F \in SUBSET ((filled \cup A) \ busy) :
          Cardinality(F) = removed /\ filled' = (filled \cup A) \ F
    BY <1>1
  <1>3. IsFiniteSet(filled) /\ IsFiniteSet(A)
    <2>1. IsFiniteSet(0 .. mBuffersSize + added - 1)
      BY FS_Interval DEF TypeOK
    <2> QED
      BY <2>1, FiniteSlots, FS_Subset
  <1>4. /\ IsFiniteSet(filled \cup A)
        /\ Cardinality(filled \cup A) = Cardinality(filled) + added
    <2>1. filled \cap A = {} /\ Cardinality(filled \cap A) = 0
      BY FS_EmptySet
    <2>2. /\ IsFiniteSet(filled \cup A)
          /\ Cardinality(filled \cup A)
               = Cardinality(filled) + Cardinality(A) - Cardinality(filled \cap A)
      BY <1>3, FS_Union
    <2>3. Cardinality(filled) \in Nat
      BY FiniteSlots
    <2> QED
      BY <1>1, <2>1, <2>2, <2>3
  <1>5. Cardinality(filled') = Cardinality(filled) + added - removed
    <2>1. (filled \cup A) \cap F = F
      OBVIOUS
    <2>2. IsFiniteSet(F)
      BY <1>4, FS_Subset
    <2>3. Cardinality((filled \cup A) \ F)
            = Cardinality(filled \cup A) - Cardinality((filled \cup A) \cap F)
      BY <1>4, FS_Difference
    <2>4. Cardinality((filled \cup A) \cap F) = removed
      BY <1>2, <2>1
    <2>5. Cardinality(filled') = Cardinality((filled \cup A) \ F)
      BY <1>2
    <2>6. Cardinality(filled) \in Nat
      BY FiniteSlots
    <2> QED
      BY <1>4, <2>3, <2>4, <2>5, <2>6
  <1>6. Cardinality(filled') \in Nat
    BY <1>2, <1>4, FS_Subset, FS_CardinalityType
  <1>7. mBuffersSize' \in Nat /\ mBuffersSize' >= mBuffersSize
    BY <1>1 DEF TypeOK
  <1>8. filled' \subseteq 0 .. mBuffersSize' - 1
    BY <1>1, <1>2, <1>7 DEF TypeOK
  <1>9. busy \subseteq filled'
    BY <1>2
  <1> QED
    BY <1>1, <1>5, <1>6, <1>7, <1>8, <1>9

\* setAvailableFrames_Locked, whatever it answers, keeps the buffer set right.
LEMMA SetAvailableFacts ==
    ASSUME Inv, mStreamState # "DEAD", NEW n \in Nat,
           SetAvailable(n) \/ SetAvailableFails(n)
    PROVE  /\ mBuffersSize' \in Nat /\ mBuffersSize' >= mBuffersSize
           /\ filled' \subseteq 0 .. mBuffersSize' - 1
           /\ busy \subseteq filled'
           /\ mFramesAllowed' = Cardinality(filled')
           /\ mFramesAllowed' \in 0 .. MaxBuffers
           /\ UNCHANGED <<busy, mFramesInUse>>
  <1>0. /\ TypeOK /\ busy \subseteq filled /\ mFramesAllowed = Cardinality(filled)
        /\ mFramesAllowed \in Nat /\ mFramesAllowed <= MaxBuffers
    BY DEF Inv, BusyIsOwned, CountsAgree, Alive, TypeOK
  <1>1. Cardinality(FreeSlots) \in Nat
    BY <1>0, FiniteSlots
  <1>2. UNCHANGED <<busy, mFramesInUse>>
    BY DEF SetAvailable, SetAvailableFails
  <1>3. CASE mFramesAllowed < n /\ n <= MaxBuffers /\ Resize(n - mFramesAllowed, 0)
    <2>1. n - mFramesAllowed \in Nat
      BY <1>0, <1>3
    <2> QED
      BY <1>0, <1>2, <1>3, <2>1, ResizeFacts
  <1>4. CASE /\ mFramesAllowed > n
             /\ Resize(0, Removed(mFramesAllowed - n, Cardinality(FreeSlots)))
    <2>1. Removed(mFramesAllowed - n, Cardinality(FreeSlots)) \in Nat
      BY <1>0, <1>1, <1>4 DEF Removed
    <2> QED
      BY <1>0, <1>2, <1>4, <2>1, ResizeFacts
  <1>5. CASE UNCHANGED <<mBuffersSize, filled, mFramesAllowed>>
    BY <1>0, <1>2, <1>5 DEF TypeOK
  <1>6. CASE \E added \in 0 .. n - mFramesAllowed - 1 :
               Resize(added, Removed(added, Cardinality(FreeSlots) + added))
    <2>1. PICK added \in 0 .. n - mFramesAllowed - 1 :
            Resize(added, Removed(added, Cardinality(FreeSlots) + added))
      BY <1>6
    <2>2. /\ Removed(added, Cardinality(FreeSlots) + added) \in Nat
          /\ Removed(added, Cardinality(FreeSlots) + added) >= added
      BY <1>1 DEF Removed
    <2> QED
      BY <1>0, <1>2, <2>1, <2>2, ResizeFacts
  <1> QED
    BY <1>3, <1>4, <1>5, <1>6 DEF SetAvailable, SetAvailableFails

-----------------------------------------------------------------------------
(* The two comments of the code. *)

\* Fewer records in use than handles leave one with a handle that is free.
LEMMA FreeSlotExists == Inv => AvailableSlotExists
  <1> SUFFICES ASSUME Inv, Alive, mFramesInUse < mFramesAllowed, FreeSlots = {}
               PROVE  FALSE
    BY DEF AvailableSlotExists
  <1>1. busy = filled
    BY DEF Inv, BusyIsOwned, FreeSlots
  <1>2. Cardinality(filled) \in Nat
    BY FiniteSlots DEF Inv
  <1> QED
    BY <1>1, <1>2 DEF Inv, CountsAgree

\* The handles fit below mFramesAllowed, so one above leaves a gap below.
LEMMA GapExists == Inv => EmptySlotBelow
  <1> SUFFICES ASSUME Inv, NEW id \in busy, id >= mFramesAllowed,
                      \A i \in EmptySlots : ~(i < id)
               PROVE  FALSE
    BY DEF EmptySlotBelow
  <1>1. TypeOK /\ busy \subseteq 0 .. mBuffersSize - 1 /\ mBuffersSize \in Nat
    BY DEF Inv, TypeOK
  <1>2. mStreamState # "DEAD"
    BY <1>1 DEF Inv, StateInv
  <1>3. busy \subseteq filled /\ mFramesAllowed = Cardinality(filled)
    BY <1>2 DEF Inv, BusyIsOwned, CountsAgree, Alive
  <1>4. 0 .. id \in SUBSET filled
    BY <1>1, <1>3 DEF EmptySlots
  <1>5. Cardinality(0 .. id) = id + 1
    BY <1>1, FS_Interval
  <1>6. Cardinality(0 .. id) <= Cardinality(filled)
    BY <1>1, <1>4, FiniteSlots, FS_Subset
  <1> QED
    BY <1>1, <1>3, <1>5, <1>6, FiniteSlots

-----------------------------------------------------------------------------
(* The invariant holds initially, and every action preserves it. *)

\* The constructor establishes the invariant.
LEMMA InitInv == Init => Inv
  BY FS_EmptySet DEF Init, Inv, TypeOK, StateInv, CountsAgree, BusyIsOwned, Alive,
     CaptureHasStream, EndIsSignalled

\* setMaxFramesInFlight preserves it, whether the resize succeeds, is partial or is rolled back.
LEMMA SetMaxFramesInFlightInv ==
    ASSUME Inv, NEW n \in Requests, SetMaxFramesInFlight(n)
    PROVE  Inv'
  <1>1. /\ mBuffersSize' \in Nat /\ mBuffersSize' >= mBuffersSize
        /\ filled' \subseteq 0 .. mBuffersSize' - 1
        /\ busy \subseteq filled'
        /\ mFramesAllowed' = Cardinality(filled')
        /\ mFramesAllowed' \in 0 .. MaxBuffers
        /\ UNCHANGED <<busy, mFramesInUse>>
    BY SetAvailableFacts DEF SetMaxFramesInFlight
  <1>2. UNCHANGED <<streamVars, bpc, cpc, idx, clientVars>> /\ mStreamState # "DEAD"
    BY DEF SetMaxFramesInFlight
  <1> QED
    BY <1>1, <1>2 DEF Inv, TypeOK, StateInv, CountsAgree, BusyIsOwned, Alive,
       CaptureHasStream, EndIsSignalled

\* startVideoStream preserves it, with or without the default buffer.
LEMMA StartVideoStreamInv ==
    ASSUME Inv, StartVideoStream
    PROVE  Inv'
  <1>1. bpc = "idle" /\ mStreamState = "STOPPED" /\ cpc = "none" /\ TypeOK
    BY DEF Inv, StartVideoStream, StateInv
  <1>2. /\ mBuffersSize' \in Nat /\ mBuffersSize' >= mBuffersSize
        /\ filled' \subseteq 0 .. mBuffersSize' - 1
        /\ busy \subseteq filled'
        /\ mFramesAllowed' = Cardinality(filled')
        /\ mFramesAllowed' \in 0 .. MaxBuffers
        /\ UNCHANGED <<busy, mFramesInUse>>
    <2>1. CASE mFramesAllowed < 1
      BY <1>1, <2>1, SetAvailableFacts DEF StartVideoStream
    <2>2. CASE ~(mFramesAllowed < 1)
      <3>1. UNCHANGED bufferVars
        BY <2>2 DEF StartVideoStream
      <3>2. busy \subseteq filled /\ mFramesAllowed = Cardinality(filled)
        BY <1>1 DEF Inv, BusyIsOwned, CountsAgree, Alive
      <3> QED
        BY <1>1, <3>1, <3>2 DEF TypeOK
    <2> QED
      BY <2>1, <2>2
  <1> QED
    BY <1>1, <1>2 DEF Inv, StartVideoStream, TypeOK, StateInv, CountsAgree,
       BusyIsOwned, Alive, CaptureHasStream, EndIsSignalled

\* startVideoStream that gets no buffer preserves it.
LEMMA StartVideoStreamFailsInv ==
    ASSUME Inv, StartVideoStreamFails
    PROVE  Inv'
  <1>1. /\ mBuffersSize' \in Nat /\ mBuffersSize' >= mBuffersSize
        /\ filled' \subseteq 0 .. mBuffersSize' - 1
        /\ busy \subseteq filled'
        /\ mFramesAllowed' = Cardinality(filled')
        /\ mFramesAllowed' \in 0 .. MaxBuffers
        /\ UNCHANGED <<busy, mFramesInUse>>
    BY SetAvailableFacts DEF StartVideoStreamFails
  <1>2. UNCHANGED <<streamVars, bpc, cpc, idx, clientVars>> /\ mStreamState # "DEAD"
    BY DEF StartVideoStreamFails
  <1> QED
    BY <1>1, <1>2 DEF Inv, TypeOK, StateInv, CountsAgree, BusyIsOwned, Alive,
       CaptureHasStream, EndIsSignalled

\* doneWithFrame preserves it: the handle that moves down is counted once.
LEMMA DoneWithFrameInv ==
    ASSUME Inv, NEW id \in clientHolds, DoneWithFrame(id)
    PROVE  Inv'
  <1>1. /\ TypeOK /\ bpc = "idle" /\ clientHolds' = clientHolds \ {id}
        /\ UNCHANGED <<mBuffersSize, mFramesAllowed, streamVars, bpc, cpc, idx, clientStream>>
    BY DEF Inv, DoneWithFrame
  <1>2. CASE mStreamState = "DEAD"
    <2>1. mBuffersSize = 0
      BY <1>2 DEF Inv, StateInv
    <2>2. UNCHANGED <<busy, mFramesInUse, filled>>
      BY <2>1 DEF Inv, TypeOK, DoneWithFrame
    <2> QED
      BY <1>1, <1>2, <2>1, <2>2 DEF Inv, TypeOK, StateInv, CountsAgree, BusyIsOwned,
         Alive, CaptureHasStream, EndIsSignalled
  <1>3. CASE mStreamState # "DEAD"
    <2>1. /\ id \in busy /\ busy \subseteq filled /\ id \in filled
          /\ id \in 0 .. mBuffersSize - 1
          /\ mFramesAllowed = Cardinality(filled) /\ mFramesInUse = Cardinality(busy)
      BY <1>1, <1>3 DEF Inv, BusyIsOwned, CountsAgree, Alive, TypeOK
    <2>2. /\ busy' = busy \ {id} /\ mFramesInUse' = mFramesInUse - 1 /\ MoveDown(id)
      BY <1>1, <2>1 DEF DoneWithFrame, TypeOK
    <2>3. Cardinality(busy') = mFramesInUse' /\ mFramesInUse' \in Nat
      <3>1. IsFiniteSet(busy)
        BY <1>1, FiniteSlots
      <3>2. IsFiniteSet(busy \ {id}) /\ Cardinality(busy \ {id}) = Cardinality(busy) - 1
        BY <2>1, <3>1, FS_RemoveElement
      <3>3. Cardinality(busy \ {id}) \in Nat
        BY <3>2, FS_CardinalityType
      <3> QED
        BY <2>1, <2>2, <3>2, <3>3
    <2>4. /\ filled' \subseteq 0 .. mBuffersSize - 1 /\ busy' \subseteq filled'
          /\ Cardinality(filled') = Cardinality(filled)
      <3>1. CASE \E i \in EmptySlots : filled' = (filled \ {id}) \cup {i}
        <4>1. PICK i \in EmptySlots : filled' = (filled \ {id}) \cup {i}
          BY <3>1
        <4>2. i \notin filled /\ i \in 0 .. mBuffersSize - 1
          BY DEF EmptySlots
        <4>3. IsFiniteSet(filled \ {id}) /\ Cardinality(filled \ {id}) = Cardinality(filled) - 1
          BY <1>1, <2>1, FiniteSlots, FS_RemoveElement
        <4>4. Cardinality(filled') = Cardinality(filled)
          <5>1. Cardinality((filled \ {id}) \cup {i}) = Cardinality(filled \ {id}) + 1
            BY <4>2, <4>3, FS_AddElement
          <5>2. Cardinality(filled) \in Nat
            BY <1>1, FiniteSlots
          <5> QED
            BY <4>1, <4>3, <5>1, <5>2
        <4> QED
          BY <1>1, <2>1, <2>2, <4>1, <4>2, <4>4 DEF TypeOK
      <3>2. CASE filled' = filled
        BY <1>1, <2>1, <2>2, <3>2 DEF TypeOK
      <3> QED
        BY <2>2, <3>1, <3>2 DEF MoveDown
    <2>5. TypeOK'
      BY <1>1, <2>2, <2>3, <2>4 DEF TypeOK
    <2>6. CountsAgree'
      BY <1>1, <2>1, <2>3, <2>4 DEF CountsAgree, Alive
    <2>7. BusyIsOwned'
      BY <1>1, <1>3, <2>2, <2>4 DEF Inv, BusyIsOwned, Alive
    <2> QED
      BY <1>1, <2>5, <2>6, <2>7 DEF Inv, StateInv, CaptureHasStream, EndIsSignalled
  <1> QED
    BY <1>2, <1>3

\* stopVideoStream, up to the join, preserves it.
LEMMA StopInv ==
    ASSUME Inv, NEW after \in {"stop", "shutdown"}, BeginStop(after)
    PROVE  Inv'
  BY DEF Inv, BeginStop, TypeOK, StateInv, CountsAgree, BusyIsOwned, Alive,
     CaptureHasStream, EndIsSignalled

\* forceShutdown, up to the join, preserves it.
LEMMA ForceShutdownInv ==
    ASSUME Inv, ForceShutdown
    PROVE  Inv'
  <1>1. CASE BeginStop("shutdown")
    BY <1>1, StopInv
  <1>2. CASE /\ bpc = "idle" /\ mStreamState \in {"STOPPED", "DEAD"}
             /\ bpc' = "drop"
             /\ UNCHANGED <<bufferVars, streamVars, cpc, idx, clientVars>>
    BY <1>2 DEF Inv, TypeOK, StateInv, CountsAgree, BusyIsOwned, Alive,
       CaptureHasStream, EndIsSignalled
  <1> QED
    BY <1>1, <1>2 DEF ForceShutdown

\* The end of stopVideoStream, after the join, preserves it.
LEMMA JoinCaptureInv ==
    ASSUME Inv, JoinCapture
    PROVE  Inv'
  <1>1. TypeOK' /\ StateInv'
    BY DEF Inv, JoinCapture, TypeOK, StateInv
  <1>2. CountsAgree' /\ BusyIsOwned'
    BY DEF Inv, JoinCapture, ThreadEnded, StateInv, CountsAgree, BusyIsOwned, Alive
  <1>3. CaptureHasStream' /\ EndIsSignalled'
    BY DEF Inv, JoinCapture, ThreadEnded, StateInv, CaptureHasStream, EndIsSignalled
  <1> QED
    BY <1>1, <1>2, <1>3 DEF Inv

\* The end of forceShutdown, which drops the buffers, preserves it.
LEMMA DropBuffersInv ==
    ASSUME Inv, DropBuffers
    PROVE  Inv'
  BY DEF Inv, DropBuffers, TypeOK, StateInv, CountsAgree, BusyIsOwned, Alive,
     CaptureHasStream, EndIsSignalled

\* generateFrames that picks a free record preserves it.
LEMMA CapturePickInv ==
    ASSUME Inv, CapturePick
    PROVE  Inv'
  <1>1. /\ TypeOK /\ mStreamState = "RUNNING" /\ cpc = "loop" /\ cpc' = "deliver"
        /\ UNCHANGED <<mBuffersSize, filled, mFramesAllowed, streamVars, bpc, clientVars>>
    BY DEF Inv, CapturePick
  <1>2. PICK i \in FreeSlots : idx' = i /\ busy' = busy \cup {i}
    BY DEF CapturePick
  <1>3. /\ i \in filled /\ i \notin busy /\ i \in 0 .. mBuffersSize - 1 /\ i \in Nat
        /\ busy = clientHolds /\ busy \subseteq filled /\ mFramesInUse = Cardinality(busy)
    BY <1>1 DEF Inv, FreeSlots, TypeOK, BusyIsOwned, CountsAgree, Alive
  <1>4. mFramesInUse' = Cardinality(busy')
    BY <1>1, <1>2, <1>3, FiniteSlots, FS_AddElement DEF CapturePick
  <1>5. TypeOK'
    BY <1>1, <1>2, <1>3 DEF CapturePick, TypeOK
  <1>6. CountsAgree' /\ BusyIsOwned'
    BY <1>1, <1>2, <1>3, <1>4 DEF Inv, CountsAgree, BusyIsOwned, Alive
  <1> QED
    BY <1>1, <1>5, <1>6 DEF Inv, StateInv, CaptureHasStream, EndIsSignalled

\* generateFrames that hands the frame to the client preserves it.
LEMMA CaptureDeliveredInv ==
    ASSUME Inv, CaptureDelivered
    PROVE  Inv'
  BY DEF Inv, CaptureDelivered, TypeOK, StateInv, CountsAgree, BusyIsOwned, Alive,
     CaptureHasStream, EndIsSignalled

\* generateFrames that takes the frame back after a failed delivery preserves it.
LEMMA CaptureFailedInv ==
    ASSUME Inv, CaptureFailed
    PROVE  Inv'
  <1>1. /\ TypeOK /\ cpc = "deliver" /\ cpc' = "last" /\ mStreamState # "DEAD"
        /\ busy' = busy \ {idx} /\ mFramesInUse' = mFramesInUse - 1
        /\ UNCHANGED <<mBuffersSize, filled, mFramesAllowed, streamVars, bpc, idx, clientVars>>
    BY DEF Inv, CaptureFailed, Undelivered, StateInv
  <1>2. /\ idx \in busy /\ busy = clientHolds \cup {idx} /\ idx \notin clientHolds
        /\ busy \subseteq filled /\ mFramesInUse = Cardinality(busy)
    BY <1>1 DEF Inv, BusyIsOwned, CountsAgree, Alive
  <1>3. mFramesInUse' = Cardinality(busy') /\ mFramesInUse' \in Nat
    <2>1. IsFiniteSet(busy)
      BY <1>1, FiniteSlots
    <2>2. IsFiniteSet(busy \ {idx}) /\ Cardinality(busy \ {idx}) = Cardinality(busy) - 1
      BY <1>2, <2>1, FS_RemoveElement
    <2>3. Cardinality(busy \ {idx}) \in Nat
      BY <2>2, FS_CardinalityType
    <2> QED
      BY <1>1, <1>2, <2>2, <2>3
  <1>4. TypeOK'
    BY <1>1, <1>3 DEF TypeOK
  <1>5. CountsAgree' /\ BusyIsOwned'
    BY <1>1, <1>2, <1>3 DEF Inv, CountsAgree, BusyIsOwned, Alive
  <1> QED
    BY <1>1, <1>4, <1>5 DEF Inv, StateInv, CaptureHasStream, EndIsSignalled

\* The end of generateFrames preserves it.
LEMMA CaptureEndInv ==
    ASSUME Inv, CaptureBreak \/ CaptureLast
    PROVE  Inv'
  BY DEF Inv, CaptureBreak, CaptureLast, TypeOK, StateInv, CountsAgree, BusyIsOwned,
     Alive, CaptureHasStream, EndIsSignalled

\* Every step of the camera preserves the invariant.
LEMMA NextInv == Inv /\ [Next]_vars => Inv'
  <1> SUFFICES ASSUME Inv, [Next]_vars PROVE Inv'
    OBVIOUS
  <1>1. CASE Call
    BY <1>1, SetMaxFramesInFlightInv, StartVideoStreamInv, StartVideoStreamFailsInv,
       StopInv, ForceShutdownInv DEF Call, StopVideoStream
  <1>2. CASE \E id \in clientHolds : DoneWithFrame(id)
    BY <1>2, DoneWithFrameInv
  <1>3. CASE JoinCapture \/ DropBuffers
    BY <1>3, JoinCaptureInv, DropBuffersInv
  <1>4. CASE Capture
    BY <1>4, CapturePickInv, CaptureDeliveredInv, CaptureFailedInv, CaptureEndInv
       DEF Capture
  <1>5. CASE UNCHANGED vars
    BY <1>5 DEF vars, Inv, TypeOK, StateInv, CountsAgree, BusyIsOwned, Alive,
       CaptureHasStream, EndIsSignalled
  <1> QED
    BY <1>1, <1>2, <1>3, <1>4, <1>5 DEF Next

-----------------------------------------------------------------------------
(* The theorems. *)

\* The inductive invariant holds in every state of every behaviour.
THEOREM InvHolds == Spec => []Inv
  BY InitInv, NextInv, PTL DEF Spec

\* The state of EvsCamera keeps its type; no index leaves mBuffers.
THEOREM TypeCorrect == Spec => []TypeOK
  <1>1. Inv => TypeOK
    BY DEF Inv
  <1> QED
    BY <1>1, InvHolds, PTL

\* mFramesAllowed and mFramesInUse count the records they are about.
THEOREM CountersAreRight == Spec => []CountsAgree
  <1>1. Inv => CountsAgree
    BY DEF Inv
  <1> QED
    BY <1>1, InvHolds, PTL

\* A buffer that the client holds is neither freed nor issued again.
THEOREM FramesHaveOneOwner == Spec => []BusyIsOwned
  <1>1. Inv => BusyIsOwned
    BY DEF Inv
  <1> QED
    BY <1>1, InvHolds, PTL

\* generateFrames finds a record whenever mFramesInUse < mFramesAllowed.
THEOREM ScanFindsBuffer == Spec => []AvailableSlotExists
  BY FreeSlotExists, InvHolds, PTL

\* doneWithFrame finds an empty record below the one that it empties.
THEOREM MoveFindsSlot == Spec => []EmptySlotBelow
  BY GapExists, InvHolds, PTL

\* stopVideoStream and forceShutdown leave no capture thread, and mStream is
\* there as long as it lives.
THEOREM StreamOutlivesCapture == Spec => []CaptureHasStream
  <1>1. Inv => CaptureHasStream
    BY DEF Inv
  <1> QED
    BY <1>1, InvHolds, PTL

\* The null frame is the last one, and it is sent before the stop returns.
THEOREM NullFrameIsLast == Spec => []EndIsSignalled
  <1>1. Inv => EndIsSignalled
    BY DEF Inv
  <1> QED
    BY <1>1, InvHolds, PTL

-----------------------------------------------------------------------------
(* What setMaxFramesInFlight makes of a request. *)

\* A request for fewer buffers is met, as far as the frames in flight allow.  One
\* for more is met or, when the allocator fails, changes nothing or (against the
\* comment, see RollbackRestores) takes away the buffers that are free: never one
\* that is in use.
LimitFollowsRequest ==
    [][\A n \in Requests : SetMaxFramesInFlight(n) =>
          IF n <= mFramesAllowed
          THEN mFramesAllowed' = IF n < mFramesInUse THEN mFramesInUse ELSE n
          ELSE mFramesAllowed' \in {n, mFramesAllowed, mFramesInUse}]_vars

\* The free buffers are those that are not in flight.
LEMMA FreeCount ==
    ASSUME Inv, mStreamState # "DEAD"
    PROVE  /\ mFramesAllowed \in Nat /\ mFramesInUse \in Nat /\ mFramesInUse <= mFramesAllowed
           /\ Cardinality(FreeSlots) = mFramesAllowed - mFramesInUse
  <1>1. /\ busy \subseteq filled /\ mFramesAllowed = Cardinality(filled)
        /\ mFramesInUse = Cardinality(busy)
    BY DEF Inv, BusyIsOwned, CountsAgree, Alive
  <1>2. /\ IsFiniteSet(filled) /\ Cardinality(filled) \in Nat /\ Cardinality(busy) \in Nat
        /\ Cardinality(FreeSlots) \in Nat
    BY FiniteSlots DEF Inv
  <1>3. Cardinality(FreeSlots) = Cardinality(filled) - Cardinality(filled \cap busy)
    BY <1>2, FS_Difference DEF FreeSlots
  <1>4. filled \cap busy = busy
    BY <1>1
  <1>5. Cardinality(FreeSlots) = mFramesAllowed - mFramesInUse
    BY <1>1, <1>3, <1>4, Zenon
  <1>6. mFramesAllowed \in Nat /\ mFramesInUse \in Nat
    BY <1>1, <1>2, Zenon
  <1>7. mFramesInUse <= mFramesAllowed
    <2> DEFINE k == Cardinality(FreeSlots)
    <2>1. k \in Nat /\ k = mFramesAllowed - mFramesInUse
      BY <1>2, <1>5
    <2> HIDE DEF k
    <2> QED
      BY <1>6, <2>1
  <1> QED
    BY <1>5, <1>6, <1>7

\* A resize changes the limit by what it adds and removes.
LEMMA ResizeLimit ==
    ASSUME NEW added, NEW removed, Resize(added, removed)
    PROVE  mFramesAllowed' = mFramesAllowed + added - removed
  BY DEF Resize

\* After a call of setMaxFramesInFlight the limit is the one that was asked for or
\* the number of frames in flight, or it is the one there was.
THEOREM LimitIsFollowed == Spec => LimitFollowsRequest
  <1>1. ASSUME Inv, NEW n \in Requests, SetMaxFramesInFlight(n)
        PROVE  IF n <= mFramesAllowed
               THEN mFramesAllowed' = IF n < mFramesInUse THEN mFramesInUse ELSE n
               ELSE mFramesAllowed' \in {n, mFramesAllowed, mFramesInUse}
    <2> DEFINE free == Cardinality(FreeSlots)
    <2>1. /\ mFramesAllowed \in Nat /\ mFramesInUse \in Nat /\ mFramesInUse <= mFramesAllowed
          /\ free = mFramesAllowed - mFramesInUse /\ n \in Nat
      BY <1>1, FreeCount DEF SetMaxFramesInFlight
    <2> HIDE DEF free
    <2>2. \/ mFramesAllowed < n /\ Resize(n - mFramesAllowed, 0)
          \/ mFramesAllowed > n /\ Resize(0, Removed(mFramesAllowed - n, free))
          \/ mFramesAllowed = n /\ mFramesAllowed' = mFramesAllowed
          \/ /\ n > mFramesAllowed
             /\ \E added \in 0 .. n - mFramesAllowed - 1 :
                   Resize(added, Removed(added, free + added))
      BY <1>1, <2>1 DEF SetMaxFramesInFlight, SetAvailable, SetAvailableFails, free
    <2>3. CASE mFramesAllowed < n /\ Resize(n - mFramesAllowed, 0)
      <3>1. mFramesAllowed' = mFramesAllowed + (n - mFramesAllowed) - 0
        BY <2>3, ResizeLimit
      <3> QED
        BY <2>1, <2>3, <3>1
    <2>4. CASE mFramesAllowed > n /\ Resize(0, Removed(mFramesAllowed - n, free))
      <3>1. mFramesAllowed' = mFramesAllowed + 0 - Removed(mFramesAllowed - n, free)
        BY <2>4, ResizeLimit
      <3>2. Removed(mFramesAllowed - n, free) =
                IF mFramesAllowed - n > free THEN free ELSE mFramesAllowed - n
        BY <2>1, <2>4 DEF Removed
      <3> QED
        BY <2>1, <2>4, <3>1, <3>2
    <2>5. CASE mFramesAllowed = n /\ mFramesAllowed' = mFramesAllowed
      BY <2>1, <2>5
    <2>6. ASSUME n > mFramesAllowed, NEW added \in 0 .. n - mFramesAllowed - 1,
                 Resize(added, Removed(added, free + added))
          PROVE  mFramesAllowed' \in {mFramesAllowed, mFramesInUse}
      <3>1. mFramesAllowed' = mFramesAllowed + added - Removed(added, free + added)
        BY <2>6, ResizeLimit
      <3>2. Removed(added, free + added) = IF added = 0 THEN free ELSE added
        BY <2>1 DEF Removed
      <3> QED
        BY <2>1, <3>1, <3>2
    <2> QED
      BY <2>1, <2>2, <2>3, <2>4, <2>5, <2>6
  <1>2. Inv /\ [Next]_vars =>
          [\A n \in Requests : SetMaxFramesInFlight(n) =>
              IF n <= mFramesAllowed
              THEN mFramesAllowed' = IF n < mFramesInUse THEN mFramesInUse ELSE n
              ELSE mFramesAllowed' \in {n, mFramesAllowed, mFramesInUse}]_vars
    BY <1>1
  <1> QED
    BY <1>2, InvHolds, PTL DEF Spec, LimitFollowsRequest

-----------------------------------------------------------------------------
(* Refinement.  Every step of the camera is a step of EvsCameraService, or *)
(* leaves what the client can see unchanged.                               *)

\* The frames that the client has after a step are within the limit in force.
LEMMA WithinNewLimit ==
    ASSUME Inv', Alive'
    PROVE  /\ Cardinality(clientHolds') \in Nat
           /\ Cardinality(clientHolds') <= mFramesAllowed'
  <1>1. clientHolds' \subseteq filled'
    BY DEF Inv, BusyIsOwned, Alive
  <1>2. IsFiniteSet(0 .. mBuffersSize' - 1)
    BY FS_Interval DEF Inv, TypeOK
  <1>3. IsFiniteSet(filled')
    BY <1>2, FS_Subset DEF Inv, TypeOK
  <1>4. Cardinality(filled') = mFramesAllowed'
    BY DEF Inv, CountsAgree, Alive
  <1> QED
    BY <1>1, <1>3, <1>4, FS_Subset, FS_CardinalityType

\* Both modules take Cardinality from FiniteSets.
LEMMA SameCardinality ==
    ASSUME NEW S
    PROVE  Service!Cardinality(S) = Cardinality(S)
  BY DEF Service!Cardinality, Cardinality

\* Every step of the camera is a step of the service it implements, or a stutter.
LEMMA ServiceStep ==
    ASSUME Inv, Inv', Next
    PROVE  [Service!Next]_(Service!serviceVars)
  <1> USE DEF Alive
  <1>1. ASSUME NEW n \in Requests, SetMaxFramesInFlight(n)
        PROVE  Service!Rebudget
    BY <1>1, WithinNewLimit, SameCardinality DEF SetMaxFramesInFlight, Service!Rebudget, Inv, TypeOK
  <1>2. CASE StartVideoStream
    <2>1. mFramesAllowed' # 0
      <3>1. CASE mFramesAllowed < 1
        <4>1. mFramesAllowed = 0 /\ 1 - mFramesAllowed = 1
          BY <3>1 DEF Inv, TypeOK
        <4>2. Resize(1, 0)
          BY <1>2, <3>1, <4>1 DEF StartVideoStream, SetAvailable
        <4>3. mFramesAllowed' = mFramesAllowed + 1 - 0
          BY <4>2 DEF Resize
        <4> QED
          BY <4>1, <4>3
      <3>2. CASE ~(mFramesAllowed < 1)
        BY <1>2, <3>2 DEF StartVideoStream, Inv, TypeOK
      <3> QED
        BY <3>1, <3>2
    <2>2. mFramesAllowed' \in Nat \ {0}
      BY <2>1 DEF Inv, TypeOK
    <2>3. Cardinality(clientHolds') <= mFramesAllowed'
      BY <1>2, WithinNewLimit DEF StartVideoStream
    <2>4. Service!Start
      BY <1>2, <2>2, <2>3, SameCardinality DEF StartVideoStream, Service!Start
    <2> QED
      BY <2>4 DEF Service!Next
  <1>3. CASE StartVideoStreamFails
    <2>1. Service!Rebudget
      BY <1>3, WithinNewLimit, SameCardinality DEF StartVideoStreamFails, Service!Rebudget, Inv, TypeOK
    <2> QED
      BY <2>1 DEF Service!Next
  <1>4. CASE StopVideoStream \/ ForceShutdown
    BY <1>4 DEF StopVideoStream, ForceShutdown, BeginStop, Service!serviceVars
  <1>5. ASSUME NEW id \in clientHolds, DoneWithFrame(id)
        PROVE  Service!Return
    BY <1>5 DEF DoneWithFrame, Service!Return
  <1>6. CASE JoinCapture
    <2>1. mStreamState = "STOPPING" /\ clientStream = "ended"
      BY <1>6 DEF JoinCapture, ThreadEnded, Inv, StateInv
    <2>2. Service!Stop
      BY <1>6, <2>1 DEF JoinCapture, Service!Stop
    <2> QED
      BY <2>2 DEF Service!Next
  <1>7. CASE DropBuffers
    <2>1. mStreamState \in {"STOPPED", "DEAD"}
      BY <1>7 DEF DropBuffers, Inv, StateInv
    <2>2. Service!Shutdown
      BY <1>7, <2>1 DEF DropBuffers, Service!Shutdown
    <2> QED
      BY <2>2 DEF Service!Next
  <1>8. CASE CapturePick \/ CaptureFailed \/ CaptureBreak
    BY <1>8 DEF CapturePick, CaptureFailed, CaptureBreak, Service!serviceVars
  <1>9. CASE CaptureDelivered
    <2>1. /\ mStreamState \in {"RUNNING", "STOPPING"}
          /\ clientStream = "open"
          /\ idx \notin clientHolds
      BY <1>9 DEF CaptureDelivered, Inv, StateInv, TypeOK, EndIsSignalled, BusyIsOwned
    <2>2. Cardinality(clientHolds') <= mFramesAllowed
      BY <1>9, <2>1, WithinNewLimit DEF CaptureDelivered
    <2>3. \E id \in clientHolds' \ clientHolds : clientHolds' = clientHolds \cup {id}
      BY <1>9, <2>1 DEF CaptureDelivered
    <2>4. Service!Deliver
      BY <1>9, <2>1, <2>2, <2>3, SameCardinality DEF CaptureDelivered, Service!Deliver
    <2> QED
      BY <2>4 DEF Service!Next
  <1>10. CASE CaptureLast
    <2>1. mStreamState \in {"RUNNING", "STOPPING"} /\ clientStream = "open"
      BY <1>10 DEF CaptureLast, Inv, StateInv, TypeOK, EndIsSignalled
    <2>2. Service!End
      BY <1>10, <2>1 DEF CaptureLast, Service!End
    <2> QED
      BY <2>2 DEF Service!Next
  <1> QED
    BY <1>1, <1>2, <1>3, <1>4, <1>5, <1>6, <1>7, <1>8, <1>9, <1>10
    DEF Next, Call, Capture, Service!Next

\* The camera implements EvsCameraService: the client sees a frame only on an
\* open stream, within the limit and once at a time, a stop returns after the null
\* frame, and a camera that was shut down delivers nothing.
THEOREM Implements == Spec => ImplementsService
  <1>1. Init => Service!Init
    BY DEF Init, Service!Init
  <1>2. Inv /\ Inv' /\ [Next]_vars => [Service!Next]_(Service!serviceVars)
    <2>1. CASE UNCHANGED vars
      BY <2>1 DEF vars, Service!serviceVars
    <2> QED
      BY <2>1, ServiceStep
  <1> QED
    BY <1>1, <1>2, InvHolds, PTL DEF Spec, ImplementsService, Service!Spec
=============================================================================
