----------------------- MODULE VendorInterfaceProofs -----------------------
(***************************************************************************)
(* Proofs about VendorInterface, for every number of sending threads, of   *)
(* firmware commands and every kind of packets: the wake line and the      *)
(* timeout of the low power mode, the packets (see H4ProtocolProofs), the  *)
(* routing of the answers, and that initialize and a stop are not lost.    *)
(***************************************************************************)
EXTENDS VendorInterface, H4ProtocolProofs, TLAPS

(* The parts of the inductive invariant. *)

\* Who is inside the critical sections of wakeup_mutex_ holds it, and the watcher
\* is in one function at a time.
MutexInv ==
    /\ \A t \in Thread : place[t] \in {"Send.configure", "Send.assert", "Send.write"} =>
          wakeup_mutex_ = t
    /\ watcher \in {"OnTimeout.deassert", "OnTimeout.configure", "OnTimeout.end"} =>
          wakeup_mutex_ = "watcher"
    /\ place["watcher"] # "idle" => watcher = "callback"

\* HandleIncomingEvent, after the first look at internal_command.
EventPlace ==
    {"HandleIncomingEvent.match", "HandleIncomingEvent.save", "HandleIncomingEvent.clear"}

\* Threads are busy only while the interface is open, the clients' ones only
\* while they may send, and nothing is left over from the session before.
SessionInv ==
    /\ \A t \in Thread : place[t] # "idle" => g_vendor_interface = "open"
    /\ \A s \in Sender : place[s] # "idle" => phase = "ready"
    /\ phase = "ready" => g_vendor_interface = "open"
    /\ place["control"] \in {"Close.stop", "Close.join"} => phase \in {"closing", "aborting"}
    /\ received # <<>> => watcher \in {"packetReady"} \cup EventPlace
    /\ g_vendor_interface # "open" =>
          unanswered = {} /\ uart = <<>> /\ watcher = "none" /\ ~lpm /\ ~firmware.ok

\* lpm_wake_deasserted tells the truth about the wake line, and does not change
\* under a thread that has read it.
WakeInv ==
    /\ g_vendor_interface = "open" /\ ~lpm_wake_deasserted => wake
    /\ \A t \in Thread : place[t] = "Send.write" => ~lpm_wake_deasserted
    /\ \A t \in Thread : place[t] = "Send.configure" => lpm_wake_deasserted
    /\ watcher = "OnTimeout.configure" => lpm_wake_deasserted

\* Before the idle timeout is known there is no timeout.
TimeoutInv ==
    /\ lpm_timeout_ms = 0 =>
          /\ timeout_ms_ = 0 /\ ~hasTimeout
          /\ watcher \notin {"timeout", "OnTimeout", "OnTimeout.deassert", "OnTimeout.configure",
                             "OnTimeout.end"}
          /\ \A t \in Thread : timeout[t] = 0
    /\ lpm => lpm_timeout_ms = 1
    /\ \A t \in Thread :
          /\ place[t] = "OnFirmwareConfigured.enable" => lpm_timeout_ms = 1
          /\ place[t] = "OnFirmwareConfigured.configure" => timeout[t] = 1
          /\ place[t] = "Send.configure" => timeout[t] = lpm_timeout_ms
          /\ sending[t] = "enable" => lpm_timeout_ms = 1

\* Once the vendor library has sent a command the wake is asserted, or can be
\* taken back only by a timeout that is known.
StartedInv ==
    \/ unanswered # {} \/ uart # <<>> \/ received # <<>> \/ lpm
    \/ watcher = "callback" \/ phase = "ready" \/ firmware.ok
    => ~lpm_wake_deasserted \/ lpm_timeout_ms = 1

\* The timeout is armed before the wake is asserted, unless OnFirmwareConfigured
\* is about to arm it.
ArmedInv ==
    /\ lpm
    /\ ~lpm_wake_deasserted \/ \E t \in Thread : place[t] = "Send.assert"
    /\ \A t \in Thread : place[t] # "OnFirmwareConfigured.configure"
    => timeout_ms_ = 1

Inv ==
    /\ TypeOK
    /\ MutexInv
    /\ SessionInv
    /\ WakeInv
    /\ TimeoutInv
    /\ StartedInv
    /\ ArmedInv

USE DEF dataVars, h4Vars, uartVars, receiveVars, watcherVars, timeoutVars, callVars, lpmVars,
        internalVars, sessionVars, controllerVars, historyVars, eventVars, handleRest

-----------------------------------------------------------------------------

\* The threads, and that a client's thread is none of the HAL's.
LEMMA Threads ==
    /\ "control" \in Thread /\ "watcher" \in Thread /\ Sender \subseteq Thread
    /\ "control" \notin Sender /\ "watcher" \notin Sender /\ "none" \notin Thread
  BY VendorAssumption DEF Thread

\* The initial state.
LEMMA InitInv == ASSUME Init PROVE Inv
  <1> USE Threads DEF Init, H4Init, WatcherInit
  <1>1. TypeOK
    <2>1. place \in [Thread -> Place] /\ watcher \in WatcherPlace
      BY DEF Place, WatcherPlace
    <2>2. firmware \in [left : 0..FwCommands, ok : BOOLEAN]
      BY VendorAssumption DEF NoFirmware
    <2>3. sending \in [Thread -> Opcode \cup {"data"}] /\ timeout \in [Thread -> {0, 1}]
      OBVIOUS
    <2> QED
      BY <2>1, <2>2, <2>3 DEF TypeOK
  <1>2. MutexInv
    BY DEF MutexInv
  <1>3. SessionInv
    BY DEF SessionInv, NoFirmware
  <1>4. WakeInv /\ TimeoutInv
    BY DEF WakeInv, TimeoutInv
  <1>5. StartedInv /\ ArmedInv
    BY DEF StartedInv, ArmedInv
  <1> QED
    BY <1>1, <1>2, <1>3, <1>4, <1>5 DEF Inv

\* The first half of transmit_cb: internal_command gets its callback, ...
LEMMA TransmitCbInv ==
    ASSUME Inv, NEW t \in Thread, TransmitCb(t)
    PROVE  Inv'
  <1> USE Threads DEF Inv, TransmitCb, Goto, Place
  <1>1. TypeOK'
    BY DEF TypeOK
  <1>2. MutexInv'
    BY DEF MutexInv
  <1>3. SessionInv'
    BY DEF SessionInv
  <1>4. WakeInv'
    BY DEF WakeInv
  <1>5. TimeoutInv'
    BY DEF TimeoutInv
  <1>6. StartedInv'
    BY DEF StartedInv
  <1>7. ArmedInv'
    BY DEF ArmedInv
  <1> QED
    BY <1>1, <1>2, <1>3, <1>4, <1>5, <1>6, <1>7

\* ... and the second half: its opcode.
LEMMA TransmitOpcodeInv ==
    ASSUME Inv, NEW t \in Thread, TransmitOpcode(t)
    PROVE  Inv'
  <1> USE Threads DEF Inv, TransmitOpcode, Goto, Place
  <1>1. TypeOK'
    BY DEF TypeOK
  <1>2. MutexInv'
    BY DEF MutexInv
  <1>3. SessionInv'
    BY DEF SessionInv
  <1>4. WakeInv'
    BY DEF WakeInv
  <1>5. TimeoutInv'
    BY DEF TimeoutInv
  <1>6. StartedInv'
    BY DEF StartedInv
  <1>7. ArmedInv'
    BY DEF ArmedInv
  <1> QED
    BY <1>1, <1>2, <1>3, <1>4, <1>5, <1>6, <1>7

\* Send takes the mutex and looks at the wake flag.
LEMMA SendInv ==
    ASSUME Inv, NEW t \in Thread, Send(t)
    PROVE  Inv'
  <1> USE Threads DEF Inv, Send, Goto, Place
  <1>1. TypeOK'
    BY DEF TypeOK
  <1>2. MutexInv'
    BY DEF MutexInv
  <1>3. SessionInv'
    BY DEF SessionInv
  <1>4. WakeInv'
    BY DEF WakeInv
  <1>5. TimeoutInv'
    BY DEF TypeOK, TimeoutInv
  <1>6. StartedInv'
    BY DEF StartedInv
  <1>7. ArmedInv'
    BY DEF ArmedInv
  <1> QED
    BY <1>1, <1>2, <1>3, <1>4, <1>5, <1>6, <1>7

\* The timeout is armed with the value read under the mutex.
LEMMA SendConfigureInv ==
    ASSUME Inv, NEW t \in Thread, SendConfigure(t)
    PROVE  Inv'
  <1> USE Threads DEF Inv, SendConfigure, ConfigureTimeout, Goto, Place
  <1>1. TypeOK'
    BY DEF TypeOK
  <1>2. MutexInv'
    BY DEF MutexInv
  <1>3. SessionInv'
    BY DEF SessionInv
  <1>4. WakeInv'
    BY DEF WakeInv
  <1>5. TimeoutInv'
    BY DEF TimeoutInv
  <1>6. StartedInv'
    BY DEF StartedInv
  <1>7. ArmedInv'
    BY DEF TypeOK, TimeoutInv, ArmedInv
  <1> QED
    BY <1>1, <1>2, <1>3, <1>4, <1>5, <1>6, <1>7

\* The wake is asserted, with the timeout already armed.
LEMMA SendAssertInv ==
    ASSUME Inv, NEW t \in Thread, SendAssert(t)
    PROVE  Inv'
  <1> USE Threads DEF Inv, SendAssert, Goto, Place
  <1>1. TypeOK'
    <2>1. lpm_wake_deasserted' \in BOOLEAN /\ wake' \in BOOLEAN
      OBVIOUS
    <2>2. place' \in [Thread -> Place]
      BY DEF TypeOK
    <2> QED
      BY <2>1, <2>2 DEF TypeOK
  <1>2. MutexInv'
    BY DEF MutexInv
  <1>3. SessionInv'
    BY DEF SessionInv
  <1>4. WakeInv'
    BY DEF TypeOK, MutexInv, WakeInv
  <1>5. TimeoutInv'
    BY DEF TimeoutInv
  <1>6. StartedInv'
    BY DEF StartedInv
  <1>7. ArmedInv'
    BY DEF ArmedInv
  <1> QED
    BY <1>1, <1>2, <1>3, <1>4, <1>5, <1>6, <1>7

\* The packet goes out; the mutex is released.
LEMMA SendWriteInv ==
    ASSUME Inv, NEW t \in Thread, SendWrite(t)
    PROVE  Inv'
  <1> USE Threads DEF Inv, SendWrite, Return, LpmEnabled, Goto, Place, WatcherPlace
  <1>1. TypeOK'
    <2>1. /\ place' \in [Thread -> Place] /\ sending' \in [Thread -> Opcode \cup {"data"}]
          /\ timeout' \in [Thread -> {0, 1}] /\ watcher' \in WatcherPlace
      BY DEF TypeOK
    <2>2. unanswered' \subseteq Opcode
      BY DEF TypeOK
    <2>3. lpm' \in BOOLEAN
      BY DEF TypeOK
    <2> QED
      BY <2>1, <2>2, <2>3 DEF TypeOK
  <1>2. MutexInv'
    BY DEF TypeOK, MutexInv
  <1>3. SessionInv'
    BY DEF TypeOK, MutexInv, SessionInv, EventPlace
  <1>4. WakeInv'
    BY DEF TypeOK, WakeInv
  <1>5. TimeoutInv'
    BY DEF TypeOK, TimeoutInv
  <1>6. StartedInv'
    BY DEF TypeOK, WakeInv, StartedInv
  <1>7. ArmedInv'
    BY DEF TypeOK, ArmedInv
  <1> QED
    BY <1>1, <1>2, <1>3, <1>4, <1>5, <1>6, <1>7

\* The client hears of the result.
LEMMA InitializationCompleteInv ==
    ASSUME Inv, NEW t \in Thread, InitializationComplete(t)
    PROVE  Inv'
  <1> USE Threads DEF Inv, InitializationComplete, Goto, Place
  <1>1. TypeOK'
    <2>1. place' \in [Thread -> Place]
      BY DEF TypeOK
    <2>2. initialize_complete_cb_' \in BOOLEAN
      OBVIOUS
    <2>3. phase' \in {phase, "ready", "failed"}
      OBVIOUS
    <2> QED
      BY <2>1, <2>2, <2>3 DEF TypeOK
  <1>2. MutexInv'
    BY DEF MutexInv
  <1>3. SessionInv'
    BY DEF SessionInv
  <1>4. WakeInv'
    BY DEF WakeInv
  <1>5. TimeoutInv'
    BY DEF TimeoutInv
  <1>6. StartedInv'
    BY DEF StartedInv
  <1>7. ArmedInv'
    BY DEF ArmedInv
  <1> QED
    BY <1>1, <1>2, <1>3, <1>4, <1>5, <1>6, <1>7

\* The idle timeout becomes known: a thread that read the old value holds the wake,
\* or the value was known from the session before.
LEMMA GetLpmIdleTimeoutInv ==
    ASSUME Inv, NEW t \in Thread, GetLpmIdleTimeout(t)
    PROVE  Inv'
  <1> USE Threads DEF Inv, GetLpmIdleTimeout, Goto, Place
  <1>1. TypeOK'
    BY DEF TypeOK
  <1>2. MutexInv'
    BY DEF MutexInv
  <1>3. SessionInv'
    BY DEF SessionInv
  <1>4. WakeInv'
    BY DEF WakeInv
  <1>5. TimeoutInv'
    <2>1. ASSUME NEW u \in Thread, place'[u] = "Send.configure"
          PROVE  timeout[u] = 1
      <3>1. u # t /\ place[u] = "Send.configure"
        BY <2>1 DEF TypeOK
      <3>2. watcher = "callback" \/ phase = "ready"
        BY <3>1 DEF MutexInv, SessionInv, Thread
      <3>3. lpm_timeout_ms = 1
        BY <3>1, <3>2 DEF WakeInv, StartedInv
      <3> QED
        BY <3>1, <3>3 DEF TimeoutInv
    <2> QED
      BY <2>1 DEF TypeOK, TimeoutInv
  <1>6. StartedInv'
    BY DEF StartedInv
  <1>7. ArmedInv'
    BY DEF ArmedInv
  <1> QED
    BY <1>1, <1>2, <1>3, <1>4, <1>5, <1>6, <1>7

\* Low power mode is on and the thread is about to arm the timeout, or the vendor
\* library sends a command for it.
LEMMA EnableLpmInv ==
    ASSUME Inv, NEW t \in Thread, EnableLpm(t)
    PROVE  Inv'
  <1> USE Threads DEF Inv, EnableLpm, Goto, Place
  <1>1. CASE LpmEnabled(t) /\ UNCHANGED <<sending, dialogue>>
    <2> USE <1>1 DEF LpmEnabled
    <2>1. TypeOK'
      BY DEF TypeOK
    <2>2. MutexInv'
      BY DEF MutexInv
    <2>3. SessionInv'
      BY DEF SessionInv
    <2>4. WakeInv'
      BY DEF WakeInv
    <2>5. TimeoutInv'
      BY DEF TypeOK, TimeoutInv
    <2>6. StartedInv'
      BY DEF TypeOK, TimeoutInv, StartedInv
    <2>7. ArmedInv'
      BY DEF TypeOK, ArmedInv
    <2> QED
      BY <2>1, <2>2, <2>3, <2>4, <2>5, <2>6, <2>7
  <1>2. CASE /\ sending' = [sending EXCEPT ![t] = "enable"] /\ dialogue' = Begun(dialogue)
             /\ place' = [place EXCEPT ![t] = "transmit_cb"]
             /\ UNCHANGED <<watcher, lpm, timeout>>
    <2> USE <1>2
    <2>1. TypeOK'
      <3>1. place' \in [Thread -> Place] /\ sending' \in [Thread -> Opcode \cup {"data"}]
        BY DEF TypeOK, Opcode, VendorOpcode
      <3>2. dialogue' \in {"none", "one", "overlap"}
        BY DEF TypeOK, Begun
      <3> QED
        BY <3>1, <3>2 DEF TypeOK
    <2>2. MutexInv'
      BY DEF MutexInv
    <2>3. SessionInv'
      BY DEF SessionInv
    <2>4. WakeInv'
      BY DEF WakeInv
    <2>5. TimeoutInv'
      BY DEF TypeOK, TimeoutInv
    <2>6. StartedInv'
      BY DEF TypeOK, StartedInv
    <2>7. ArmedInv'
      BY DEF TypeOK, ArmedInv
    <2> QED
      BY <2>1, <2>2, <2>3, <2>4, <2>5, <2>6, <2>7
  <1> QED
    BY <1>1, <1>2

\* OnFirmwareConfigured arms the timeout.
LEMMA StartWatchdogInv ==
    ASSUME Inv, NEW t \in Thread, StartWatchdog(t)
    PROVE  Inv'
  <1> USE Threads DEF Inv, StartWatchdog, ConfigureTimeout, Return, Place, WatcherPlace
  <1>1. TypeOK'
    BY DEF TypeOK
  <1>2. MutexInv'
    BY DEF TypeOK, MutexInv
  <1>3. SessionInv'
    BY DEF TypeOK, MutexInv, SessionInv, EventPlace
  <1>4. WakeInv'
    BY DEF WakeInv
  <1>5. TimeoutInv'
    BY DEF TypeOK, TimeoutInv
  <1>6. StartedInv'
    BY DEF StartedInv
  <1>7. ArmedInv'
    BY DEF TypeOK, TimeoutInv, ArmedInv
  <1> QED
    BY <1>1, <1>2, <1>3, <1>4, <1>5, <1>6, <1>7

\* The loop of the watcher looks for work.
LEMMA ThreadRoutineInv ==
    ASSUME Inv, ThreadRoutine
    PROVE  Inv'
  <1> USE Threads DEF Inv, ThreadRoutine, WhileRunning, ReadNotification, DataReady,
                      TimeIsUp, SaveCallback, WatcherPlace
  <1>1. TypeOK'
    <2>1. hasTimeout' \in BOOLEAN
      <3>1. hasTimeout' = hasTimeout \/ hasTimeout' = (timeout_ms_ > 0)
        OBVIOUS
      <3>2. CASE hasTimeout' = hasTimeout
        BY <3>2 DEF TypeOK
      <3>3. CASE hasTimeout' = (timeout_ms_ > 0)
        <4>1. (timeout_ms_ > 0) \in BOOLEAN
          OBVIOUS
        <4> QED
          BY <3>3, <4>1
      <3> QED
        BY <3>1, <3>2, <3>3
    <2>2. watcher' \in WatcherPlace /\ notifications' \in Nat
      BY DEF TypeOK
    <2>3. running_' = running_ /\ timeout_ms_' = timeout_ms_ /\ timeout_cb_' = timeout_cb_
      OBVIOUS
    <2> QED
      BY <2>1, <2>2, <2>3 DEF TypeOK
  <1>2. MutexInv'
    BY DEF MutexInv
  <1>3. SessionInv'
    BY DEF SessionInv, EventPlace
  <1>4. WakeInv'
    BY DEF WakeInv
  <1>5. TimeoutInv'
    BY DEF TypeOK, TimeoutInv
  <1>6. StartedInv'
    BY DEF StartedInv
  <1>7. ArmedInv'
    BY DEF ArmedInv
  <1> QED
    BY <1>1, <1>2, <1>3, <1>4, <1>5, <1>6, <1>7

\* OnTimeout takes the mutex.
LEMMA OnTimeoutInv ==
    ASSUME Inv, OnTimeout
    PROVE  Inv'
  <1> USE Threads DEF Inv, OnTimeout, WatcherPlace
  <1>1. TypeOK'
    BY DEF TypeOK
  <1>2. MutexInv'
    BY DEF MutexInv
  <1>3. SessionInv'
    BY DEF SessionInv, EventPlace
  <1>4. WakeInv'
    BY DEF WakeInv
  <1>5. TimeoutInv'
    BY DEF TimeoutInv
  <1>6. StartedInv'
    BY DEF StartedInv
  <1>7. ArmedInv'
    BY DEF ArmedInv
  <1> QED
    BY <1>1, <1>2, <1>3, <1>4, <1>5, <1>6, <1>7

\* OnTimeout takes the wake back; nobody is in Send.
LEMMA OnTimeoutDeassertInv ==
    ASSUME Inv, OnTimeoutDeassert
    PROVE  Inv'
  <1> USE Threads DEF Inv, OnTimeoutDeassert, WatcherPlace
  <1>1. TypeOK'
    <2>1. lpm_wake_deasserted' \in BOOLEAN /\ wake' \in BOOLEAN
      OBVIOUS
    <2> QED
      BY <2>1 DEF TypeOK
  <1>2. MutexInv'
    BY DEF MutexInv
  <1>3. SessionInv'
    BY DEF SessionInv, EventPlace
  <1>4. WakeInv'
    BY DEF TypeOK, MutexInv, WakeInv
  <1>5. TimeoutInv'
    BY DEF TimeoutInv
  <1>6. StartedInv'
    BY DEF TypeOK, TimeoutInv, StartedInv
  <1>7. ArmedInv'
    BY DEF ArmedInv
  <1> QED
    BY <1>1, <1>2, <1>3, <1>4, <1>5, <1>6, <1>7

\* OnTimeout disarms the timeout, the wake having gone.
LEMMA OnTimeoutConfigureInv ==
    ASSUME Inv, OnTimeoutConfigure
    PROVE  Inv'
  <1> USE Threads DEF Inv, OnTimeoutConfigure, ConfigureTimeout, WatcherPlace
  <1>1. TypeOK'
    BY DEF TypeOK
  <1>2. MutexInv'
    BY DEF MutexInv
  <1>3. SessionInv'
    BY DEF SessionInv, EventPlace
  <1>4. WakeInv'
    BY DEF WakeInv
  <1>5. TimeoutInv'
    BY DEF TimeoutInv
  <1>6. StartedInv'
    BY DEF StartedInv
  <1>7. ArmedInv'
    BY DEF TypeOK, MutexInv, WakeInv, ArmedInv
  <1> QED
    BY <1>1, <1>2, <1>3, <1>4, <1>5, <1>6, <1>7

\* OnTimeout releases the mutex.
LEMMA OnTimeoutEndInv ==
    ASSUME Inv, OnTimeoutEnd
    PROVE  Inv'
  <1> USE Threads DEF Inv, OnTimeoutEnd, WatcherPlace
  <1>1. TypeOK'
    <2>1. recent_activity_flag' \in BOOLEAN
      OBVIOUS
    <2> QED
      BY <2>1 DEF TypeOK
  <1>2. MutexInv'
    BY DEF MutexInv
  <1>3. SessionInv'
    BY DEF SessionInv, EventPlace
  <1>4. WakeInv'
    BY DEF WakeInv
  <1>5. TimeoutInv'
    BY DEF TimeoutInv
  <1>6. StartedInv'
    BY DEF StartedInv
  <1>7. ArmedInv'
    BY DEF ArmedInv
  <1> QED
    BY <1>1, <1>2, <1>3, <1>4, <1>5, <1>6, <1>7

\* The packetizer reads: bytes or a packet come from a UART that had some.
LEMMA WatcherReadInv ==
    ASSUME Inv, WatcherRead
    PROVE  Inv'
  <1> USE Threads DEF Inv, WatcherRead, OnDataReady, ReadType, ReadPreamble,
                      ReadPayload, ReadNothing, Read, WatcherPlace
  <1>1. TypeOK'
    BY DEF TypeOK
  <1>2. MutexInv'
    BY DEF MutexInv
  <1>3. SessionInv'
    BY DEF SessionInv
  <1>4. WakeInv'
    BY DEF WakeInv
  <1>5. TimeoutInv'
    BY DEF TimeoutInv
  <1>6. StartedInv'
    BY DEF StartedInv
  <1>7. ArmedInv'
    BY DEF ArmedInv
  <1> QED
    BY <1>1, <1>2, <1>3, <1>4, <1>5, <1>6, <1>7

\* HandleIncomingEvent has looked at internal_command.
LEMMA HandleGotoInv ==
    ASSUME Inv, NEW p \in EventPlace, HandleGoto(p),
           watcher \in {"packetReady"} \cup EventPlace,
           saved_cb' \in {saved_cb, internal_cb}, UNCHANGED <<internal_cb, handleRest>>
    PROVE  Inv'
  <1> USE Threads DEF Inv, HandleGoto, EventPlace, WatcherPlace
  <1>1. TypeOK'
    BY DEF TypeOK
  <1>2. MutexInv'
    BY DEF MutexInv
  <1>3. SessionInv'
    BY DEF SessionInv
  <1>4. WakeInv'
    BY DEF WakeInv
  <1>5. TimeoutInv'
    BY DEF TimeoutInv
  <1>6. StartedInv'
    BY DEF StartedInv
  <1>7. ArmedInv'
    BY DEF ArmedInv
  <1> QED
    BY <1>1, <1>2, <1>3, <1>4, <1>5, <1>6, <1>7

\* A packet is handed on, and the vendor library may go on.
LEMMA HandOnInv ==
    ASSUME Inv, NEW cb, HandOn(cb), watcher \in {"packetReady"} \cup EventPlace,
           internal_cb' \in {internal_cb, "none"}, UNCHANGED handleRest
    PROVE  Inv'
  <1> USE Threads DEF Inv, HandOn, PacketHandled, VendorCallback, Place, EventPlace,
                      WatcherPlace
  <1>1. TypeOK'
    <2>1. place' \in [Thread -> Place] /\ sending' \in [Thread -> Opcode \cup {"data"}]
      BY DEF TypeOK, Opcode, VendorOpcode
    <2>2. firmware' \in [left : 0..FwCommands, ok : BOOLEAN]
      <3>1. CASE firmware' = firmware
        BY <3>1 DEF TypeOK
      <3>2. CASE firmware' = [firmware EXCEPT !.left = @ - 1] /\ firmware.left > 1
        BY <3>2, VendorAssumption DEF TypeOK
      <3>3. CASE \E ok \in BOOLEAN : firmware' = [left |-> 0, ok |-> ok]
        BY <3>3, VendorAssumption
      <3> QED
        BY <3>1, <3>2, <3>3
    <2>3. /\ watcher' \in WatcherPlace
          /\ internal_cb' \in Opcode \cup {"data", "none"}
          /\ saved_cb' \in Opcode \cup {"data", "none"}
      BY DEF TypeOK
    <2>4. dialogue' \in {"none", "one", "overlap"}
      BY DEF TypeOK, Begun
    <2> QED
      BY <2>1, <2>2, <2>3, <2>4 DEF TypeOK
  <1>2. MutexInv'
    BY DEF TypeOK, MutexInv
  <1>3. SessionInv'
    BY DEF TypeOK, SessionInv
  <1>4. WakeInv'
    BY DEF TypeOK, WakeInv
  <1>5. TimeoutInv'
    BY DEF TypeOK, TimeoutInv
  <1>6. StartedInv'
    BY DEF StartedInv
  <1>7. ArmedInv'
    BY DEF TypeOK, MutexInv, ArmedInv
  <1> QED
    BY <1>1, <1>2, <1>3, <1>4, <1>5, <1>6, <1>7

\* What a step of HandleIncomingEvent does.
LEMMA EventStepCases ==
    ASSUME EventStep
    PROVE  /\ watcher \in {"packetReady"} \cup EventPlace /\ UNCHANGED handleRest
           /\ \/ /\ \E p \in EventPlace : HandleGoto(p)
                 /\ saved_cb' \in {saved_cb, internal_cb} /\ UNCHANGED internal_cb
              \/ \E cb : HandOn(cb) /\ internal_cb' \in {internal_cb, "none"}
  BY DEF EventStep, HandleIncomingEvent, InternalCommandEventMatch, SaveInternalCallback,
         CallSavedCallback, EventPlace

\* HandleIncomingEvent.
LEMMA EventStepInv ==
    ASSUME Inv, EventStep
    PROVE  Inv'
  BY EventStepCases, HandleGotoInv, HandOnInv

\* Open fails.
LEMMA OpenFailsInv ==
    ASSUME Inv, OpenFails
    PROVE  Inv'
  <1> USE Threads DEF Inv, OpenFails
  <1>1. TypeOK'
    BY DEF TypeOK
  <1>2. MutexInv'
    BY DEF MutexInv
  <1>3. SessionInv'
    BY DEF SessionInv
  <1>4. WakeInv'
    BY DEF WakeInv
  <1>5. TimeoutInv'
    BY DEF TimeoutInv
  <1>6. StartedInv'
    BY DEF StartedInv
  <1>7. ArmedInv'
    BY DEF ArmedInv
  <1> QED
    BY <1>1, <1>2, <1>3, <1>4, <1>5, <1>6, <1>7

\* Open starts a session in which nothing has been sent.
LEMMA OpenInv ==
    ASSUME Inv, Open
    PROVE  Inv'
  <1> USE Threads DEF Inv, Open, TryStartThread, Place, WatcherPlace
  <1>1. TypeOK'
    BY DEF TypeOK
  <1>2. MutexInv'
    BY DEF TypeOK, MutexInv, SessionInv
  <1>3. SessionInv'
    BY DEF SessionInv, EventPlace
  <1>4. WakeInv'
    BY DEF TypeOK, SessionInv, WakeInv
  <1>5. TimeoutInv'
    BY DEF TimeoutInv
  <1>6. StartedInv'
    BY DEF TypeOK, SessionInv, StartedInv, EventPlace
  <1>7. ArmedInv'
    BY DEF ArmedInv
  <1> QED
    BY <1>1, <1>2, <1>3, <1>4, <1>5, <1>6, <1>7

\* The vendor library begins to configure the firmware.
LEMMA FwCfgInv ==
    ASSUME Inv, FwCfg
    PROVE  Inv'
  <1> USE Threads DEF Inv, FwCfg, Goto, NoFirmware, Place
  <1>1. TypeOK'
    <2>1. place' \in [Thread -> Place] /\ sending' \in [Thread -> Opcode \cup {"data"}]
      BY DEF TypeOK, Opcode, VendorOpcode
    <2>2. \E n \in {0, FwCommands} : firmware' = [left |-> n, ok |-> FALSE]
      OBVIOUS
    <2>3. firmware' \in [left : 0..FwCommands, ok : BOOLEAN]
      BY <2>2, VendorAssumption
    <2>4. dialogue' \in {"none", "one", "overlap"}
      BY DEF TypeOK, Begun
    <2> QED
      BY <2>1, <2>3, <2>4 DEF TypeOK
  <1>2. MutexInv'
    BY DEF TypeOK, MutexInv
  <1>3. SessionInv'
    BY DEF TypeOK, SessionInv
  <1>4. WakeInv'
    BY DEF TypeOK, WakeInv
  <1>5. TimeoutInv'
    BY DEF TypeOK, TimeoutInv
  <1>6. StartedInv'
    BY DEF StartedInv
  <1>7. ArmedInv'
    BY DEF TypeOK, ArmedInv
  <1> QED
    BY <1>1, <1>2, <1>3, <1>4, <1>5, <1>6, <1>7

\* close after a failed Open.
LEMMA CloseFailedInv ==
    ASSUME Inv, CloseFailed
    PROVE  Inv'
  <1> USE Threads DEF Inv, CloseFailed, ClientCloses
  <1>1. TypeOK'
    BY DEF TypeOK
  <1>2. MutexInv'
    BY DEF MutexInv
  <1>3. SessionInv'
    BY DEF SessionInv
  <1>4. WakeInv'
    BY DEF WakeInv
  <1>5. TimeoutInv'
    BY DEF TimeoutInv
  <1>6. StartedInv'
    BY DEF StartedInv
  <1>7. ArmedInv'
    BY DEF ArmedInv
  <1> QED
    BY <1>1, <1>2, <1>3, <1>4, <1>5, <1>6, <1>7

\* close, when no client is sending.
LEMMA CloseInv ==
    ASSUME Inv, Close
    PROVE  Inv'
  <1> USE Threads DEF Inv, Close, ClientCloses, Goto, Place
  <1>1. TypeOK'
    <2>1. place' \in [Thread -> Place] /\ sending' \in [Thread -> Opcode \cup {"data"}]
      BY DEF TypeOK, Opcode, VendorOpcode
    <2>2. lpm' \in BOOLEAN
      OBVIOUS
    <2>3. phase' \in {"closing", "aborting"}
      OBVIOUS
    <2>4. dialogue' \in {"none", "one", "overlap"}
      BY DEF TypeOK, Begun
    <2> QED
      BY <2>1, <2>2, <2>3, <2>4 DEF TypeOK
  <1>2. MutexInv'
    BY DEF TypeOK, MutexInv
  <1>3. SessionInv'
    BY DEF TypeOK, SessionInv
  <1>4. WakeInv'
    BY DEF TypeOK, WakeInv
  <1>5. TimeoutInv'
    BY DEF TypeOK, TimeoutInv
  <1>6. StartedInv'
    BY DEF StartedInv
  <1>7. ArmedInv'
    BY DEF ArmedInv
  <1> QED
    BY <1>1, <1>2, <1>3, <1>4, <1>5, <1>6, <1>7

\* close asks the watcher to stop.
LEMMA CloseStopInv ==
    ASSUME Inv, CloseStop
    PROVE  Inv'
  <1> USE Threads DEF Inv, CloseStop, StopThread, Place
  <1>1. TypeOK'
    <2>1. place' \in [Thread -> Place] /\ notifications' \in Nat
      BY DEF TypeOK
    <2>2. running_' \in BOOLEAN
      OBVIOUS
    <2> QED
      BY <2>1, <2>2 DEF TypeOK
  <1>2. MutexInv'
    BY DEF MutexInv
  <1>3. SessionInv'
    BY DEF SessionInv
  <1>4. WakeInv'
    BY DEF WakeInv
  <1>5. TimeoutInv'
    BY DEF TimeoutInv
  <1>6. StartedInv'
    BY DEF StartedInv
  <1>7. ArmedInv'
    BY DEF ArmedInv
  <1> QED
    BY <1>1, <1>2, <1>3, <1>4, <1>5, <1>6, <1>7

\* close has joined the watcher: every thread is idle.
LEMMA CloseJoinInv ==
    ASSUME Inv, CloseJoin
    PROVE  Inv'
  <1> USE Threads DEF Inv, CloseJoin, ThreadJoined, NoFirmware, Place, WatcherPlace
  <1>1. TypeOK'
    <2>1. place' \in [Thread -> Place] /\ watcher' \in WatcherPlace
      BY DEF TypeOK
    <2>2. firmware' \in [left : 0..FwCommands, ok : BOOLEAN]
      BY VendorAssumption
    <2>3. /\ hasTimeout' \in BOOLEAN /\ initialize_complete_cb_' \in BOOLEAN
          /\ wake' \in BOOLEAN /\ lpm' \in BOOLEAN
      OBVIOUS
    <2> QED
      BY <2>1, <2>2, <2>3 DEF TypeOK
  <1>2. MutexInv'
    BY DEF MutexInv
  <1>3. SessionInv'
    <2>1. /\ received = <<>>
          /\ place["watcher"] = "idle"
          /\ \A s \in Sender : place[s] = "idle"
      BY DEF MutexInv, SessionInv, EventPlace
    <2>2. \A t \in Thread : place'[t] = "idle"
      BY <2>1 DEF TypeOK, Thread
    <2>3. received' = <<>> /\ ~firmware'.ok
      BY <2>1
    <2> QED
      BY <2>2, <2>3 DEF SessionInv
  <1>4. WakeInv'
    BY DEF WakeInv
  <1>5. TimeoutInv'
    BY DEF TimeoutInv
  <1>6. StartedInv'
    BY DEF StartedInv
  <1>7. ArmedInv'
    BY DEF ArmedInv
  <1> QED
    BY <1>1, <1>2, <1>3, <1>4, <1>5, <1>6, <1>7

\* A client sends.
LEMMA ClientSendInv ==
    ASSUME Inv, NEW s \in Sender, NEW what \in {"stack", "data"}, ClientSend(s, what)
    PROVE  Inv'
  <1> USE Threads DEF Inv, ClientSend, Goto, Place
  <1>1. TypeOK'
    <2>1. s \in Thread
      BY DEF Thread
    <2>2. place' \in [Thread -> Place] /\ sending' \in [Thread -> Opcode \cup {"data"}]
      BY <2>1 DEF TypeOK, Opcode
    <2> QED
      BY <2>2 DEF TypeOK
  <1>2. MutexInv'
    BY DEF MutexInv
  <1>3. SessionInv'
    BY DEF SessionInv
  <1>4. WakeInv'
    BY DEF WakeInv
  <1>5. TimeoutInv'
    BY DEF TimeoutInv
  <1>6. StartedInv'
    BY DEF StartedInv
  <1>7. ArmedInv'
    BY DEF ArmedInv
  <1> QED
    BY <1>1, <1>2, <1>3, <1>4, <1>5, <1>6, <1>7

\* The controller answers a command.
LEMMA AnswerInv ==
    ASSUME Inv, NEW opcode \in Opcode, Answer(opcode)
    PROVE  Inv'
  <1> USE Threads DEF Inv, Answer, Arrive
  <1>1. TypeOK'
    BY DEF TypeOK
  <1>2. MutexInv'
    BY DEF MutexInv
  <1>3. SessionInv'
    BY DEF SessionInv
  <1>4. WakeInv'
    BY DEF WakeInv
  <1>5. TimeoutInv'
    BY DEF TimeoutInv
  <1>6. StartedInv'
    BY DEF StartedInv
  <1>7. ArmedInv'
    BY DEF ArmedInv
  <1> QED
    BY <1>1, <1>2, <1>3, <1>4, <1>5, <1>6, <1>7

\* The controller sends of its own accord.
LEMMA UnsolicitedInv ==
    ASSUME Inv, Unsolicited
    PROVE  Inv'
  <1> USE Threads DEF Inv, Unsolicited, Arrive
  <1>1. TypeOK'
    BY DEF TypeOK
  <1>2. MutexInv'
    BY DEF MutexInv
  <1>3. SessionInv'
    BY DEF SessionInv
  <1>4. WakeInv'
    BY DEF WakeInv
  <1>5. TimeoutInv'
    BY DEF TimeoutInv
  <1>6. StartedInv'
    BY DEF StartedInv
  <1>7. ArmedInv'
    BY DEF ArmedInv
  <1> QED
    BY <1>1, <1>2, <1>3, <1>4, <1>5, <1>6, <1>7

\* A step of any thread in Send, transmit_cb or OnFirmwareConfigured.
LEMMA CallStepInv ==
    ASSUME Inv, NEW t \in Thread, CallStep(t)
    PROVE  Inv'
  BY TransmitCbInv, TransmitOpcodeInv, SendInv, SendConfigureInv, SendAssertInv, SendWriteInv,
     InitializationCompleteInv, GetLpmIdleTimeoutInv, EnableLpmInv, StartWatchdogInv
  DEF CallStep

-----------------------------------------------------------------------------
(* The theorems. *)

\* The inductive invariant of the HCI transport.
THEOREM InvHolds == Spec => []Inv
  <1>1. Init => Inv
    BY InitInv
  <1>2. Inv /\ [Next]_vars => Inv'
    <2> SUFFICES ASSUME Inv, [Next]_vars PROVE Inv'
      OBVIOUS
    <2>1. CASE UNCHANGED vars
      BY <2>1 DEF vars, Inv, TypeOK, MutexInv, SessionInv, WakeInv, TimeoutInv, StartedInv, ArmedInv
    <2>2. CASE Watcher
      BY <2>2, Threads, ThreadRoutineInv, OnTimeoutInv, OnTimeoutDeassertInv,
         OnTimeoutConfigureInv, OnTimeoutEndInv, WatcherReadInv, EventStepInv,
         CallStepInv
      DEF Watcher
    <2>3. CASE Control
      BY <2>3, Threads, FwCfgInv, CloseStopInv, CloseJoinInv, CallStepInv DEF Control
    <2>4. ASSUME NEW s \in Sender,
                 CallStep(s) \/ \E what \in {"stack", "data"} : ClientSend(s, what)
          PROVE  Inv'
      BY <2>4, Threads, CallStepInv, ClientSendInv
    <2>5. CASE OpenFails \/ Open \/ CloseFailed \/ Close
      BY <2>5, OpenFailsInv, OpenInv, CloseFailedInv, CloseInv
    <2>6. CASE Unsolicited \/ \E opcode \in Opcode : Answer(opcode)
      BY <2>6, AnswerInv, UnsolicitedInv
    <2> QED
      BY <2>1, <2>2, <2>3, <2>4, <2>5, <2>6 DEF Next
  <1> QED
    BY <1>1, <1>2, PTL DEF Spec

\* Every variable of the HAL, of its threads and of the controller keeps its type.
THEOREM TypeCorrect == Spec => []TypeOK
  BY InvHolds, PTL DEF Inv

\* Whenever a packet is written the wake is asserted, however many threads send
\* and whenever the timeout of the low power mode strikes.
THEOREM WritesAwake == Spec => []AwakeWhenWriting
  <1>1. Inv => AwakeWhenWriting
    BY DEF Inv, SessionInv, WakeInv, AwakeWhenWriting
  <1> QED
    BY <1>1, InvHolds, PTL

\* In low power mode the timeout is armed while the wake is asserted, although
\* OnFirmwareConfigured arms it without wakeup_mutex_ and Send arms it with a
\* value it read before.
THEOREM TimeoutIsArmed == Spec => []AwakeHasTimeout
  <1>1. Inv => AwakeHasTimeout
    BY DEF Inv, ArmedInv, AwakeHasTimeout
  <1> QED
    BY <1>1, InvHolds, PTL

\* Every step that touches the stream or the packetizer is one of H4Protocol, or
\* the end of the session.
LEMMA StreamStep ==
    ASSUME Inv, H4Inv, Next
    PROVE  H4Inv'
  <1>1. ASSUME NEW packet \in Packet, Arrive(packet) PROVE H4Inv'
    BY <1>1, ArriveInv
  <1>2. CASE WatcherRead
    <2>1. received = <<>>
      BY <1>2 DEF WatcherRead, Inv, SessionInv, EventPlace
    <2> QED
      BY <1>2, <2>1, OnDataReadyInv DEF WatcherRead
  <1>3. CASE EventStep
    BY <1>3, EventStepCases, PacketHandledInv, H4InvKept DEF HandleGoto, HandOn
  <1>4. CASE CloseJoin
    <2>1. received = <<>>
      BY <1>4 DEF CloseJoin, ThreadJoined, Inv, SessionInv, EventPlace
    <2> QED
      BY <1>4, <2>1 DEF CloseJoin, H4Inv, H4TypeOK, Ordered, BetweenInv, WithinInv, WholeInv
  <1>5. ASSUME UNCHANGED dataVars PROVE H4Inv'
    BY <1>5, H4InvKept
  <1>6. ASSUME NEW t \in Thread, CallStep(t) PROVE UNCHANGED dataVars
    BY <1>6 DEF CallStep, TransmitCb, TransmitOpcode, Send, SendConfigure, SendAssert, SendWrite,
                InitializationComplete, GetLpmIdleTimeout, EnableLpm, StartWatchdog
  <1>7. ASSUME ThreadRoutine \/ OnTimeout \/ OnTimeoutDeassert \/ OnTimeoutConfigure \/ OnTimeoutEnd
        PROVE  UNCHANGED dataVars
    BY <1>7 DEF ThreadRoutine, OnTimeout, OnTimeoutDeassert, OnTimeoutConfigure, OnTimeoutEnd
  <1>8. ASSUME \/ FwCfg \/ CloseStop \/ OpenFails \/ Open \/ CloseFailed \/ Close
               \/ \E s \in Sender : \E what \in {"stack", "data"} : ClientSend(s, what)
        PROVE  UNCHANGED dataVars
    BY <1>8 DEF FwCfg, CloseStop, OpenFails, Open, CloseFailed, Close, ClientSend
  <1>9. CASE Unsolicited \/ \E opcode \in Opcode : Answer(opcode)
    BY <1>1, <1>9 DEF Unsolicited, Answer
  <1> QED
    BY <1>2, <1>3, <1>4, <1>5, <1>6, <1>7, <1>8, <1>9, Threads DEF Next, Watcher, Control

\* The HAL hands on whole packets in their order, also across sessions: a close
\* leaves nothing of a packet that was half read.
THEOREM WholePackets == Spec => []PacketsWhole
  <1>1. Init => H4Inv
    BY H4InitInv DEF Init
  <1>2. Inv /\ H4Inv /\ [Next]_vars => H4Inv'
    <2>1. ASSUME H4Inv, UNCHANGED vars PROVE H4Inv'
      BY <2>1, H4InvKept DEF vars
    <2> QED
      BY <2>1, StreamStep
  <1> QED
    BY <1>1, <1>2, InvHolds, WholeIsWhole, PTL DEF Spec

-----------------------------------------------------------------------------
(* The answers to the commands of the vendor library.  As long as no       *)
(* command begins before the last one is answered, internal_command is     *)
(* about the one under way, from the call of transmit_cb until its answer  *)
(* is handed on.                                                           *)

SendPlace == {"Send", "Send.configure", "Send.assert", "Send.write"}
TransmitPlace == {"transmit_cb", "transmit_cb.opcode"} \cup SendPlace

\* OnFirmwareConfigured, after the client has been told.
ToldPlace ==
    {"OnFirmwareConfigured.get", "OnFirmwareConfigured.enable", "OnFirmwareConfigured.configure"}

\* The places in the UART of the last bytes of packets with an opcode, and whether
\* the packet that is handed on has it.
LastBytes(o) ==
    {i \in 1..Len(uart) : uart[i].packet.opcode = o /\ uart[i].at = Size(uart[i].packet)}

IsAnswer(o) == received # <<>> /\ received[1].packet.opcode = o

\* The commands of the vendor library that have been written and whose answers
\* have not been handed on, and the threads that are about to write one.
Answering ==
    {o \in VendorOpcode : o \in unanswered \/ LastBytes(o) # {} \/ IsAnswer(o)}

Commanding == {t \in Thread : sending[t] \in VendorOpcode}

\* The commands of the vendor library come from transmit_cb, never from a client,
\* and the thread that closes stays in close.  Before the client is told, the only
\* ones are about the firmware, and they do not overlap.  An answer of the client's
\* does not match.
CommandInv ==
    /\ internal_opcode \in VendorOpcode \cup {"none"}
    /\ \A t \in Thread :
          /\ t \in Commanding => t \notin Sender /\ place[t] \in TransmitPlace
          /\ t \in Sender => place[t] \in {"idle"} \cup SendPlace
          /\ place[t] \in {"transmit_cb", "transmit_cb.opcode"} => t \in Commanding
          /\ place[t] \in ToldPlace \/ sending[t] \in {"enable", "disable"} =>
                phase # "initializing"
    /\ phase \in {"closing", "aborting"} =>
          /\ place["control"] \in TransmitPlace \cup {"Close.stop", "Close.join"}
          /\ sending["control"] # "enable"
    /\ place["control"] = "FW_CFG" => phase = "initializing" /\ place["watcher"] = "idle"
    /\ phase = "initializing" => initialize_complete_cb_ /\ dialogue # "overlap"
    /\ g_vendor_interface # "open" => dialogue = "none"
    /\ watcher \in EventPlace => ReceivedOpcode # "none"
    /\ watcher \in {"HandleIncomingEvent.save", "HandleIncomingEvent.clear"} =>
          ReceivedOpcode \in VendorOpcode

\* A command has at most one answer under way.
OneAnswerInv ==
    dialogue # "overlap" => \A o \in VendorOpcode :
        /\ o \in unanswered => LastBytes(o) = {} /\ ~IsAnswer(o)
        /\ IsAnswer(o) => LastBytes(o) = {}
        /\ \A i, j \in LastBytes(o) : i = j

\* Before the first firmware command and after the last one.
NoCommandDue ==
    \/ place["control"] = "FW_CFG"
    \/ phase = "initializing" /\ \E t \in Thread : place[t] = "OnFirmwareConfigured"

\* While the commands do not overlap, internal_command is about the one that is under
\* way, and HandleIncomingEvent has read the callback of the answer that it handles.
RouteInv ==
    dialogue # "overlap" =>
        /\ \A o \in Answering :
              /\ dialogue = "one" /\ internal_cb = o /\ internal_opcode = o
              /\ phase = "initializing" => o = "firmware"
        /\ \A t \in Commanding :
              /\ dialogue = "one" /\ Answering = {}
              /\ \A u \in Commanding : u = t
              /\ place[t] # "transmit_cb" => internal_cb = sending[t]
              /\ place[t] \in SendPlace => internal_opcode = sending[t]
        /\ \A o \in VendorOpcode : IsAnswer(o) /\ watcher \in EventPlace => saved_cb = o
        /\ NoCommandDue => dialogue = "none"

Routing == CommandInv /\ OneAnswerInv /\ RouteInv

\* Nothing changes what is under way when the controller's side is left alone.
LEMMA AnsweringKept ==
    ASSUME UNCHANGED <<unanswered, uart, received>>
    PROVE  /\ Answering' = Answering /\ ReceivedOpcode' = ReceivedOpcode
           /\ \A o : IsAnswer(o)' <=> IsAnswer(o)
           /\ OneAnswerInv /\ (dialogue = "overlap" => dialogue' = "overlap") => OneAnswerInv'
  BY DEF Answering, LastBytes, IsAnswer, OneAnswerInv, ReceivedOpcode

\* A packet that arrives ends with its last byte.
LEMMA ArriveLast ==
    ASSUME H4Inv, NEW k \in Packet, Arrive(k), NEW o
    PROVE  /\ k.opcode # o => LastBytes(o)' = LastBytes(o)
           /\ k.opcode = o => LastBytes(o)' = LastBytes(o) \cup {Len(uart')}
  <1> DEFINE new == Bytes(k, sentBit)
             m == Len(uart)
             n == 1 + Size(k)
  <1>1. uart \in Seq(Byte) /\ sentBit \in {0, 1} /\ uart' = uart \o new
    BY DEF H4Inv, H4TypeOK, Arrive
  <1>2. /\ new \in Seq(Byte) /\ Len(new) = n /\ m \in Nat /\ n \in Nat /\ n > 0
        /\ \A i \in 1..n : new[i] = [packet |-> k, bit |-> sentBit, at |-> i - 1]
    BY <1>1, PacketBytes, SizeType
  <1> HIDE DEF new, n
  <1>3. /\ Len(uart') = m + n
        /\ \A i \in 1..(m + n) : uart'[i] = IF i <= m THEN uart[i] ELSE new[i - m]
    BY <1>1, <1>2, ConcatProperties
  <1>4. \A i \in 1..m : uart'[i] = uart[i]
    BY <1>2, <1>3
  <1>5. ASSUME NEW i \in (m + 1)..(m + n)
        PROVE  /\ uart'[i].packet = k
               /\ uart'[i].at = Size(uart'[i].packet) <=> i = m + n
    <2>1. i - m \in 1..n /\ uart'[i] = new[i - m]
      BY <1>2, <1>3
    <2>2. uart'[i] = [packet |-> k, bit |-> sentBit, at |-> i - m - 1]
      BY <2>1, <1>2
    <2>3. Size(k) \in Nat /\ n = 1 + Size(k)
      BY SizeType DEF n
    <2>4. uart'[i].packet = k /\ uart'[i].at = i - m - 1
      BY <2>2
    <2>5. \A size \in Nat : n = 1 + size => (i - m - 1 = size <=> i = m + n)
      BY <1>2
    <2> QED
      BY <2>3, <2>4, <2>5
  <1> DEFINE isLast(i) == uart'[i].packet.opcode = o /\ uart'[i].at = Size(uart'[i].packet)
  <1>6. LastBytes(o)' = {i \in 1..(m + n) : isLast(i)}
    BY <1>3 DEF LastBytes, Size
  <1>7. LastBytes(o) = {i \in 1..m : isLast(i)}
    BY <1>4 DEF LastBytes
  <1>8. \A i \in (m + 1)..(m + n) : isLast(i) <=> (k.opcode = o /\ i = m + n)
    BY <1>5
  <1> HIDE DEF isLast
  <1>9. 1..(m + n) = (1..m) \cup ((m + 1)..(m + n)) /\ m + n \in (m + 1)..(m + n)
    BY <1>2
  <1> QED
    BY <1>3, <1>6, <1>7, <1>8, <1>9

\* A read takes bytes off the UART, and a packet is handed on with its last byte.
LEMMA ReadLast ==
    ASSUME H4Inv, received = <<>>, OnDataReady
    PROVE  \E n \in 0..Len(uart) :
               /\ \A o : LastBytes(o)' = {i \in 1..(Len(uart) - n) : n + i \in LastBytes(o)}
               /\ received' # <<>> => \A o : IsAnswer(o)' => n \in LastBytes(o)
  <1> DEFINE m == Len(uart)
  <1>1. uart \in Seq(Byte) /\ m \in Nat
    BY DEF H4Inv, H4TypeOK
  <1>2. \/ UNCHANGED <<uart, received>>
        \/ \E n \in 1..Requested :
              /\ n <= m /\ uart' = SubSeq(uart, n + 1, m)
              /\ received' # <<>> => received' = packet_ \o SubSeq(uart, 1, n)
    BY DEF OnDataReady, ReadType, ReadPreamble, ReadPayload, ReadNothing, Read, Requested,
           receiveVars, uartVars
  <1>3. CASE UNCHANGED <<uart, received>>
    <2>1. \A o : LastBytes(o)' = LastBytes(o)
      BY <1>3 DEF LastBytes
    <2>2. \A o : LastBytes(o) = {i \in 1..(m - 0) : 0 + i \in LastBytes(o)}
      BY <1>1 DEF LastBytes
    <2> QED
      BY <1>1, <1>3, <2>1, <2>2
  <1>4. ASSUME NEW n \in 1..Requested, n <= m, uart' = SubSeq(uart, n + 1, m),
               received' # <<>> => received' = packet_ \o SubSeq(uart, 1, n)
        PROVE  /\ n \in 0..m
               /\ \A o : LastBytes(o)' = {i \in 1..(m - n) : n + i \in LastBytes(o)}
               /\ received' # <<>> => \A o : IsAnswer(o)' => n \in LastBytes(o)
    <2>1. n \in 1..m
      BY <1>1, <1>4
    <2>2. Len(uart') = m - n /\ \A i \in 1..(m - n) : uart'[i] = uart[n + i] /\ n + i \in 1..m
      BY <1>1, <1>4, <2>1
    <2>3. \A o : LastBytes(o)' = {i \in 1..(m - n) : n + i \in LastBytes(o)}
      BY <2>2 DEF LastBytes, Size
    <2>4. ASSUME received' # <<>>, NEW o, IsAnswer(o)'
          PROVE  n \in LastBytes(o)
      <3> DEFINE read == SubSeq(uart, 1, n)
      <3>1. H4Inv'
        BY OnDataReadyInv
      <3>2. PICK k \in Packet :
                received' = [i \in 1..Size(k) |-> [packet |-> k, bit |-> nextBit', at |-> i]]
        BY <2>4, <3>1 DEF H4Inv, WholeInv, Size
      <3>3. Size(k) \in Nat \ {0}
        BY SizeType
      <3>4. /\ received'[1].packet = k
            /\ received'[Size(k)] = [packet |-> k, bit |-> nextBit', at |-> Size(k)]
            /\ Len(received') = Size(k)
        BY <3>2, <3>3
      <3>5. packet_ \in Seq(Byte) /\ read \in Seq(Byte) /\ Len(read) = n /\ read[n] = uart[n]
        BY <1>1, <2>1 DEF H4Inv, H4TypeOK
      <3> HIDE DEF read
      <3>6. received' = packet_ \o read
        BY <1>4, <2>4 DEF read
      <3>7. Len(received') = Len(packet_) + n /\ received'[Len(packet_) + n] = read[n]
        <4>1. /\ Len(packet_ \o read) = Len(packet_) + Len(read)
              /\ \A i \in 1..(Len(packet_) + Len(read)) : (packet_ \o read)[i] =
                    IF i <= Len(packet_) THEN packet_[i] ELSE read[i - Len(packet_)]
          BY <3>5, ConcatProperties
        <4>2. /\ Len(packet_) \in Nat /\ Len(packet_) + n \in 1..(Len(packet_) + n)
              /\ ~(Len(packet_) + n <= Len(packet_)) /\ Len(packet_) + n - Len(packet_) = n
          BY <2>1, <3>5
        <4> QED
          BY <3>5, <3>6, <4>1, <4>2
      <3>8. uart[n] = [packet |-> k, bit |-> nextBit', at |-> Size(k)]
        BY <3>4, <3>5, <3>7
      <3>9. k.opcode = o
        BY <2>4, <3>4 DEF IsAnswer
      <3> QED
        BY <2>1, <3>8, <3>9 DEF LastBytes
    <2> QED
      BY <2>1, <2>3, <2>4
  <1> QED
    BY <1>2, <1>3, <1>4

\* A step that only moves a thread on, within Send or outside transmit_cb and Send.
LEMMA MoveRouting ==
    ASSUME Inv, Routing, NEW t \in Thread, NEW p,
           place' = [place EXCEPT ![t] = p],
           \/ place[t] \in SendPlace /\ p \in SendPlace
           \/ /\ place[t] \notin TransmitPlace \cup {"idle"}
              /\ p \notin TransmitPlace \cup {"FW_CFG", "OnFirmwareConfigured"}
              /\ p \in ToldPlace => phase # "initializing"
              /\ t = "control" /\ phase \in {"closing", "aborting"} =>
                    p \in {"Close.stop", "Close.join"},
           UNCHANGED <<unanswered, uart, received, watcher, saved_cb, dialogue, sending,
                       internalVars, phase, initialize_complete_cb_, g_vendor_interface>>
    PROVE  Routing'
  <1>1. /\ Answering' = Answering /\ OneAnswerInv' /\ ReceivedOpcode' = ReceivedOpcode
        /\ \A o : IsAnswer(o)' <=> IsAnswer(o)
    BY AnsweringKept DEF Routing
  <1>2. Commanding' = Commanding
    BY DEF Commanding
  <1>3. \A u \in Thread : place'[u] = IF u = t THEN p ELSE place[u]
    BY DEF Inv, TypeOK
  <1>4. CommandInv'
    BY <1>1, <1>2, <1>3, Threads DEF Routing, CommandInv, TransmitPlace, SendPlace, ToldPlace
  <1>5. NoCommandDue' => NoCommandDue
    BY <1>3, Threads DEF NoCommandDue, TransmitPlace, SendPlace
  <1>6. RouteInv'
    BY <1>1, <1>2, <1>3, <1>5 DEF Routing, RouteInv, CommandInv, TransmitPlace, SendPlace
  <1> QED
    BY <1>1, <1>4, <1>6 DEF Routing

\* A step that changes nothing of this.
LEMMA CalmRouting ==
    ASSUME Routing, watcher' \in EventPlace => watcher' = watcher,
           UNCHANGED <<unanswered, uart, received, saved_cb, dialogue, place, sending,
                       internalVars, phase, initialize_complete_cb_, g_vendor_interface>>
    PROVE  Routing'
  <1>1. /\ Answering' = Answering /\ OneAnswerInv' /\ ReceivedOpcode' = ReceivedOpcode
        /\ \A o : IsAnswer(o)' <=> IsAnswer(o)
    BY AnsweringKept DEF Routing
  <1>2. Commanding' = Commanding /\ NoCommandDue' = NoCommandDue
    BY DEF Commanding, NoCommandDue
  <1>3. CommandInv'
    BY <1>1, <1>2 DEF Routing, CommandInv, EventPlace
  <1>4. RouteInv'
    BY <1>1, <1>2 DEF Routing, RouteInv
  <1> QED
    BY <1>1, <1>3, <1>4 DEF Routing

\* internal_command gets its callback: unless commands overlap, no answer is under
\* way that it could take.
LEMMA TransmitCbRouting ==
    ASSUME Inv, Routing, NEW t \in Thread, TransmitCb(t)
    PROVE  Routing'
  <1> USE DEF TransmitCb, Goto
  <1>1. /\ Answering' = Answering /\ OneAnswerInv' /\ ReceivedOpcode' = ReceivedOpcode
        /\ \A o : IsAnswer(o)' <=> IsAnswer(o)
    BY AnsweringKept DEF Routing
  <1>2. Commanding' = Commanding /\ t \in Commanding
    BY DEF Commanding, Routing, CommandInv
  <1>3. \A u \in Thread : place'[u] = IF u = t THEN "transmit_cb.opcode" ELSE place[u]
    BY DEF Inv, TypeOK
  <1>4. CommandInv'
    BY <1>1, <1>2, <1>3, Threads DEF Routing, CommandInv, TransmitPlace, SendPlace, ToldPlace
  <1>5. NoCommandDue' => NoCommandDue
    BY <1>3, Threads DEF NoCommandDue
  <1>6. RouteInv'
    BY <1>1, <1>2, <1>3, <1>5 DEF Routing, RouteInv, SendPlace
  <1> QED
    BY <1>1, <1>4, <1>6 DEF Routing

\* ... and its opcode.
LEMMA TransmitOpcodeRouting ==
    ASSUME Inv, Routing, NEW t \in Thread, TransmitOpcode(t)
    PROVE  Routing'
  <1> USE DEF TransmitOpcode, Goto
  <1>1. /\ Answering' = Answering /\ OneAnswerInv' /\ ReceivedOpcode' = ReceivedOpcode
        /\ \A o : IsAnswer(o)' <=> IsAnswer(o)
    BY AnsweringKept DEF Routing
  <1>2. Commanding' = Commanding /\ t \in Commanding /\ sending[t] \in VendorOpcode
    BY DEF Commanding, Routing, CommandInv
  <1>3. \A u \in Thread : place'[u] = IF u = t THEN "Send" ELSE place[u]
    BY DEF Inv, TypeOK
  <1>4. CommandInv'
    BY <1>1, <1>2, <1>3, Threads DEF Routing, CommandInv, TransmitPlace, SendPlace, ToldPlace
  <1>5. NoCommandDue' => NoCommandDue
    BY <1>3, Threads DEF NoCommandDue
  <1>6. RouteInv'
    BY <1>1, <1>2, <1>3, <1>5 DEF Routing, RouteInv, SendPlace
  <1> QED
    BY <1>1, <1>4, <1>6 DEF Routing

\* A command is written: from now on its answer can come.
LEMMA SendWriteRouting ==
    ASSUME Inv, Routing, NEW t \in Thread, SendWrite(t)
    PROVE  Routing'
  <1> USE DEF SendWrite, Return, LpmEnabled, Goto
  <1>1. /\ \A u \in Thread : sending'[u] = IF u = t THEN "data" ELSE sending[u]
        /\ \A u \in Thread \ {t} : place'[u] = place[u]
        /\ place'[t] = IF sending[t] = "enable" THEN "OnFirmwareConfigured.configure"
                       ELSE IF t = "control" /\ phase \in {"closing", "aborting"}
                       THEN "Close.stop" ELSE "idle"
        /\ UNCHANGED <<internal_cb, internal_opcode, uart, received, saved_cb, dialogue,
                       phase, initialize_complete_cb_, g_vendor_interface>>
        /\ ReceivedOpcode' = ReceivedOpcode
        /\ watcher' \in EventPlace => watcher' = watcher
    BY DEF Inv, TypeOK, EventPlace, ReceivedOpcode
  <1>2. Commanding' = Commanding \ {t}
    BY <1>1 DEF Commanding, VendorOpcode
  <1>3. CommandInv'
    <2>1. sending[t] = "enable" =>
            t \in Commanding /\ phase # "initializing"
            /\ ~(t = "control" /\ phase \in {"closing", "aborting"})
      BY DEF Commanding, VendorOpcode, Routing, CommandInv
    <2> QED
      BY <1>1, <1>2, <2>1, Threads
      DEF Routing, CommandInv, TransmitPlace, SendPlace, ToldPlace, EventPlace
  <1>4. NoCommandDue' => NoCommandDue
    BY <1>1, Threads DEF NoCommandDue
  <1>5. CASE t \notin Commanding
    <2>1. \A o \in VendorOpcode : o \in unanswered' <=> o \in unanswered
      BY <1>5 DEF Commanding
    <2>2. /\ Answering' = Answering /\ (OneAnswerInv => OneAnswerInv')
          /\ \A o : IsAnswer(o)' <=> IsAnswer(o)
      BY <1>1, <2>1 DEF Answering, LastBytes, IsAnswer, OneAnswerInv
    <2>3. Commanding' = Commanding
          /\ \A u \in Commanding : place'[u] = place[u] /\ sending'[u] = sending[u]
      BY <1>1, <1>2, <1>5 DEF Commanding
    <2>4. RouteInv'
      BY <1>1, <1>4, <2>2, <2>3 DEF Routing, RouteInv
    <2> QED
      BY <1>3, <2>2, <2>4 DEF Routing
  <1>6. CASE t \in Commanding
    <2>1. unanswered' = unanswered \cup {sending[t]} /\ sending[t] \in VendorOpcode
      BY <1>6 DEF Commanding, VendorOpcode
    <2>2. CASE dialogue = "overlap"
      BY <1>1, <1>3, <2>2 DEF Routing, RouteInv, OneAnswerInv
    <2>3. CASE dialogue # "overlap"
      <3>1. Answering = {} /\ Commanding' = {} /\ dialogue = "one"
        BY <1>2, <1>6, <2>3 DEF Routing, RouteInv
      <3>2. \A o \in VendorOpcode : o \notin unanswered /\ LastBytes(o) = {} /\ ~IsAnswer(o)
        BY <3>1 DEF Answering
      <3>3. \A o \in VendorOpcode : LastBytes(o)' = {} /\ ~IsAnswer(o)'
        BY <1>1, <3>2 DEF LastBytes, IsAnswer
      <3>4. OneAnswerInv'
        BY <3>3 DEF OneAnswerInv
      <3>5. Answering' = {sending[t]}
        BY <2>1, <3>2, <3>3 DEF Answering
      <3>6. ~NoCommandDue'
        BY <1>4, <2>3, <3>1 DEF Routing, RouteInv
      <3>7. place[t] \in SendPlace /\ place[t] # "transmit_cb"
        BY DEF SendPlace
      <3>8. internal_cb = sending[t] /\ internal_opcode = sending[t]
        BY <1>6, <2>3, <3>7 DEF Routing, RouteInv
      <3>9. phase = "initializing" => sending[t] = "firmware"
        BY <2>1 DEF VendorOpcode, Routing, CommandInv
      <3>10. RouteInv'
        BY <1>1, <3>1, <3>3, <3>5, <3>6, <3>8, <3>9 DEF RouteInv
      <3> QED
        BY <1>3, <3>4, <3>10 DEF Routing
    <2> QED
      BY <2>2, <2>3
  <1> QED
    BY <1>5, <1>6

\* The client is told: no firmware command is left.
LEMMA InitializationCompleteRouting ==
    ASSUME Inv, Routing, NEW t \in Thread, InitializationComplete(t)
    PROVE  Routing'
  <1> USE DEF InitializationComplete, Goto
  <1>1. /\ Answering' = Answering /\ OneAnswerInv' /\ ReceivedOpcode' = ReceivedOpcode
        /\ \A o : IsAnswer(o)' <=> IsAnswer(o)
        /\ Commanding' = Commanding
    BY AnsweringKept DEF Routing, Commanding
  <1>2. /\ \A u \in Thread : place'[u] = IF u = t THEN "OnFirmwareConfigured.get" ELSE place[u]
        /\ phase = "initializing" => phase' \in {"ready", "failed"}
        /\ phase # "initializing" => phase' = phase
    BY DEF Inv, TypeOK, Routing, CommandInv
  <1>3. place'["control"] # "FW_CFG"
    <2> SUFFICES ASSUME place'["control"] = "FW_CFG" PROVE FALSE
      OBVIOUS
    <2>1. place["control"] = "FW_CFG" /\ t # "control"
      BY <1>2, Threads
    <2>2. t = "watcher" \/ t \in Sender
      BY <2>1 DEF Thread
    <2> QED
      BY <2>1, <2>2 DEF Routing, CommandInv, Inv, SessionInv
  <1>4. CommandInv'
    BY <1>1, <1>2, <1>3, Threads DEF Routing, CommandInv, TransmitPlace, SendPlace, ToldPlace
  <1>5. RouteInv'
    <2>1. CASE phase = "initializing"
      <3>1. dialogue # "overlap" => dialogue = "none" /\ Answering = {} /\ Commanding = {}
        BY <2>1 DEF Routing, RouteInv, NoCommandDue
      <3> QED
        BY <1>1, <3>1 DEF Routing, RouteInv
    <2>2. CASE phase # "initializing"
      <3>1. phase' = phase
        BY <1>2, <2>2
      <3>2. NoCommandDue' => NoCommandDue
        BY <1>2, <3>1, Threads DEF NoCommandDue
      <3> QED
        BY <1>1, <1>2, <3>1, <3>2 DEF Routing, RouteInv, SendPlace
    <2> QED
      BY <2>1, <2>2
  <1> QED
    BY <1>1, <1>4, <1>5 DEF Routing

\* A command begins: unless it overlaps, nothing is under way.
LEMMA CommandBegins ==
    ASSUME Routing, dialogue' = Begun(dialogue), dialogue' # "overlap"
    PROVE  dialogue = "none" /\ dialogue' = "one" /\ Answering = {} /\ Commanding = {}
  BY DEF Begun, Routing, RouteInv

\* Low power mode is enabled, or the vendor library sends a command for it.
LEMMA EnableLpmRouting ==
    ASSUME Inv, Routing, NEW t \in Thread, EnableLpm(t)
    PROVE  Routing'
  <1> USE DEF EnableLpm, Goto
  <1>1. /\ phase # "initializing" /\ ~(t = "control" /\ phase \in {"closing", "aborting"})
        /\ t \notin Sender
    BY DEF Routing, CommandInv, TransmitPlace, SendPlace, ToldPlace
  <1>2. CASE LpmEnabled(t) /\ UNCHANGED <<sending, dialogue>>
    BY <1>1, <1>2, MoveRouting DEF LpmEnabled, TransmitPlace, SendPlace
  <1>3. CASE /\ sending' = [sending EXCEPT ![t] = "enable"] /\ dialogue' = Begun(dialogue)
             /\ place' = [place EXCEPT ![t] = "transmit_cb"] /\ UNCHANGED watcher
    <2>1. /\ Answering' = Answering /\ ReceivedOpcode' = ReceivedOpcode
          /\ \A o : IsAnswer(o)' <=> IsAnswer(o)
          /\ OneAnswerInv'
      BY <1>3, AnsweringKept DEF Routing, Begun
    <2>2. /\ \A u \in Thread : sending'[u] = IF u = t THEN "enable" ELSE sending[u]
          /\ \A u \in Thread : place'[u] = IF u = t THEN "transmit_cb" ELSE place[u]
      BY <1>3 DEF Inv, TypeOK
    <2>3. Commanding' = Commanding \cup {t}
      BY <2>2 DEF Commanding, VendorOpcode
    <2>4. g_vendor_interface = "open"
      BY DEF Inv, SessionInv
    <2>5. CommandInv'
      BY <1>1, <1>3, <2>1, <2>2, <2>3, <2>4, Threads
      DEF Routing, CommandInv, TransmitPlace, SendPlace, ToldPlace
    <2>6. ~NoCommandDue'
      BY <1>1, <2>5 DEF NoCommandDue, CommandInv
    <2>7. RouteInv'
      <3> SUFFICES ASSUME dialogue' # "overlap" PROVE RouteInv'
        BY DEF RouteInv
      <3>1. dialogue' = "one" /\ Answering = {} /\ Commanding = {}
        BY <1>3, CommandBegins
      <3>2. \A o \in VendorOpcode : ~IsAnswer(o)'
        BY <2>1, <3>1 DEF Answering
      <3> QED
        BY <2>1, <2>2, <2>3, <2>6, <3>1, <3>2 DEF RouteInv, SendPlace
    <2> QED
      BY <2>1, <2>5, <2>7 DEF Routing
  <1> QED
    BY <1>2, <1>3

\* OnFirmwareConfigured returns.
LEMMA StartWatchdogRouting ==
    ASSUME Inv, Routing, NEW t \in Thread, StartWatchdog(t)
    PROVE  Routing'
  <1> USE DEF StartWatchdog, Return, ConfigureTimeout
  <1>1. /\ Answering' = Answering /\ OneAnswerInv' /\ ReceivedOpcode' = ReceivedOpcode
        /\ \A o : IsAnswer(o)' <=> IsAnswer(o)
    BY AnsweringKept DEF Routing
  <1>2. /\ \A u \in Thread : sending'[u] = IF u = t THEN "data" ELSE sending[u]
        /\ \A u \in Thread \ {t} : place'[u] = place[u]
        /\ place'[t] = IF t = "control" /\ phase \in {"closing", "aborting"}
                       THEN "Close.stop" ELSE "idle"
        /\ watcher' \in EventPlace => watcher' = watcher
    BY DEF Inv, TypeOK, EventPlace
  <1>3. t \notin Commanding
    BY DEF Routing, CommandInv, TransmitPlace, SendPlace
  <1>4. Commanding' = Commanding
    BY <1>2, <1>3 DEF Commanding, VendorOpcode
  <1>5. CommandInv'
    BY <1>1, <1>2, <1>4, Threads
    DEF Routing, CommandInv, TransmitPlace, SendPlace, ToldPlace, EventPlace
  <1>6. NoCommandDue' => NoCommandDue
    BY <1>2, Threads DEF NoCommandDue
  <1>7. RouteInv'
    BY <1>1, <1>2, <1>3, <1>4, <1>6 DEF Routing, RouteInv
  <1> QED
    BY <1>1, <1>5, <1>7 DEF Routing

\* The packetizer reads.  Its last read of a packet takes the last byte.
LEMMA WatcherReadRouting ==
    ASSUME Inv, H4Inv, Routing, WatcherRead
    PROVE  Routing'
  <1>1. /\ UNCHANGED <<place, sending, internal_cb, internal_opcode, saved_cb, dialogue,
                       phase, initialize_complete_cb_, g_vendor_interface, unanswered>>
        /\ received = <<>> /\ OnDataReady /\ watcher' \notin EventPlace
    BY DEF WatcherRead, Inv, SessionInv, EventPlace
  <1>2. Commanding' = Commanding /\ NoCommandDue' = NoCommandDue
    BY <1>1 DEF Commanding, NoCommandDue
  <1>3. CommandInv'
    BY <1>1, <1>2 DEF Routing, CommandInv, EventPlace
  <1>4. PICK n \in 0..Len(uart) :
          /\ \A o : LastBytes(o)' = {i \in 1..(Len(uart) - n) : n + i \in LastBytes(o)}
          /\ received' # <<>> => \A o : IsAnswer(o)' => n \in LastBytes(o)
    BY <1>1, ReadLast
  <1>5. \A o : IsAnswer(o)' => n \in LastBytes(o)
    BY <1>4 DEF IsAnswer
  <1>6. Answering' \subseteq Answering
    BY <1>1, <1>4, <1>5 DEF Answering
  <1>7. OneAnswerInv'
    <2> SUFFICES ASSUME dialogue # "overlap", NEW o \in VendorOpcode
                 PROVE  /\ o \in unanswered => LastBytes(o)' = {} /\ ~IsAnswer(o)'
                        /\ IsAnswer(o)' => LastBytes(o)' = {}
                        /\ \A i, j \in LastBytes(o)' : i = j
      BY <1>1 DEF OneAnswerInv
    <2>1. \A i, j \in LastBytes(o) : i = j
      BY DEF Routing, OneAnswerInv
    <2>2. Len(uart) \in Nat /\ n \in Nat
      BY DEF H4Inv, H4TypeOK
    <2>3. o \in unanswered => LastBytes(o) = {}
      BY DEF Routing, OneAnswerInv
    <2>4. \A i \in LastBytes(o)' : i \in Nat \ {0} /\ n + i \in LastBytes(o)
      BY <1>4, <2>2
    <2>5. \A i, j \in LastBytes(o)' : i = j
      BY <2>1, <2>2, <2>4
    <2>6. IsAnswer(o)' => LastBytes(o)' = {}
      <3> SUFFICES ASSUME IsAnswer(o)', NEW i \in LastBytes(o)' PROVE FALSE
        OBVIOUS
      <3>1. n + i = n
        BY <1>5, <2>1, <2>4
      <3> QED
        BY <2>2, <2>4, <3>1
    <2>7. o \in unanswered => LastBytes(o)' = {} /\ ~IsAnswer(o)'
      BY <1>5, <2>3, <2>4
    <2> QED
      BY <2>5, <2>6, <2>7
  <1>8. RouteInv'
    BY <1>1, <1>2, <1>6 DEF Routing, RouteInv
  <1> QED
    BY <1>3, <1>7, <1>8 DEF Routing

\* Where a packet may go: the statement of AnswersRouted for one step.
RoutedWell ==
    /\ routed'.opcode \notin VendorOpcode => routed'.to = "stack"
    /\ routed'.opcode \in VendorOpcode /\ dialogue # "overlap" => routed'.to = routed'.opcode

\* HandleIncomingEvent goes on: what it has read is about the packet.
LEMMA HandleGotoRouting ==
    ASSUME Inv, Routing, NEW p \in EventPlace, HandleGoto(p),
           UNCHANGED <<internal_cb, handleRest>>,
           ReceivedOpcode # "none",
           p # "HandleIncomingEvent.match" => ReceivedOpcode \in VendorOpcode,
           \A o \in VendorOpcode :
              dialogue # "overlap" /\ IsAnswer(o) => saved_cb' = o
    PROVE  Routing' /\ UNCHANGED <<routed, received>>
  <1> USE DEF HandleGoto
  <1>1. /\ Answering' = Answering /\ OneAnswerInv' /\ ReceivedOpcode' = ReceivedOpcode
        /\ \A o : IsAnswer(o)' <=> IsAnswer(o)
    BY AnsweringKept DEF Routing
  <1>2. Commanding' = Commanding /\ NoCommandDue' = NoCommandDue
    BY DEF Commanding, NoCommandDue
  <1>3. CommandInv'
    BY <1>1, <1>2 DEF Routing, CommandInv, EventPlace
  <1>4. RouteInv'
    BY <1>1, <1>2 DEF Routing, RouteInv
  <1> QED
    BY <1>1, <1>3, <1>4 DEF Routing

\* What is under way once a packet has been handed on.
LEMMA HandedOn ==
    ASSUME Inv, Routing, NEW cb, HandOn(cb), UNCHANGED handleRest,
           watcher \in {"packetReady"} \cup EventPlace
    PROVE  /\ routed' = [opcode |-> ReceivedOpcode, to |-> cb]
           /\ received # <<>> /\ place["watcher"] = "idle" /\ "watcher" \notin Commanding
           /\ watcher' \notin EventPlace
           /\ (dialogue' = "overlap" => dialogue = "overlap") => OneAnswerInv'
           /\ Answering' \subseteq Answering
           /\ \A o : ~IsAnswer(o)' /\ (IsAnswer(o) <=> o = ReceivedOpcode)
           /\ dialogue # "overlap" => ReceivedOpcode \notin Answering'
           /\ ReceivedOpcode \in VendorOpcode => ReceivedOpcode \in Answering
           /\ \A o \in Answering : o # ReceivedOpcode => o \in Answering'
  <1>1. /\ received # <<>> /\ received' = <<>> /\ UNCHANGED <<uart, unanswered>>
        /\ routed' = [opcode |-> ReceivedOpcode, to |-> cb]
        /\ watcher' \notin EventPlace
    BY DEF HandOn, PacketHandled, VendorCallback, EventPlace
  <1>2. \A o : /\ LastBytes(o)' = LastBytes(o) /\ ~IsAnswer(o)'
               /\ IsAnswer(o) <=> o = ReceivedOpcode
    BY <1>1 DEF LastBytes, IsAnswer, ReceivedOpcode
  <1>3. (dialogue' = "overlap" => dialogue = "overlap") => OneAnswerInv'
    <2> SUFFICES ASSUME dialogue # "overlap" PROVE OneAnswerInv'
      BY DEF OneAnswerInv, HandOn, VendorCallback, Begun
    <2> QED
      BY <1>1, <1>2 DEF Routing, OneAnswerInv
  <1>4. /\ Answering' \subseteq Answering
        /\ dialogue # "overlap" => ReceivedOpcode \notin Answering'
        /\ ReceivedOpcode \in VendorOpcode => ReceivedOpcode \in Answering
        /\ \A o \in Answering : o # ReceivedOpcode => o \in Answering'
    BY <1>1, <1>2 DEF Answering, Routing, OneAnswerInv
  <1>5. place["watcher"] = "idle" /\ "watcher" \notin Commanding
    BY Threads DEF Inv, MutexInv, EventPlace, Routing, CommandInv, TransmitPlace, SendPlace
  <1> QED
    BY <1>1, <1>2, <1>3, <1>4, <1>5

\* A packet goes to the client: if commands do not overlap it answers none of the
\* vendor library's.
LEMMA ClientGetsRouting ==
    ASSUME Inv, Routing, HandOn("stack"), UNCHANGED <<internal_cb, handleRest>>,
           watcher \in {"packetReady"} \cup EventPlace,
           dialogue # "overlap" => ReceivedOpcode \notin VendorOpcode
    PROVE  Routing' /\ RoutedWell
  <1>1. /\ routed' = [opcode |-> ReceivedOpcode, to |-> "stack"]
        /\ watcher' \notin EventPlace /\ Answering' \subseteq Answering
        /\ \A o : ~IsAnswer(o)'
        /\ (dialogue' = "overlap" => dialogue = "overlap") => OneAnswerInv'
    BY HandedOn
  <1>2. dialogue' = dialogue /\ UNCHANGED <<sending, place>>
    BY DEF HandOn, VendorCallback
  <1>3. Commanding' = Commanding /\ NoCommandDue' = NoCommandDue
    BY <1>2 DEF Commanding, NoCommandDue
  <1>4. CommandInv'
    BY <1>1, <1>2, <1>3 DEF Routing, CommandInv, EventPlace
  <1>5. RouteInv'
    BY <1>1, <1>2, <1>3 DEF Routing, RouteInv
  <1> QED
    BY <1>1, <1>2, <1>4, <1>5 DEF Routing, RoutedWell

\* An answer goes to the callback that was saved, of the command that it answers if
\* commands do not overlap; then it was the only one, and the next command of the
\* firmware can begin.
LEMMA CallSavedCallbackRouting ==
    ASSUME Inv, Routing, CallSavedCallback
    PROVE  Routing' /\ RoutedWell
  <1> DEFINE opcode == ReceivedOpcode
  <1>1. /\ watcher = "HandleIncomingEvent.clear" /\ watcher \in EventPlace
        /\ HandOn(saved_cb) /\ internal_cb' = "none"
        /\ UNCHANGED <<internal_opcode, phase, initialize_complete_cb_, g_vendor_interface>>
    BY DEF CallSavedCallback, EventPlace
  <1>2. /\ routed' = [opcode |-> opcode, to |-> saved_cb]
        /\ received # <<>> /\ place["watcher"] = "idle" /\ "watcher" \notin Commanding
        /\ watcher' \notin EventPlace /\ Answering' \subseteq Answering
        /\ (dialogue' = "overlap" => dialogue = "overlap") => OneAnswerInv'
        /\ \A o : ~IsAnswer(o)' /\ (IsAnswer(o) <=> o = opcode)
        /\ dialogue # "overlap" => opcode \notin Answering'
        /\ opcode \in VendorOpcode => opcode \in Answering
    BY <1>1, HandedOn DEF CallSavedCallback
  <1>3. opcode \in VendorOpcode
    BY <1>1 DEF Routing, CommandInv
  <1> DEFINE answered == IF dialogue = "one" THEN "none" ELSE dialogue
  <1>4. VendorCallback(saved_cb, answered)
    BY <1>1, <1>3 DEF HandOn
  <1>5. dialogue # "overlap" =>
          /\ dialogue = "one" /\ saved_cb = opcode /\ internal_cb = opcode
          /\ phase = "initializing" => opcode = "firmware"
          /\ Answering' = {} /\ Commanding = {} /\ ~NoCommandDue
    BY <1>1, <1>2, <1>3 DEF Routing, RouteInv
  <1> HIDE DEF opcode
  <1>6. \A t \in Thread \ {"watcher"} : place'[t] = place[t] /\ sending'[t] = sending[t]
    BY <1>4 DEF VendorCallback, Inv, TypeOK
  <1>7. \/ UNCHANGED <<place, sending>> /\ dialogue' = answered
        \/ /\ place'["watcher"] = "transmit_cb" /\ sending'["watcher"] = "firmware"
           /\ dialogue' = Begun(answered)
        \/ /\ place'["watcher"] = "OnFirmwareConfigured" /\ dialogue' = answered
           /\ sending'["watcher"] = sending["watcher"]
    BY <1>4, Threads DEF VendorCallback, Inv, TypeOK
  <1> HIDE DEF answered
  <1>8. /\ dialogue = "overlap" => dialogue' = "overlap"
        /\ dialogue # "overlap" =>
              \/ UNCHANGED <<place, sending>> /\ dialogue' = "none"
              \/ place'["watcher"] = "transmit_cb" /\ dialogue' = "one"
              \/ place'["watcher"] = "OnFirmwareConfigured" /\ dialogue' = "none"
    BY <1>5, <1>7 DEF answered, Begun
  <1>9. \A t \in Thread : t # "watcher" => (t \in Commanding' <=> t \in Commanding)
    BY <1>6 DEF Commanding
  <1>10. "watcher" \in Commanding' <=> place'["watcher"] = "transmit_cb"
    BY <1>2, <1>7, Threads DEF Commanding, VendorOpcode
  <1>11. CommandInv'
    <2>1. place["control"] # "FW_CFG"
      BY <1>5 DEF Routing, CommandInv, NoCommandDue
    <2>2. dialogue' = "overlap" => dialogue = "overlap"
      BY <1>8
    <2>3. g_vendor_interface = "open"
      BY <1>1 DEF Inv, SessionInv
    <2>4. \A t \in Thread :
            /\ t \in Commanding' => t \notin Sender /\ place'[t] \in TransmitPlace
            /\ t \in Sender => place'[t] \in {"idle"} \cup SendPlace
            /\ place'[t] \in {"transmit_cb", "transmit_cb.opcode"} => t \in Commanding'
            /\ place'[t] \in ToldPlace \/ sending'[t] \in {"enable", "disable"} =>
                  phase # "initializing"
      <3>1. \A t \in Thread \ {"watcher"} :
              /\ t \in Commanding' => t \notin Sender /\ place'[t] \in TransmitPlace
              /\ t \in Sender => place'[t] \in {"idle"} \cup SendPlace
              /\ place'[t] \in {"transmit_cb", "transmit_cb.opcode"} => t \in Commanding'
              /\ place'[t] \in ToldPlace \/ sending'[t] \in {"enable", "disable"} =>
                    phase # "initializing"
        BY <1>6, <1>9 DEF Routing, CommandInv
      <3>2. /\ "watcher" \in Commanding' => place'["watcher"] \in TransmitPlace
            /\ place'["watcher"] \in {"transmit_cb", "transmit_cb.opcode"} =>
                  "watcher" \in Commanding'
            /\ place'["watcher"] \notin ToldPlace
            /\ sending'["watcher"] \notin {"enable", "disable"}
        BY <1>2, <1>7, <1>10, Threads DEF Commanding, VendorOpcode, TransmitPlace, ToldPlace
      <3> QED
        BY <3>1, <3>2, Threads
    <2>5. place'["control"] = place["control"] /\ sending'["control"] = sending["control"]
      BY <1>6, Threads
    <2> QED
      BY <1>1, <1>2, <2>1, <2>2, <2>3, <2>4, <2>5 DEF Routing, CommandInv, EventPlace
  <1>12. RouteInv'
    <2> SUFFICES ASSUME dialogue' # "overlap" PROVE RouteInv'
      BY DEF RouteInv
    <2>1. dialogue # "overlap"
      BY <1>8
    <2>2. \A t \in Commanding' : t = "watcher" /\ place'[t] = "transmit_cb" /\ dialogue' = "one"
      BY <1>2, <1>5, <1>8, <1>9, <1>10, <2>1 DEF Commanding
    <2>3. NoCommandDue' => dialogue' = "none"
      <3> SUFFICES ASSUME NoCommandDue', place'["watcher"] = "transmit_cb" PROVE FALSE
        BY <1>8, <2>1
      <3> QED
        BY <1>1, <1>5, <1>6, <2>1, Threads DEF NoCommandDue
    <2> QED
      BY <1>2, <1>5, <2>1, <2>2, <2>3 DEF RouteInv, SendPlace
  <1>13. RoutedWell
    BY <1>2, <1>3, <1>5 DEF RoutedWell
  <1> QED
    BY <1>2, <1>8, <1>11, <1>12, <1>13 DEF Routing

\* HandleIncomingEvent, one look at internal_command after the other.
LEMMA EventStepRouting ==
    ASSUME Inv, Routing, EventStep
    PROVE  Routing' /\ (RoutedWell \/ UNCHANGED <<routed, received>>)
  <1> DEFINE opcode == ReceivedOpcode
  <1>1. dialogue # "overlap" =>
          \A o \in VendorOpcode : IsAnswer(o) => /\ internal_cb = o /\ internal_opcode = o
                                                 /\ watcher \in EventPlace => saved_cb = o
    BY DEF Answering, Routing, RouteInv
  <1>2. received # <<>> => \A o : IsAnswer(o) <=> o = opcode
    BY DEF IsAnswer, ReceivedOpcode
  <1> HIDE DEF opcode
  <1>3. CASE HandleIncomingEvent
    <2> USE DEF HandleIncomingEvent
    <2>1. CASE opcode # "none" /\ internal_cb # "none"
      <3>1. HandleGoto("HandleIncomingEvent.match") /\ saved_cb' = internal_cb
        BY <1>3, <2>1 DEF opcode
      <3> QED
        BY <1>1, <1>3, <2>1, <3>1, HandleGotoRouting DEF EventPlace, opcode
    <2>2. CASE ~(opcode # "none" /\ internal_cb # "none")
      <3>1. HandOn("stack") /\ received # <<>>
        BY <1>3, <2>2 DEF HandOn, PacketHandled, opcode
      <3>2. dialogue # "overlap" => opcode \notin VendorOpcode
        BY <1>1, <1>2, <2>2, <3>1 DEF VendorOpcode
      <3> QED
        BY <1>3, <3>1, <3>2, ClientGetsRouting DEF opcode
    <2> QED
      BY <2>1, <2>2
  <1>4. CASE InternalCommandEventMatch
    <2> USE DEF InternalCommandEventMatch
    <2>1. watcher \in EventPlace /\ opcode # "none"
      BY <1>4 DEF EventPlace, Routing, CommandInv, opcode
    <2>2. CASE opcode = internal_opcode
      <3>1. HandleGoto("HandleIncomingEvent.save") /\ saved_cb' = saved_cb
        BY <1>4, <2>2 DEF opcode
      <3>2. opcode \in VendorOpcode
        BY <2>1, <2>2 DEF Routing, CommandInv
      <3> QED
        BY <1>1, <1>4, <2>1, <3>1, <3>2, HandleGotoRouting DEF EventPlace, opcode
    <2>3. CASE opcode # internal_opcode
      <3>1. HandOn("stack") /\ received # <<>>
        BY <1>4, <2>3 DEF HandOn, PacketHandled, opcode
      <3>2. dialogue # "overlap" => opcode \notin VendorOpcode
        BY <1>1, <1>2, <2>3, <3>1
      <3> QED
        BY <1>4, <2>1, <3>1, <3>2, ClientGetsRouting DEF opcode
    <2> QED
      BY <2>2, <2>3
  <1>5. CASE SaveInternalCallback
    <2>1. /\ HandleGoto("HandleIncomingEvent.clear") /\ saved_cb' \in {saved_cb, internal_cb}
          /\ watcher \in EventPlace /\ UNCHANGED <<internal_cb, handleRest>>
      BY <1>5 DEF SaveInternalCallback, EventPlace
    <2>2. opcode # "none" /\ opcode \in VendorOpcode
      BY <1>5 DEF SaveInternalCallback, Routing, CommandInv, VendorOpcode, opcode
    <2> QED
      BY <1>1, <2>1, <2>2, HandleGotoRouting DEF EventPlace, opcode
  <1> QED
    BY <1>3, <1>4, <1>5, CallSavedCallbackRouting DEF EventStep

\* A state in which the vendor library has sent nothing and sends nothing.
LEMMA QuietRouting ==
    ASSUME Answering' = {}, Commanding' = {}, internal_opcode' \in VendorOpcode \cup {"none"},
           \A t \in Thread : place'[t] \in {"idle", "FW_CFG"} /\ sending'[t] \notin VendorOpcode,
           \A s \in Sender : place'[s] = "idle",
           phase' \notin {"closing", "aborting"}, dialogue' = "none",
           watcher' \notin EventPlace,
           phase' = "initializing" => initialize_complete_cb_',
           place'["control"] = "FW_CFG" => phase' = "initializing" /\ place'["watcher"] = "idle"
    PROVE  Routing'
  <1>1. CommandInv'
    BY DEF CommandInv, VendorOpcode, ToldPlace, EventPlace
  <1>2. OneAnswerInv'
    BY DEF OneAnswerInv, Answering
  <1>3. RouteInv'
    BY DEF RouteInv
  <1> QED
    BY <1>1, <1>2, <1>3 DEF Routing

\* Between two sessions the vendor library has sent nothing and sends nothing.
LEMMA ClosedRouting ==
    ASSUME Inv, Routing, g_vendor_interface # "open"
    PROVE  /\ Answering = {} /\ Commanding = {} /\ \A t \in Thread : place[t] = "idle"
           /\ dialogue = "none" /\ watcher = "none"
  <1>1. /\ unanswered = {} /\ uart = <<>> /\ received = <<>> /\ watcher = "none"
        /\ \A t \in Thread : place[t] = "idle"
    BY DEF Inv, SessionInv, EventPlace
  <1>2. Answering = {}
    BY <1>1 DEF Answering, LastBytes, IsAnswer
  <1>3. Commanding = {}
    BY <1>1 DEF Commanding, Routing, CommandInv, TransmitPlace, SendPlace
  <1> QED
    BY <1>1, <1>2, <1>3 DEF Routing, CommandInv

\* Before the first session too.
LEMMA InitRouting == ASSUME Init PROVE Routing
  <1> USE DEF Init, H4Init, WatcherInit
  <1>1. Answering = {} /\ Commanding = {}
    BY DEF Answering, LastBytes, IsAnswer, Commanding, VendorOpcode
  <1>2. CommandInv
    BY <1>1, Threads DEF CommandInv, ToldPlace, EventPlace
  <1>3. OneAnswerInv
    BY <1>1 DEF OneAnswerInv, Answering
  <1>4. RouteInv
    BY <1>1 DEF RouteInv, EventPlace, NoCommandDue
  <1> QED
    BY <1>2, <1>3, <1>4 DEF Routing

\* initialize, whether Open fails or not, and the close after it has failed.
LEMMA OpenRouting ==
    ASSUME Inv, Routing, OpenFails \/ Open \/ CloseFailed
    PROVE  Routing'
  <1>1. /\ g_vendor_interface # "open"
        /\ UNCHANGED <<sending, unanswered, uart, received, dialogue, internalVars>>
    BY DEF OpenFails, Open, CloseFailed
  <1>2. /\ Answering = {} /\ Commanding = {} /\ \A t \in Thread : place[t] = "idle"
        /\ dialogue = "none" /\ watcher = "none"
    BY <1>1, ClosedRouting
  <1>3. /\ Answering' = {} /\ Commanding' = {}
        /\ \A t \in Thread : sending'[t] \notin VendorOpcode
    BY <1>1, <1>2, AnsweringKept DEF Commanding
  <1>4. \/ place' = place /\ phase' \in {"failed", "closed"} /\ watcher' = watcher
        \/ /\ place' = [place EXCEPT !["control"] = "FW_CFG"] /\ phase' = "initializing"
           /\ initialize_complete_cb_' /\ watcher' = "while"
    BY DEF OpenFails, Open, TryStartThread, CloseFailed
  <1>5. \A t \in Thread : place'[t] \in {"idle", "FW_CFG"} /\ (t # "control" => place'[t] = "idle")
    BY <1>2, <1>4 DEF Inv, TypeOK
  <1>6. place'["watcher"] = "idle" /\ (place'["control"] = "FW_CFG" => phase' = "initializing")
    BY <1>2, <1>4, Threads DEF Inv, TypeOK
  <1>7. internal_opcode' \in VendorOpcode \cup {"none"}
    BY <1>1 DEF Routing, CommandInv
  <1>8. watcher' \notin EventPlace /\ dialogue' = "none"
    BY <1>1, <1>2, <1>4 DEF EventPlace
  <1>9. \A s \in Sender : place'[s] = "idle"
    BY <1>5, Threads
  <1>10. phase' \notin {"closing", "aborting"}
         /\ (phase' = "initializing" => initialize_complete_cb_')
    BY <1>4
  <1> QED
    BY <1>3, <1>5, <1>6, <1>7, <1>8, <1>9, <1>10, QuietRouting

\* The vendor library sends its first firmware command, or none.
LEMMA FwCfgRouting ==
    ASSUME Inv, Routing, FwCfg
    PROVE  Routing'
  <1> USE DEF FwCfg, Goto
  <1>1. phase = "initializing" /\ g_vendor_interface = "open" /\ dialogue # "overlap"
    BY Threads DEF Routing, CommandInv, Inv, SessionInv
  <1>2. dialogue = "none" /\ Answering = {} /\ Commanding = {}
    BY <1>1 DEF Routing, RouteInv, NoCommandDue
  <1>3. /\ Answering' = Answering /\ ReceivedOpcode' = ReceivedOpcode
        /\ \A o : IsAnswer(o)' <=> IsAnswer(o)
        /\ OneAnswerInv'
    BY <1>1, AnsweringKept DEF Routing
  <1>4. \A t \in Thread : t # "control" =>
            place'[t] = "idle" /\ place[t] = "idle" /\ sending'[t] = sending[t]
    BY <1>1 DEF Routing, CommandInv, Inv, TypeOK, SessionInv, Thread
  <1>5. \/ /\ place'["control"] = "transmit_cb" /\ sending'["control"] = "firmware"
           /\ Commanding' = {"control"} /\ dialogue' = "one"
        \/ /\ place'["control"] = "OnFirmwareConfigured" /\ Commanding' = {}
           /\ sending' = sending /\ dialogue' = "none"
    BY <1>2, <1>4, Threads DEF Inv, TypeOK, Commanding, VendorOpcode, Begun
  <1>6. CommandInv'
    <2>1. internal_opcode' \in VendorOpcode \cup {"none"}
      BY DEF Routing, CommandInv
    <2>2. \A t \in Thread : sending[t] \notin VendorOpcode
      BY <1>2 DEF Commanding
    <2>3. \A t \in Thread : sending'[t] \notin {"enable", "disable"}
      BY <1>4, <1>5, <2>2 DEF VendorOpcode
    <2>4. UNCHANGED <<phase, initialize_complete_cb_, g_vendor_interface, watcher>>
      OBVIOUS
    <2> QED
      BY <1>1, <1>3, <1>4, <1>5, <2>1, <2>3, <2>4, Threads
      DEF Routing, CommandInv, TransmitPlace, ToldPlace
  <1>7. Commanding' # {} => ~NoCommandDue'
    BY <1>4, <1>5 DEF NoCommandDue
  <1>8. \A o \in VendorOpcode : ~IsAnswer(o)'
    BY <1>2, <1>3 DEF Answering
  <1>9. RouteInv'
    BY <1>2, <1>3, <1>5, <1>7, <1>8 DEF RouteInv, SendPlace
  <1> QED
    BY <1>3, <1>6, <1>9 DEF Routing

\* close: the command that disables low power mode may overlap with another one.
LEMMA CloseRouting ==
    ASSUME Inv, Routing, Close
    PROVE  Routing'
  <1> USE DEF Close, Goto, ClientCloses
  <1>1. /\ Answering' = Answering /\ ReceivedOpcode' = ReceivedOpcode
        /\ \A o : IsAnswer(o)' <=> IsAnswer(o)
        /\ OneAnswerInv'
    BY AnsweringKept DEF Routing, Begun
  <1>2. /\ phase \notin {"closing", "aborting"} /\ phase' \in {"closing", "aborting"}
        /\ "control" \notin Commanding
    BY Threads DEF Routing, CommandInv, TransmitPlace, SendPlace
  <1>3. \A t \in Thread : t # "control" => place'[t] = place[t] /\ sending'[t] = sending[t]
    BY DEF Inv, TypeOK
  <1>4. \/ /\ place'["control"] = "transmit_cb" /\ sending'["control"] = "disable"
           /\ Commanding' = Commanding \cup {"control"} /\ dialogue' = Begun(dialogue)
        \/ /\ place'["control"] = "Close.stop" /\ Commanding' = Commanding
           /\ sending' = sending /\ dialogue' = dialogue
    BY <1>2, <1>3, Threads DEF Inv, TypeOK, Commanding, VendorOpcode
  <1>5. CommandInv'
    <2>1. internal_opcode' \in VendorOpcode \cup {"none"}
      BY DEF Routing, CommandInv
    <2>2. /\ place'["control"] \in TransmitPlace \cup {"Close.stop", "Close.join"}
          /\ sending'["control"] # "enable"
      BY <1>2, <1>4, Threads DEF TransmitPlace, Commanding, VendorOpcode
    <2>3. \A t \in Thread :
             /\ t \in Commanding' => t \notin Sender /\ place'[t] \in TransmitPlace
             /\ t \in Sender => place'[t] \in {"idle"} \cup SendPlace
             /\ place'[t] \in {"transmit_cb", "transmit_cb.opcode"} => t \in Commanding'
      <3>1. \A t \in Thread \ {"control"} :
               /\ t \in Commanding' => t \notin Sender /\ place'[t] \in TransmitPlace
               /\ t \in Sender => place'[t] \in {"idle"} \cup SendPlace
               /\ place'[t] \in {"transmit_cb", "transmit_cb.opcode"} => t \in Commanding'
        BY <1>3, <1>4 DEF Routing, CommandInv
      <3>2. /\ "control" \in Commanding' => place'["control"] = "transmit_cb"
            /\ place'["control"] \in {"transmit_cb", "transmit_cb.opcode"} =>
                  "control" \in Commanding'
        BY <1>2, <1>4
      <3> QED
        BY <3>1, <3>2, Threads DEF TransmitPlace
    <2>4. place'["control"] # "FW_CFG" /\ phase' # "initializing" /\ UNCHANGED watcher
      BY <1>4
    <2>5. g_vendor_interface' = "open"
      OBVIOUS
    <2> QED
      BY <1>1, <2>1, <2>2, <2>3, <2>4, <2>5 DEF Routing, CommandInv
  <1>6. RouteInv'
    <2> SUFFICES ASSUME dialogue' # "overlap" PROVE RouteInv'
      BY DEF RouteInv
    <2>1. phase' # "initializing" /\ ~NoCommandDue'
      BY <1>4 DEF NoCommandDue
    <2>2. CASE Commanding' = Commanding /\ sending' = sending /\ dialogue' = dialogue
      <3>1. \A u \in Commanding : place'[u] = place[u] /\ sending'[u] = sending[u]
        BY <1>2, <1>3 DEF Commanding
      <3> QED
        BY <1>1, <2>1, <2>2, <3>1 DEF Routing, RouteInv
    <2>3. CASE dialogue' = Begun(dialogue) /\ Commanding' = Commanding \cup {"control"}
               /\ place'["control"] = "transmit_cb"
      <3>1. dialogue' = "one" /\ Answering = {} /\ Commanding = {}
        BY <2>3, CommandBegins
      <3>2. \A o \in VendorOpcode : ~IsAnswer(o)'
        BY <1>1, <3>1 DEF Answering
      <3> QED
        BY <1>1, <2>1, <2>3, <3>1, <3>2 DEF RouteInv, SendPlace
    <2> QED
      BY <1>4, <2>2, <2>3
  <1> QED
    BY <1>1, <1>5, <1>6 DEF Routing

\* The end of a session takes the commands that are still unanswered with it.
LEMMA CloseJoinRouting ==
    ASSUME Inv, Routing, CloseJoin
    PROVE  Routing'
  <1> USE DEF CloseJoin, ThreadJoined
  <1>1. received = <<>> /\ place["watcher"] = "idle" /\ phase \in {"closing", "aborting"}
    BY DEF Inv, SessionInv, MutexInv, EventPlace
  <1>2. Answering' = {}
    BY <1>1 DEF Answering, LastBytes, IsAnswer
  <1>3. \A t \in Thread : place'[t] = "idle"
    BY <1>1 DEF Inv, TypeOK, SessionInv, Thread
  <1>4. \A t \in Thread : place[t] \in {"idle", "Close.join"}
    BY <1>1 DEF Inv, TypeOK, SessionInv, Thread
  <1>5. Commanding' = {} /\ \A t \in Thread : sending'[t] \notin VendorOpcode
    BY <1>4 DEF Routing, CommandInv, Commanding, TransmitPlace, SendPlace
  <1>6. internal_opcode' \in VendorOpcode \cup {"none"}
    BY DEF Routing, CommandInv
  <1>7. watcher' \notin EventPlace /\ phase' = "closed" /\ dialogue' = "none"
    BY DEF EventPlace
  <1>8. \A s \in Sender : place'[s] = "idle"
    BY <1>3, Threads
  <1> QED
    BY <1>2, <1>3, <1>5, <1>6, <1>7, <1>8, Threads, QuietRouting

\* A client sends, and never with an opcode of the vendor library.
LEMMA ClientSendRouting ==
    ASSUME Inv, Routing, NEW s \in Sender, NEW what \in {"stack", "data"}, ClientSend(s, what)
    PROVE  Routing'
  <1> USE DEF ClientSend, Goto
  <1>1. /\ Answering' = Answering /\ OneAnswerInv' /\ ReceivedOpcode' = ReceivedOpcode
        /\ \A o : IsAnswer(o)' <=> IsAnswer(o)
    BY AnsweringKept DEF Routing
  <1>2. /\ \A t \in Thread : sending'[t] = IF t = s THEN what ELSE sending[t]
        /\ \A t \in Thread : place'[t] = IF t = s THEN "Send" ELSE place[t]
    BY DEF Inv, TypeOK
  <1>3. s \notin Commanding /\ s \in Thread
    BY Threads DEF Routing, CommandInv
  <1>4. Commanding' = Commanding
    BY <1>2, <1>3 DEF Commanding, VendorOpcode
  <1>5. CommandInv'
    BY <1>1, <1>2, <1>3, <1>4, Threads DEF Routing, CommandInv, SendPlace, ToldPlace
  <1>6. NoCommandDue' => NoCommandDue
    BY <1>2, Threads DEF NoCommandDue
  <1>7. RouteInv'
    BY <1>1, <1>2, <1>3, <1>4, <1>6 DEF Routing, RouteInv
  <1> QED
    BY <1>1, <1>5, <1>7 DEF Routing

\* The controller answers a command, once, or sends something of its own.
LEMMA ArriveRouting ==
    ASSUME Inv, H4Inv, Routing, Unsolicited \/ \E opcode \in Opcode : Answer(opcode)
    PROVE  Routing'
  <1>1. UNCHANGED <<place, sending, internal_cb, internal_opcode, saved_cb, dialogue, watcher,
                    phase, initialize_complete_cb_, g_vendor_interface, received>>
    BY DEF Unsolicited, Answer, Arrive
  <1>2. Commanding' = Commanding /\ NoCommandDue' = NoCommandDue
    BY <1>1 DEF Commanding, NoCommandDue
  <1>3. CommandInv'
    BY <1>1, <1>2 DEF Routing, CommandInv, ReceivedOpcode
  <1>4. PICK k \in Packet :
            /\ Arrive(k)
            /\ \/ k.opcode = "none" /\ unanswered' = unanswered
               \/ k.opcode \in unanswered /\ unanswered' = unanswered \ {k.opcode}
    BY DEF Unsolicited, Answer
  <1>5. \A o \in VendorOpcode :
            /\ k.opcode # o => /\ LastBytes(o)' = LastBytes(o)
                               /\ o \in unanswered' <=> o \in unanswered
            /\ k.opcode = o => /\ LastBytes(o)' = LastBytes(o) \cup {Len(uart')}
                               /\ o \in unanswered /\ o \notin unanswered'
    BY <1>4, ArriveLast DEF VendorOpcode
  <1>6. \A o : IsAnswer(o)' <=> IsAnswer(o)
    BY <1>1 DEF IsAnswer
  <1>7. Answering' = Answering
    BY <1>5, <1>6 DEF Answering
  <1>8. OneAnswerInv'
    BY <1>1, <1>5, <1>6 DEF Routing, OneAnswerInv
  <1>9. RouteInv'
    BY <1>1, <1>2, <1>6, <1>7 DEF Routing, RouteInv
  <1> QED
    BY <1>3, <1>8, <1>9 DEF Routing

\* A step of a thread in Send, transmit_cb or OnFirmwareConfigured.
LEMMA CallStepRouting ==
    ASSUME Inv, Routing, NEW t \in Thread, CallStep(t)
    PROVE  Routing'
  <1>1. CASE Send(t)
    BY <1>1, MoveRouting DEF Send, Goto, SendPlace
  <1>2. CASE SendConfigure(t)
    BY <1>2, MoveRouting DEF SendConfigure, Goto, SendPlace
  <1>3. CASE SendAssert(t)
    BY <1>3, MoveRouting DEF SendAssert, Goto, SendPlace
  <1>4. CASE GetLpmIdleTimeout(t)
    <2>1. ~(t = "control" /\ phase \in {"closing", "aborting"}) /\ phase # "initializing"
      BY <1>4 DEF GetLpmIdleTimeout, Routing, CommandInv, TransmitPlace, SendPlace, ToldPlace
    <2> QED
      BY <1>4, <2>1, MoveRouting DEF GetLpmIdleTimeout, Goto, TransmitPlace, SendPlace
  <1> QED
    BY <1>1, <1>2, <1>3, <1>4, TransmitCbRouting, TransmitOpcodeRouting, SendWriteRouting,
       InitializationCompleteRouting, EnableLpmRouting, StartWatchdogRouting
    DEF CallStep

\* Every step keeps the routing, and only a packet that is handed on changes where
\* the last one went, until the watcher goes on.
LEMMA RoutingStep ==
    ASSUME Inv, H4Inv, Routing, [Next]_vars
    PROVE  Routing' /\ (routed' # routed => RoutedWell)
  <1>1. CASE UNCHANGED vars
    BY <1>1, CalmRouting DEF vars
  <1>2. CASE OnTimeout \/ OnTimeoutDeassert \/ OnTimeoutConfigure \/ OnTimeoutEnd
    <2>1. /\ UNCHANGED <<unanswered, uart, received, place, sending, internalVars, eventVars,
                         phase, initialize_complete_cb_, g_vendor_interface>>
          /\ watcher' \notin EventPlace
      BY <1>2 DEF OnTimeout, OnTimeoutDeassert, OnTimeoutConfigure, OnTimeoutEnd, EventPlace
    <2> QED
      BY <2>1, CalmRouting
  <1>3. CASE ThreadRoutine
    <2>1. /\ UNCHANGED <<unanswered, uart, received, saved_cb, dialogue, place, sending,
                         internalVars, phase, initialize_complete_cb_, g_vendor_interface>>
          /\ watcher' \notin EventPlace
      BY <1>3 DEF ThreadRoutine, WhileRunning, ReadNotification, DataReady, TimeIsUp,
                  SaveCallback, EventPlace
    <2>2. RoutedWell
      BY <1>3 DEF ThreadRoutine, Nowhere, RoutedWell, VendorOpcode
    <2> QED
      BY <2>1, <2>2, CalmRouting
  <1>4. CASE WatcherRead
    BY <1>4, WatcherReadRouting DEF WatcherRead
  <1>5. CASE EventStep
    BY <1>5, EventStepRouting
  <1>6. ASSUME NEW t \in Thread, CallStep(t)
        PROVE  Routing' /\ UNCHANGED routed
    <2>1. UNCHANGED routed
      BY <1>6 DEF CallStep, TransmitCb, TransmitOpcode, Send, SendConfigure, SendAssert, SendWrite,
                  InitializationComplete, GetLpmIdleTimeout, EnableLpm, StartWatchdog
    <2> QED
      BY <1>6, <2>1, CallStepRouting
  <1>7. CASE FwCfg \/ OpenFails \/ Open \/ CloseFailed \/ Close \/ CloseJoin
    <2>1. UNCHANGED routed
      BY <1>7 DEF FwCfg, OpenFails, Open, CloseFailed, Close, CloseJoin
    <2> QED
      BY <1>7, <2>1, FwCfgRouting, OpenRouting, CloseRouting, CloseJoinRouting
  <1>8. CASE CloseStop
    <2>1. "control" \in Thread /\ phase \in {"closing", "aborting"}
      BY <1>8, Threads DEF CloseStop, Inv, SessionInv
    <2> QED
      BY <1>8, <2>1, MoveRouting DEF CloseStop, StopThread, TransmitPlace, SendPlace
  <1>9. ASSUME NEW s \in Sender, NEW what \in {"stack", "data"}, ClientSend(s, what)
        PROVE  Routing' /\ UNCHANGED routed
    BY <1>9, ClientSendRouting DEF ClientSend
  <1>10. CASE Unsolicited \/ \E opcode \in Opcode : Answer(opcode)
    <2>1. UNCHANGED routed
      BY <1>10 DEF Unsolicited, Answer
    <2> QED
      BY <1>10, <2>1, ArriveRouting
  <1> QED
    BY <1>1, <1>2, <1>3, <1>4, <1>5, <1>6, <1>7, <1>8, <1>9, <1>10, Threads
    DEF Next, Watcher, Control

\* The client's answers and data always reach the client, and an answer to the vendor
\* library reaches the callback of its command while the library's commands do not
\* overlap, however many commands the firmware takes and clients send, and although
\* transmit_cb and HandleIncomingEvent use internal_command without a lock.
THEOREM AnswersAreRouted == Spec => AnswersRouted
  <1>1. Init => Inv /\ H4Inv /\ Routing
    BY InitInv, InitRouting, H4InitInv DEF Init
  <1>2. Inv /\ H4Inv /\ [Next]_vars => H4Inv'
    <2>1. ASSUME H4Inv, UNCHANGED vars PROVE H4Inv'
      BY <2>1, H4InvKept DEF vars
    <2> QED
      BY <2>1, StreamStep
  <1>3. Inv /\ H4Inv /\ Routing /\ [Next]_vars =>
          /\ Routing'
          /\ routed' # routed =>
                /\ routed'.opcode \notin VendorOpcode => routed'.to = "stack"
                /\ routed'.opcode \in VendorOpcode /\ dialogue # "overlap" =>
                      routed'.to = routed'.opcode
    BY RoutingStep DEF RoutedWell
  <1> QED
    BY <1>1, <1>2, <1>3, InvHolds, PTL DEF Spec, AnswersRouted

-----------------------------------------------------------------------------
(* The safety half of two things that must happen: the client of           *)
(* initialize is told, and the watcher's thread ends when it is stopped.   *)

\* While the client of initialize waits, its callback is kept and somebody will
\* get to it: a thread that is about to configure the firmware, to tell the client
\* or to send a firmware command, or the answer to one, which is under way.
SomebodyTells ==
    phase = "initializing" =>
        /\ initialize_complete_cb_
        /\ \/ place["control"] = "FW_CFG"
           \/ \E t \in Thread : place[t] = "OnFirmwareConfigured" \/ sending[t] = "firmware"
           \/ "firmware" \in Answering

\* A read that takes the last byte of a packet with a payload hands it on.
LEMMA ReadAnswer ==
    ASSUME H4Inv, received = <<>>, OnDataReady, NEW o,
           \A k \in Packet : k.opcode = o => k.length > 0,
           LastBytes(o) # {}
    PROVE  LastBytes(o)' # {} \/ IsAnswer(o)'
  <1> PICK i \in 1..Len(uart) : uart[i].packet.opcode = o /\ uart[i].at = Size(uart[i].packet)
    BY DEF LastBytes
  <1>1. uart \in Seq(Byte) /\ Len(uart) \in Nat /\ packet_ \in Seq(Byte) /\ nextBit \in {0, 1}
    BY DEF H4Inv, H4TypeOK
  <1>2. ASSUME NEW n \in Nat \ {0}, Read(n), i > n
        PROVE  LastBytes(o)' # {}
    <2>1. n <= Len(uart) /\ uart' = SubSeq(uart, n + 1, Len(uart))
      BY <1>2 DEF Read
    <2>2. /\ Len(uart') = Len(uart) - n /\ i - n \in 1..Len(uart')
          /\ uart'[i - n] = uart[i]
      BY <1>1, <1>2, <2>1
    <2> QED
      BY <2>2 DEF LastBytes, Size
  <1>3. CASE ReadNothing
    BY <1>3 DEF ReadNothing, LastBytes
  <1>4. CASE ReadType
    <2>1. Read(1) /\ uart[1].at = 0
      BY <1>4 DEF ReadType, Read, H4Inv, BetweenInv
    <2>2. uart[i].packet \in Packet
      BY <1>1 DEF Byte
    <2>3. i # 1
      BY <2>1, <2>2, SizeType
    <2> QED
      BY <1>2, <2>1, <2>3
  <1>5. ASSUME NEW n \in 1..Requested, ReadPreamble(n) \/ ReadPayload(n)
        PROVE  LastBytes(o)' # {} \/ IsAnswer(o)'
    <2>1. hci_packet_type_ # Unknown /\ Read(n) /\ n \in Nat \ {0}
      BY <1>5 DEF ReadPreamble, ReadPayload, Read
    <2> PICK k \in Packet : Within(k)
      BY <2>1 DEF H4Inv, WithinInv
    <2> DEFINE m == Len(packet_)
    <2>2. /\ m \in Nat /\ Size(k) \in Nat /\ PreambleSize[k.type] \in Nat /\ k.length \in Nat
          /\ Size(k) = PreambleSize[k.type] + k.length
      BY <1>1, SizeType DEF Size
    <2>3. /\ ReadPreamble(n) => n <= PreambleSize[k.type] - m
          /\ ReadPayload(n) => n <= Size(k) - m /\ bytes_remaining_ = Size(k) - m
      BY DEF ReadPreamble, ReadPayload, Within, Requested
    <2>4. n \in 1..(Size(k) - m) /\ m < Size(k)
      BY <1>5, <2>1, <2>2, <2>3
    <2>6. \A j \in 1..n : uart[j] = [packet |-> k, bit |-> nextBit, at |-> m + j]
      BY <2>1, <2>4, ReadWithin
    <2>7. CASE i > n
      BY <1>2, <2>1, <2>7
    <2>8. CASE i <= n
      <3>1. i \in 1..n
        BY <2>1, <2>8
      <3>2. k.opcode = o /\ m + i = Size(k)
        <4>1. uart[i] = [packet |-> k, bit |-> nextBit, at |-> m + i]
          BY <2>6, <3>1
        <4>2. uart[i].packet = k /\ uart[i].at = m + i
          BY <4>1
        <4> QED
          BY <4>2
      <3>3. ~ReadPreamble(n)
        BY <2>1, <2>2, <2>3, <2>8, <3>2
      <3>4. ReadPayload(n) /\ bytes_remaining_ = n
        BY <1>5, <2>1, <2>2, <2>3, <2>8, <3>2, <3>3
      <3>5. received' = packet_ \o SubSeq(uart, 1, n)
        BY <3>4 DEF ReadPayload
      <3> DEFINE all == packet_ \o SubSeq(uart, 1, n)
      <3>6. /\ Len(all) = m + n
            /\ \A j \in 1..Len(all) : all[j] = [packet |-> k, bit |-> nextBit, at |-> j]
        BY <2>1, <2>4, ReadWithin
      <3>7. Len(received') # 0 /\ received'[1] = [packet |-> k, bit |-> nextBit, at |-> 1]
        <4>1. 1 \in 1..(m + n) /\ m + n # 0
          BY <2>1, <2>2
        <4> HIDE DEF all
        <4>2. received' = all
          BY <3>5 DEF all
        <4> QED
          BY <3>6, <4>1, <4>2
      <3> QED
        BY <3>2, <3>7 DEF IsAnswer
    <2> QED
      BY <2>1, <2>7, <2>8
  <1> QED
    BY <1>3, <1>4, <1>5 DEF OnDataReady

\* A step that moves a thread on from anywhere but OnFirmwareConfigured.
LEMMA MoveTells ==
    ASSUME Inv, SomebodyTells, NEW t \in Thread, NEW p,
           place' = [place EXCEPT ![t] = p], place[t] \notin {"OnFirmwareConfigured", "FW_CFG"},
           UNCHANGED <<unanswered, uart, received, phase, sending, initialize_complete_cb_>>
    PROVE  SomebodyTells'
  <1>1. Answering' = Answering
    BY AnsweringKept
  <1>2. \A u \in Thread : place[u] \in {"OnFirmwareConfigured", "FW_CFG"} => place'[u] = place[u]
    BY DEF Inv, TypeOK
  <1> QED
    BY <1>1, <1>2, Threads DEF SomebodyTells

\* A command is written: if it is a firmware command its answer is under way.
LEMMA SendWriteTells ==
    ASSUME Inv, SomebodyTells, NEW t \in Thread, SendWrite(t)
    PROVE  SomebodyTells'
  <1> USE DEF SendWrite, Return, LpmEnabled, Goto
  <1>1. /\ \A u \in Thread \ {t} : place'[u] = place[u] /\ sending'[u] = sending[u]
        /\ place[t] = "Send.write"
        /\ UNCHANGED <<phase, uart, received, initialize_complete_cb_>>
    BY DEF Inv, TypeOK
  <1>2. Answering \subseteq Answering'
    BY <1>1 DEF Answering, LastBytes, IsAnswer
  <1>3. sending[t] = "firmware" => "firmware" \in Answering'
    BY DEF Answering, VendorOpcode
  <1> QED
    BY <1>1, <1>2, <1>3, Threads DEF SomebodyTells

\* The answer to a firmware command makes the watcher send the next one or tell
\* the client: it is matched, as the answers are routed.
LEMMA EventStepTells ==
    ASSUME Inv, Routing, SomebodyTells, EventStep
    PROVE  SomebodyTells'
  <1>1. /\ UNCHANGED handleRest /\ watcher \in {"packetReady"} \cup EventPlace
        /\ \/ \E p \in EventPlace : HandleGoto(p)
           \/ \E cb : HandOn(cb)
    BY EventStepCases
  <1> SUFFICES ASSUME phase = "initializing" PROVE SomebodyTells'
    BY <1>1 DEF SomebodyTells
  <1>2. initialize_complete_cb_' /\ dialogue # "overlap"
    BY <1>1 DEF SomebodyTells, Routing, CommandInv
  <1>3. ASSUME NEW p \in EventPlace, HandleGoto(p)
        PROVE  SomebodyTells'
    <2>1. Answering' = Answering /\ UNCHANGED <<place, sending, phase>>
      BY <1>1, <1>3, AnsweringKept DEF HandleGoto
    <2> QED
      BY <1>2, <2>1 DEF SomebodyTells
  <1>4. ASSUME NEW cb, HandOn(cb)
        PROVE  SomebodyTells'
    <2>1. /\ place["watcher"] = "idle" /\ "watcher" \notin Commanding
          /\ \A o \in Answering : o # ReceivedOpcode => o \in Answering'
          /\ routed' = [opcode |-> ReceivedOpcode, to |-> cb]
      BY <1>1, <1>4, HandedOn
    <2>2. RoutedWell
      BY <1>4, EventStepRouting DEF HandOn, PacketHandled
    <2>3. CASE ReceivedOpcode = "firmware"
      <3>1. cb = "firmware"
        BY <1>2, <2>1, <2>2, <2>3 DEF RoutedWell, VendorOpcode
      <3>2. \/ sending'["watcher"] = "firmware"
            \/ place'["watcher"] = "OnFirmwareConfigured"
        BY <1>4, <3>1, Threads DEF HandOn, VendorCallback, Inv, TypeOK
      <3> QED
        BY <1>2, <3>2, Threads DEF SomebodyTells
    <2>4. CASE ReceivedOpcode # "firmware"
      <3>1. cb # "firmware"
        BY <1>2, <2>1, <2>2, <2>4 DEF RoutedWell
      <3>2. UNCHANGED <<sending, place>>
        BY <1>4, <3>1 DEF HandOn, VendorCallback
      <3> QED
        BY <1>1, <1>2, <2>1, <2>4, <3>2 DEF SomebodyTells
    <2> QED
      BY <2>3, <2>4
  <1> QED
    BY <1>1, <1>3, <1>4

\* The rest of a session's beginning: initialize, the vendor library, the client.
LEMMA SessionTells ==
    ASSUME Inv, Routing, SomebodyTells,
           \/ OpenFails \/ Open \/ CloseFailed \/ Close \/ CloseJoin \/ FwCfg
           \/ \E t \in Thread : InitializationComplete(t) \/ StartWatchdog(t)
           \/ \E s \in Sender : \E what \in {"stack", "data"} : ClientSend(s, what)
    PROVE  SomebodyTells'
  <1>1. CASE OpenFails \/ CloseFailed \/ Close \/ CloseJoin
    BY <1>1 DEF OpenFails, CloseFailed, Close, CloseJoin, SomebodyTells
  <1>2. CASE Open
    <2>1. initialize_complete_cb_' /\ place'["control"] = "FW_CFG"
      BY <1>2, Threads DEF Open, Inv, TypeOK
    <2> QED
      BY <2>1 DEF SomebodyTells
  <1>3. CASE FwCfg
    <2>1. /\ phase = "initializing" /\ UNCHANGED initialize_complete_cb_
          /\ place'["control"] = "OnFirmwareConfigured" \/ sending'["control"] = "firmware"
      BY <1>3, Threads DEF FwCfg, Goto, Routing, CommandInv, Inv, TypeOK
    <2> QED
      BY <2>1, Threads DEF SomebodyTells
  <1>4. ASSUME NEW t \in Thread, InitializationComplete(t) PROVE SomebodyTells'
    <2>1. phase' # "initializing"
      BY <1>4 DEF InitializationComplete, SomebodyTells
    <2> QED
      BY <2>1 DEF SomebodyTells
  <1>5. ASSUME NEW t \in Thread, StartWatchdog(t) PROVE SomebodyTells'
    <2>1. Answering' = Answering /\ UNCHANGED <<phase, initialize_complete_cb_>>
      BY <1>5, AnsweringKept DEF StartWatchdog, Return
    <2>2. place[t] \notin {"OnFirmwareConfigured", "FW_CFG"} /\ sending[t] # "firmware"
      BY <1>5
      DEF StartWatchdog, Routing, CommandInv, Commanding, VendorOpcode, TransmitPlace, SendPlace
    <2>3. \A u \in Thread \ {t} : place'[u] = place[u] /\ sending'[u] = sending[u]
      BY <1>5 DEF StartWatchdog, Return, Inv, TypeOK
    <2> QED
      BY <2>1, <2>2, <2>3, Threads DEF SomebodyTells
  <1>6. ASSUME NEW s \in Sender, NEW what \in {"stack", "data"}, ClientSend(s, what)
        PROVE  SomebodyTells'
    BY <1>6 DEF ClientSend, SomebodyTells
  <1> QED
    BY <1>1, <1>2, <1>3, <1>4, <1>5, <1>6

\* The bytes of an answer arrive, and are read.
LEMMA StreamTells ==
    ASSUME \A k \in Packet : k.opcode = "firmware" => k.length > 0,
           Inv, H4Inv, SomebodyTells,
           Unsolicited \/ WatcherRead \/ \E opcode \in Opcode : Answer(opcode)
    PROVE  SomebodyTells'
  <1>1. UNCHANGED <<place, sending, phase, initialize_complete_cb_>>
    BY DEF Unsolicited, WatcherRead, Answer
  <1>2. CASE WatcherRead
    <2>1. received = <<>> /\ OnDataReady /\ UNCHANGED unanswered
      BY <1>2 DEF WatcherRead, Inv, SessionInv, EventPlace
    <2>2. LastBytes("firmware") # {} => LastBytes("firmware")' # {} \/ IsAnswer("firmware")'
      BY <2>1, ReadAnswer
    <2>3. ~IsAnswer("firmware")
      BY <2>1 DEF IsAnswer
    <2>4. "firmware" \in Answering => "firmware" \in Answering'
      BY <2>1, <2>2, <2>3 DEF Answering
    <2> QED
      BY <1>1, <2>4 DEF SomebodyTells
  <1>3. CASE Unsolicited \/ \E opcode \in Opcode : Answer(opcode)
    <2>1. PICK k \in Packet :
              /\ Arrive(k)
              /\ \/ k.opcode = "none" /\ unanswered' = unanswered
                 \/ k.opcode \in unanswered /\ unanswered' = unanswered \ {k.opcode}
      BY <1>3 DEF Unsolicited, Answer
    <2>2. /\ k.opcode # "firmware" => LastBytes("firmware")' = LastBytes("firmware")
          /\ k.opcode = "firmware" => LastBytes("firmware")' # {}
      BY <2>1, ArriveLast
    <2>3. received' = received
      BY <2>1 DEF Arrive
    <2>4. "firmware" \in Answering => "firmware" \in Answering'
      BY <2>1, <2>2, <2>3 DEF Answering, IsAnswer
    <2> QED
      BY <1>1, <2>4 DEF SomebodyTells
  <1> QED
    BY <1>2, <1>3

\* initialize is never forgotten: until the client is told or closes, its callback
\* is kept and the firmware's configuration is in somebody's hands.  (An answer to
\* a command is an event with parameters, so it has a payload; the packetizer never
\* hands on a packet without one.)
THEOREM InitializeNeverForgotten ==
    ASSUME \A k \in Packet : k.opcode = "firmware" => k.length > 0
    PROVE  Spec => []SomebodyTells
  <1> DEFINE TellInv == H4Inv /\ Routing /\ SomebodyTells
  <1>1. Init => TellInv
    BY InitRouting, H4InitInv DEF Init, SomebodyTells
  <1>2. Inv /\ TellInv /\ [Next]_vars => TellInv'
    <2> SUFFICES ASSUME Inv, TellInv, [Next]_vars PROVE TellInv'
      OBVIOUS
    <2>1. H4Inv' /\ Routing'
      <3>1. ASSUME UNCHANGED vars PROVE H4Inv'
        BY <3>1, H4InvKept DEF vars
      <3> QED
        BY <3>1, StreamStep, RoutingStep
    <2> SUFFICES SomebodyTells'
      BY <2>1
    <2>2. ASSUME UNCHANGED <<unanswered, uart, received, phase, place, sending,
                             initialize_complete_cb_>>
          PROVE  SomebodyTells'
      BY <2>2, AnsweringKept DEF SomebodyTells
    <2>3. CASE \/ UNCHANGED vars \/ ThreadRoutine \/ OnTimeout \/ OnTimeoutDeassert
               \/ OnTimeoutConfigure \/ OnTimeoutEnd
      BY <2>2, <2>3 DEF vars, ThreadRoutine, OnTimeout, OnTimeoutDeassert, OnTimeoutConfigure,
                        OnTimeoutEnd
    <2>4. ASSUME NEW t \in Thread, CallStep(t) PROVE SomebodyTells'
      <3>3. CASE EnableLpm(t)
        <4>1. phase' # "initializing"
          BY <3>3 DEF EnableLpm, Routing, CommandInv, ToldPlace
        <4> QED
          BY <4>1 DEF SomebodyTells
      <3>1. CASE SendWrite(t) \/ InitializationComplete(t) \/ StartWatchdog(t)
        BY <3>1, SendWriteTells, SessionTells
      <3>2. CASE \/ TransmitCb(t) \/ TransmitOpcode(t) \/ Send(t) \/ SendConfigure(t)
                 \/ SendAssert(t) \/ GetLpmIdleTimeout(t)
        <4>1. \E p : place' = [place EXCEPT ![t] = p]
          BY <3>2 DEF TransmitCb, TransmitOpcode, Send, SendConfigure, SendAssert,
                      GetLpmIdleTimeout, Goto
        <4>2. /\ place[t] \notin {"OnFirmwareConfigured", "FW_CFG"}
              /\ UNCHANGED <<unanswered, uart, received, phase, sending, initialize_complete_cb_>>
          BY <3>2 DEF TransmitCb, TransmitOpcode, Send, SendConfigure, SendAssert,
                      GetLpmIdleTimeout
        <4> QED
          BY <4>1, <4>2, MoveTells
      <3> QED
        BY <2>4, <3>1, <3>2, <3>3 DEF CallStep
    <2>5. CASE CloseStop
      <3>1. /\ place' = [place EXCEPT !["control"] = "Close.join"]
            /\ place["control"] \notin {"OnFirmwareConfigured", "FW_CFG"}
            /\ UNCHANGED <<unanswered, uart, received, phase, sending, initialize_complete_cb_>>
        BY <2>5 DEF CloseStop
      <3> QED
        BY <3>1, Threads, MoveTells
    <2>6. CASE \/ OpenFails \/ Open \/ CloseFailed \/ Close \/ CloseJoin \/ FwCfg
               \/ \E s \in Sender : \E what \in {"stack", "data"} : ClientSend(s, what)
      BY <2>6, SessionTells
    <2>7. CASE Unsolicited \/ WatcherRead \/ \E opcode \in Opcode : Answer(opcode)
      BY <2>7, StreamTells
    <2>8. CASE EventStep
      BY <2>8, EventStepTells
    <2> QED
      BY <2>3, <2>4, <2>5, <2>6, <2>7, <2>8, Threads DEF Next, Watcher, Control
  <1> QED
    BY <1>1, <1>2, InvHolds, PTL DEF Spec

\* A thread that has been told to stop does not sleep: select is entered only
\* while running_, and stopThread, which clears it without a lock, leaves a
\* notification that select will see.
StopIsSeen == ~running_ /\ watcher = "select" => notifications > 0

\* close does not wait for a watcher that sleeps for ever: no order of the flag,
\* the notification and the start of a select loses the stop.
THEOREM StopNeverMissed == Spec => []StopIsSeen
  <1>1. Init => StopIsSeen
    BY DEF Init, WatcherInit, StopIsSeen
  <1>2. Inv /\ StopIsSeen /\ [Next]_vars => StopIsSeen'
    <2> SUFFICES ASSUME Inv, StopIsSeen, [Next]_vars PROVE StopIsSeen'
      OBVIOUS
    <2>1. notifications \in Nat /\ timeout_ms_ \in {0, 1}
      BY DEF Inv, TypeOK
    <2>2. ASSUME watcher' # "select" \/ (watcher' = watcher /\ running_' = running_),
                 notifications' \in {notifications, notifications + 1}
          PROVE  StopIsSeen'
      BY <2>1, <2>2 DEF StopIsSeen
    <2>3. CASE UNCHANGED vars
      BY <2>2, <2>3 DEF vars
    <2>4. CASE ThreadRoutine
      BY <2>1, <2>4
      DEF ThreadRoutine, WhileRunning, ReadNotification, DataReady, TimeIsUp, SaveCallback,
          StopIsSeen
    <2>5. CASE \/ OnTimeout \/ OnTimeoutDeassert \/ OnTimeoutConfigure \/ OnTimeoutEnd
               \/ WatcherRead \/ EventStep
      <3>1. watcher' # "select" /\ notifications' \in {notifications, notifications + 1}
        BY <2>5, EventStepCases
        DEF OnTimeout, OnTimeoutDeassert, OnTimeoutConfigure, OnTimeoutEnd, ConfigureTimeout,
            WatcherRead, HandleGoto, HandOn, VendorCallback, EventPlace
      <3> QED
        BY <2>2, <3>1
    <2>6. ASSUME NEW t \in Thread, CallStep(t) PROVE StopIsSeen'
      <3>1. /\ watcher' # "select" \/ (watcher' = watcher /\ running_' = running_)
            /\ notifications' \in {notifications, notifications + 1}
        BY <2>6
        DEF CallStep, TransmitCb, TransmitOpcode, Send, SendConfigure, SendAssert, SendWrite,
            InitializationComplete, GetLpmIdleTimeout, EnableLpm, LpmEnabled, StartWatchdog,
            ConfigureTimeout, Goto, Return
      <3> QED
        BY <2>2, <3>1
    <2>7. CASE Open \/ CloseStop \/ CloseJoin
      BY <2>1, <2>7 DEF Open, TryStartThread, CloseStop, StopThread, CloseJoin, ThreadJoined,
                        StopIsSeen
    <2>8. CASE \/ FwCfg \/ OpenFails \/ CloseFailed \/ Close \/ Unsolicited
               \/ \E opcode \in Opcode : Answer(opcode)
               \/ \E s \in Sender : \E what \in {"stack", "data"} : ClientSend(s, what)
      <3>1. UNCHANGED <<watcher, running_, notifications>>
        BY <2>8 DEF FwCfg, OpenFails, CloseFailed, Close, Unsolicited, Answer, ClientSend, Goto
      <3> QED
        BY <2>2, <3>1
    <2> QED
      BY <2>3, <2>4, <2>5, <2>6, <2>7, <2>8, Threads DEF Next, Watcher, Control
  <1> QED
    BY <1>1, <1>2, InvHolds, PTL DEF Spec
=============================================================================
