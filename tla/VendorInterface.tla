-------------------------- MODULE VendorInterface --------------------------
(***************************************************************************)
(* The default Bluetooth HCI HAL 1.0: BluetoothHci and VendorInterface     *)
(* (bluetooth/1.0/default/bluetooth_hci.cc and vendor_interface.cc) with   *)
(* the watcher's thread and the packetizer below them, a vendor library    *)
(* that configures the firmware with HCI commands of its own, and the      *)
(* controller.                                                             *)
(*                                                                         *)
(* Three kinds of threads run: the binder thread of initialize and close,  *)
(* the binder threads that send, and the watcher.  All of them can be in   *)
(* Send, which holds wakeup_mutex_.  A client is assumed to send only      *)
(* after initializationComplete and to have no send in progress when it    *)
(* closes: the code does not check it, and a client that dies within a     *)
(* call can break it, as the service has several threads.                  *)
(***************************************************************************)
EXTENDS H4Protocol, AsyncFdWatcher

CONSTANTS
    Sender,       \* the binder threads of sendHciCommand, sendAclData, sendScoData
    FwCommands    \* commands the vendor library sends to configure the firmware

ASSUME VendorAssumption ==
    /\ FwCommands \in Nat \ {0}
    /\ {"control", "watcher", "none"} \cap Sender = {}

Thread == {"control", "watcher"} \cup Sender

\* The opcodes of the vendor library's commands: to configure the firmware, and
\* to enable and to disable low power mode.  They differ from those of the stack.
VendorOpcode == {"firmware", "enable", "disable"}
Opcode == VendorOpcode \cup {"stack"}

VARIABLES
    place,     \* of each thread in the functions of VendorInterface
    sending,   \* the opcode of the command it sends, or "data"
    timeout,   \* the argument of its call of ConfigureTimeout
    wakeup_mutex_,
    lpm_wake_deasserted, lpm_timeout_ms, recent_activity_flag,
    internal_cb, internal_opcode,    \* of internal_command
    saved_cb,  \* of HandleIncomingEvent: internal_command.cb as it has read it
    g_vendor_interface,              \* "none", "failed" (Open has failed) or "open"
    initialize_complete_cb_,
    phase,     \* of the session, for the client: "closed", "initializing", "ready",
               \* "failed", "closing", or "aborting": closing before it was told
    firmware,  \* of the vendor library: commands left to send, and the result
    wake, lpm, unanswered,           \* of the controller
    routed,    \* history: where a packet went, until the watcher goes on
    dialogue   \* history: the vendor library's commands begun and not answered, "none",
               \* "one", or "overlap" once one began before the last was answered

lpmVars == <<lpm_wake_deasserted, lpm_timeout_ms, recent_activity_flag>>
internalVars == <<internal_cb, internal_opcode>>
historyVars == <<routed, dialogue>>
eventVars == <<saved_cb, routed, dialogue>>
sessionVars == <<g_vendor_interface, initialize_complete_cb_, phase, firmware>>
controllerVars == <<wake, lpm, unanswered>>
dataVars == <<h4Vars, uartVars, receiveVars>>
callVars == <<sending, timeout, wakeup_mutex_>>

vars == <<dataVars, watcherVars, place, callVars, lpmVars, internalVars, sessionVars,
          controllerVars, eventVars>>

NoFirmware == [left |-> 0, ok |-> FALSE]
Nowhere == [opcode |-> "none", to |-> "stack"]

Init ==
    /\ H4Init
    /\ WatcherInit
    /\ place = [t \in Thread |-> "idle"]
    /\ sending = [t \in Thread |-> "data"]
    /\ timeout = [t \in Thread |-> 0]
    /\ wakeup_mutex_ = "none"
    /\ lpm_wake_deasserted = FALSE /\ lpm_timeout_ms = 0 /\ recent_activity_flag = FALSE
    /\ internal_cb = "none" /\ internal_opcode = "none" /\ saved_cb = "none"
    /\ g_vendor_interface = "none" /\ initialize_complete_cb_ = FALSE
    /\ phase = "closed"
    /\ firmware = NoFirmware
    /\ wake = FALSE /\ lpm = FALSE /\ unanswered = {}
    /\ routed = Nowhere /\ dialogue = "none"

\* A command of the vendor library begins.
Begun(before) == IF before = "none" THEN "one" ELSE "overlap"

\* A thread goes on at another place, or returns to where it was called.
Goto(t, p) == place' = [place EXCEPT ![t] = p] /\ UNCHANGED watcher

Return(t) ==
    /\ sending' = [sending EXCEPT ![t] = "data"]
    /\ timeout' = [timeout EXCEPT ![t] = 0]
    /\ place' = [place EXCEPT ![t] = IF t = "control" /\ phase \in {"closing", "aborting"}
                                     THEN "Close.stop" ELSE "idle"]
    /\ watcher' = IF t = "watcher" THEN "while" ELSE watcher

----------------------------------------------------------------------------
(* Send, and transmit_cb, with which the vendor library sends. *)

TransmitCb(t) ==
    /\ place[t] = "transmit_cb"
    /\ internal_cb' = sending[t]
    /\ Goto(t, "transmit_cb.opcode")
    /\ UNCHANGED <<dataVars, running_, timeoutVars, hasTimeout, callVars, lpmVars, internal_opcode,
                   sessionVars, controllerVars, eventVars>>

TransmitOpcode(t) ==
    /\ place[t] = "transmit_cb.opcode"
    /\ internal_opcode' = sending[t]
    /\ Goto(t, "Send")
    /\ UNCHANGED <<dataVars, running_, timeoutVars, hasTimeout, callVars, lpmVars, internal_cb,
                   sessionVars, controllerVars, eventVars>>

\* Mutant: the timer is not restarted.
SendWithoutTimer(t) ==
    /\ place[t] = "Send"
    /\ wakeup_mutex_ = "none"
    /\ wakeup_mutex_' = t
    /\ recent_activity_flag' = TRUE
    /\ Goto(t, IF lpm_wake_deasserted THEN "Send.assert" ELSE "Send.write")
    /\ UNCHANGED <<dataVars, running_, timeoutVars, hasTimeout, sending, timeout,
                   lpm_wake_deasserted, lpm_timeout_ms, internalVars, sessionVars,
                   controllerVars, eventVars>>

Send(t) ==
    /\ place[t] = "Send"
    /\ wakeup_mutex_ = "none"
    /\ wakeup_mutex_' = t
    /\ recent_activity_flag' = TRUE
    /\ timeout' = [timeout EXCEPT ![t] = lpm_timeout_ms]
    /\ Goto(t, IF lpm_wake_deasserted THEN "Send.configure" ELSE "Send.write")
    /\ UNCHANGED <<dataVars, running_, timeoutVars, hasTimeout, sending,
                   lpm_wake_deasserted, lpm_timeout_ms, internalVars, sessionVars,
                   controllerVars, eventVars>>

SendConfigure(t) ==
    /\ place[t] = "Send.configure"
    /\ ConfigureTimeout(timeout[t], "OnTimeout")
    /\ Goto(t, "Send.assert")
    /\ UNCHANGED <<dataVars, running_, hasTimeout, callVars, lpmVars, internalVars, sessionVars,
                   controllerVars, eventVars>>

SendAssert(t) ==
    /\ place[t] = "Send.assert"
    /\ lpm_wake_deasserted' = FALSE
    /\ wake' = TRUE
    /\ Goto(t, "Send.write")
    /\ UNCHANGED <<dataVars, running_, timeoutVars, hasTimeout, callVars, lpm_timeout_ms,
                   recent_activity_flag, internalVars, sessionVars, lpm, unanswered, eventVars>>

\* The operation that enables low power mode returns.
LpmEnabled(t) ==
    /\ lpm' = TRUE
    /\ timeout' = [timeout EXCEPT ![t] = lpm_timeout_ms]
    /\ Goto(t, "OnFirmwareConfigured.configure")

\* hci_->Send: a command will be answered.
SendWrite(t) ==
    /\ place[t] = "Send.write"
    /\ unanswered' = IF sending[t] = "data" THEN unanswered ELSE unanswered \cup {sending[t]}
    /\ wakeup_mutex_' = "none"
    /\ IF sending[t] = "enable"
       THEN LpmEnabled(t) /\ sending' = [sending EXCEPT ![t] = "data"]
       ELSE Return(t) /\ UNCHANGED lpm
    /\ UNCHANGED <<dataVars, running_, timeoutVars, hasTimeout, lpmVars,
                   internalVars, sessionVars, wake, eventVars>>

\* A client sends data, or a command when its last one has been answered.
ClientSend(s, what) ==
    /\ phase = "ready" /\ place[s] = "idle"
    /\ what = "stack" => /\ "stack" \notin unanswered
                         /\ \A r \in Sender : place[r] # "idle" => sending[r] # "stack"
    /\ sending' = [sending EXCEPT ![s] = what]
    /\ Goto(s, "Send")
    /\ UNCHANGED <<dataVars, running_, timeoutVars, hasTimeout, timeout, wakeup_mutex_, lpmVars,
                   internalVars, sessionVars, controllerVars, eventVars>>

----------------------------------------------------------------------------
(* OnFirmwareConfigured. *)

\* Mutant: the client is told of a success only.
CompleteIfOk(t) ==
    /\ place[t] = "OnFirmwareConfigured"
    /\ initialize_complete_cb_' = FALSE
    /\ phase' = IF phase = "initializing" /\ firmware.ok THEN "ready" ELSE phase
    /\ Goto(t, "OnFirmwareConfigured.get")
    /\ UNCHANGED <<dataVars, running_, timeoutVars, hasTimeout, callVars, lpmVars, internalVars,
                   g_vendor_interface, firmware, controllerVars, eventVars>>

\* The client is told, once, and may send from now on.
InitializationComplete(t) ==
    /\ place[t] = "OnFirmwareConfigured"
    /\ initialize_complete_cb_' = FALSE
    /\ phase' = IF initialize_complete_cb_ /\ phase = "initializing"
                THEN (IF firmware.ok THEN "ready" ELSE "failed") ELSE phase
    /\ Goto(t, "OnFirmwareConfigured.get")
    /\ UNCHANGED <<dataVars, running_, timeoutVars, hasTimeout, callVars, lpmVars, internalVars,
                   g_vendor_interface, firmware, controllerVars, eventVars>>

GetLpmIdleTimeout(t) ==
    /\ place[t] = "OnFirmwareConfigured.get"
    /\ lpm_timeout_ms' = 1
    /\ Goto(t, "OnFirmwareConfigured.enable")
    /\ UNCHANGED <<dataVars, running_, timeoutVars, hasTimeout, callVars, lpm_wake_deasserted,
                   recent_activity_flag, internalVars, sessionVars, controllerVars, eventVars>>

\* Low power mode is enabled, for which the vendor library may send a command.
EnableLpm(t) ==
    /\ place[t] = "OnFirmwareConfigured.enable"
    /\ \/ LpmEnabled(t) /\ UNCHANGED <<sending, dialogue>>
       \/ /\ sending' = [sending EXCEPT ![t] = "enable"]
          /\ dialogue' = Begun(dialogue)
          /\ Goto(t, "transmit_cb")
          /\ UNCHANGED <<lpm, timeout>>
    /\ UNCHANGED <<dataVars, running_, timeoutVars, hasTimeout, wakeup_mutex_, lpmVars,
                   internalVars, sessionVars, wake, unanswered, saved_cb, routed>>

\* Without wakeup_mutex_.
StartWatchdog(t) ==
    /\ place[t] = "OnFirmwareConfigured.configure"
    /\ ConfigureTimeout(timeout[t], "OnTimeout")
    /\ Return(t)
    /\ UNCHANGED <<dataVars, running_, hasTimeout, wakeup_mutex_, lpmVars, internalVars,
                   sessionVars, controllerVars, eventVars>>

----------------------------------------------------------------------------
(* OnTimeout, on the watcher's thread. *)

\* Mutant: the mutex is not taken.
OnTimeoutUnlocked ==
    /\ watcher = "OnTimeout"
    /\ watcher' = IF recent_activity_flag THEN "OnTimeout.end" ELSE "OnTimeout.deassert"
    /\ UNCHANGED <<dataVars, running_, timeoutVars, hasTimeout, place, callVars, lpmVars,
                   internalVars, sessionVars, controllerVars, eventVars>>

OnTimeout ==
    /\ watcher = "OnTimeout"
    /\ wakeup_mutex_ = "none"
    /\ wakeup_mutex_' = "watcher"
    /\ watcher' = IF recent_activity_flag THEN "OnTimeout.end" ELSE "OnTimeout.deassert"
    /\ UNCHANGED <<dataVars, running_, timeoutVars, hasTimeout, place, sending, timeout, lpmVars,
                   internalVars, sessionVars, controllerVars, eventVars>>

OnTimeoutDeassert ==
    /\ watcher = "OnTimeout.deassert"
    /\ lpm_wake_deasserted' = TRUE
    /\ wake' = FALSE
    /\ watcher' = "OnTimeout.configure"
    /\ UNCHANGED <<dataVars, running_, timeoutVars, hasTimeout, place, callVars, lpm_timeout_ms,
                   recent_activity_flag, internalVars, sessionVars, lpm, unanswered, eventVars>>

OnTimeoutConfigure ==
    /\ watcher = "OnTimeout.configure"
    /\ ConfigureTimeout(0, "ZeroTimeout")
    /\ watcher' = "OnTimeout.end"
    /\ UNCHANGED <<dataVars, running_, hasTimeout, place, callVars, lpmVars, internalVars,
                   sessionVars, controllerVars, eventVars>>

OnTimeoutEnd ==
    /\ watcher = "OnTimeout.end"
    /\ recent_activity_flag' = FALSE
    /\ wakeup_mutex_' = "none"
    /\ watcher' = "while"
    /\ UNCHANGED <<dataVars, running_, timeoutVars, hasTimeout, place, sending, timeout,
                   lpm_wake_deasserted, lpm_timeout_ms, internalVars, sessionVars,
                   controllerVars, eventVars>>

----------------------------------------------------------------------------
(* Packets from the controller. *)

\* The watcher's callback reads once.
WatcherRead ==
    /\ watcher = "dataReady"
    /\ OnDataReady
    /\ watcher' = IF received' # <<>> THEN "packetReady" ELSE "while"
    /\ UNCHANGED <<running_, timeoutVars, hasTimeout, place, callVars, lpmVars, internalVars,
                   sessionVars, controllerVars, eventVars>>

\* The opcode of the packet that is handed on, "none" if it is no Command Complete.
ReceivedOpcode == received[1].packet.opcode

\* The vendor library's callback for an answer: it sends its next command, or
\* has configured the firmware.  The answers to the commands about low power mode
\* need nothing.
VendorCallback(cb, answered) ==
    IF cb = "firmware"
    THEN /\ watcher' = "callback"
         /\ IF firmware.left > 1
            THEN /\ firmware' = [firmware EXCEPT !.left = @ - 1]
                 /\ sending' = [sending EXCEPT !["watcher"] = "firmware"]
                 /\ place' = [place EXCEPT !["watcher"] = "transmit_cb"]
                 /\ dialogue' = Begun(answered)
            ELSE /\ \E ok \in BOOLEAN : firmware' = [left |-> 0, ok |-> ok]
                 /\ place' = [place EXCEPT !["watcher"] = "OnFirmwareConfigured"]
                 /\ dialogue' = answered
                 /\ UNCHANGED sending
    ELSE watcher' = "while" /\ dialogue' = answered /\ UNCHANGED <<firmware, sending, place>>

\* The packet is handed to the callback cb, of a vendor command, or to the client.
HandOn(cb) ==
    /\ PacketHandled
    /\ routed' = [opcode |-> ReceivedOpcode, to |-> cb]
    /\ saved_cb' = "none"
    /\ VendorCallback(cb, IF ReceivedOpcode \in VendorOpcode /\ dialogue = "one"
                          THEN "none" ELSE dialogue)

\* HandleIncomingEvent, for a whole packet, goes on at another place.
HandleGoto(p) ==
    /\ watcher' = p
    /\ UNCHANGED <<dataVars, firmware, sending, place, historyVars>>

handleRest == <<running_, timeoutVars, hasTimeout, timeout, wakeup_mutex_, lpmVars,
                internal_opcode, g_vendor_interface, initialize_complete_cb_, phase,
                controllerVars>>

\* It uses internal_command without a lock, one access after the other: is there a
\* callback?  Data and other events go to the client whatever the answer is.
HandleIncomingEvent ==
    /\ watcher = "packetReady"
    /\ IF ReceivedOpcode # "none" /\ internal_cb # "none"
       THEN HandleGoto("HandleIncomingEvent.match") /\ saved_cb' = internal_cb
       ELSE HandOn("stack")
    /\ UNCHANGED <<internal_cb, handleRest>>

\* Mutant: the opcode is not compared.
MatchAnyCompleteEvent ==
    /\ watcher = "HandleIncomingEvent.match"
    /\ HandleGoto("HandleIncomingEvent.save")
    /\ UNCHANGED <<internal_cb, saved_cb, handleRest>>

\* ... Is the packet the answer to the command?
InternalCommandEventMatch ==
    /\ watcher = "HandleIncomingEvent.match"
    /\ IF ReceivedOpcode = internal_opcode
       THEN HandleGoto("HandleIncomingEvent.save") /\ UNCHANGED saved_cb
       ELSE HandOn("stack")
    /\ UNCHANGED <<internal_cb, handleRest>>

\* ... The callback is saved.  As nothing orders this read of it after another
\* thread's write, the compiler may reuse what was read first.
SaveInternalCallback ==
    /\ watcher = "HandleIncomingEvent.save"
    /\ HandleGoto("HandleIncomingEvent.clear")
    /\ saved_cb' \in {saved_cb, internal_cb}
    /\ UNCHANGED <<internal_cb, handleRest>>

\* ... The command is forgotten before its callback is called, which may send
\* another one.
CallSavedCallback ==
    /\ watcher = "HandleIncomingEvent.clear"
    /\ internal_cb' = "none"
    /\ HandOn(saved_cb)
    /\ UNCHANGED handleRest

----------------------------------------------------------------------------
(* initialize and close. *)

\* Open fails before it has the UART: the interface stays, for close to delete,
\* and until then initialize is refused.
OpenFails ==
    /\ place["control"] = "idle" /\ g_vendor_interface = "none"
    /\ g_vendor_interface' = "failed" /\ phase' = "failed"
    /\ UNCHANGED <<dataVars, watcherVars, place, callVars, lpmVars, internalVars,
                   initialize_complete_cb_, firmware, controllerVars, eventVars>>

Open ==
    /\ place["control"] = "idle" /\ g_vendor_interface = "none"
    /\ g_vendor_interface' = "open" /\ phase' = "initializing"
    /\ initialize_complete_cb_' = TRUE
    /\ TryStartThread
    /\ lpm_wake_deasserted' = TRUE
    /\ place' = [place EXCEPT !["control"] = "FW_CFG"]
    /\ UNCHANGED <<dataVars, callVars, lpm_timeout_ms, recent_activity_flag, internalVars,
                   firmware, controllerVars, eventVars>>

\* The vendor library starts to configure the firmware, or fails to.
FwCfg ==
    /\ place["control"] = "FW_CFG"
    /\ \/ /\ firmware' = [left |-> FwCommands, ok |-> FALSE]
          /\ sending' = [sending EXCEPT !["control"] = "firmware"]
          /\ dialogue' = Begun(dialogue)
          /\ Goto("control", "transmit_cb")
       \/ /\ firmware' = NoFirmware
          /\ Goto("control", "OnFirmwareConfigured")
          /\ UNCHANGED <<sending, dialogue>>
    /\ UNCHANGED <<dataVars, running_, timeoutVars, hasTimeout, timeout, wakeup_mutex_, lpmVars,
                   internalVars, g_vendor_interface, initialize_complete_cb_, phase,
                   controllerVars, saved_cb, routed>>

\* The client closes the interface, or dies, outside of a call.
ClientCloses ==
    /\ place["control"] = "idle" /\ g_vendor_interface # "none"
    /\ \A s \in Sender : place[s] = "idle"

\* close, after Open failed: there is nothing to stop.  (If the vendor library was
\* loaded it is told to disable low power mode here too, without a protocol object
\* to send with: what a library makes of that is left out.)
CloseFailed ==
    /\ ClientCloses /\ g_vendor_interface = "failed"
    /\ g_vendor_interface' = "none" /\ phase' = "closed"
    /\ UNCHANGED <<dataVars, watcherVars, place, callVars, lpmVars, internalVars,
                   initialize_complete_cb_, firmware, controllerVars, eventVars>>

\* Low power mode is disabled, for which the vendor library may send a command.
Close ==
    /\ ClientCloses /\ g_vendor_interface = "open"
    /\ phase' = IF phase = "initializing" THEN "aborting" ELSE "closing"
    /\ lpm' = FALSE
    /\ \/ /\ sending' = [sending EXCEPT !["control"] = "disable"]
          /\ dialogue' = Begun(dialogue)
          /\ Goto("control", "transmit_cb")
       \/ Goto("control", "Close.stop") /\ UNCHANGED <<sending, dialogue>>
    /\ UNCHANGED <<dataVars, running_, timeoutVars, hasTimeout, timeout, wakeup_mutex_, lpmVars,
                   internalVars, g_vendor_interface, initialize_complete_cb_, firmware, wake,
                   unanswered, saved_cb, routed>>

CloseStop ==
    /\ place["control"] = "Close.stop"
    /\ StopThread
    /\ place' = [place EXCEPT !["control"] = "Close.join"]
    /\ UNCHANGED <<dataVars, callVars, lpmVars, internalVars, sessionVars, controllerVars,
                   eventVars>>

\* The thread is joined, the protocol object deleted, the UART closed and the
\* controller switched off.  internal_command and the flags of the low power
\* mode are global and stay.
CloseJoin ==
    /\ place["control"] = "Close.join"
    /\ ThreadJoined
    /\ place' = [place EXCEPT !["control"] = "idle"]
    /\ g_vendor_interface' = "none" /\ phase' = "closed"
    /\ hci_packet_type_' = Unknown /\ state_' = "HCI_PREAMBLE"
    /\ bytes_read_' = 0 /\ bytes_remaining_' = 0 /\ packet_' = <<>>
    /\ uart' = <<>> /\ sentBit' = 0 /\ nextBit' = 0 /\ eof' = FALSE
    /\ wake' = FALSE /\ lpm' = FALSE /\ unanswered' = {}
    /\ firmware' = NoFirmware /\ initialize_complete_cb_' = FALSE
    /\ dialogue' = "none"
    /\ UNCHANGED <<uartOpen, received, callVars, lpmVars, internalVars, saved_cb, routed>>

----------------------------------------------------------------------------
(* The controller. *)

Answer(opcode) ==
    /\ opcode \in unanswered
    /\ \E packet \in Packet : packet.opcode = opcode /\ Arrive(packet)
    /\ unanswered' = unanswered \ {opcode}
    /\ UNCHANGED <<watcherVars, place, callVars, lpmVars, internalVars, sessionVars, wake, lpm,
                   eventVars>>

\* Data and events that answer no command, once the firmware runs.
Unsolicited ==
    /\ g_vendor_interface = "open" /\ lpm
    /\ \E packet \in Packet : packet.opcode = "none" /\ Arrive(packet)
    /\ UNCHANGED <<watcherVars, place, callVars, lpmVars, internalVars, sessionVars,
                   controllerVars, eventVars>>

----------------------------------------------------------------------------

\* The loop of the watcher's thread.
ThreadRoutine ==
    /\ WhileRunning \/ ReadNotification \/ DataReady(IsReadable) \/ TimeIsUp(IsReadable)
           \/ SaveCallback
    /\ routed' = Nowhere
    /\ UNCHANGED <<dataVars, place, callVars, lpmVars, internalVars, sessionVars, controllerVars,
                   saved_cb, dialogue>>

\* A step of thread t in Send, transmit_cb or OnFirmwareConfigured.
CallStep(t) ==
    \/ TransmitCb(t) \/ TransmitOpcode(t)
    \/ Send(t) \/ SendConfigure(t) \/ SendAssert(t) \/ SendWrite(t)
    \/ InitializationComplete(t) \/ GetLpmIdleTimeout(t) \/ EnableLpm(t) \/ StartWatchdog(t)

\* A step of HandleIncomingEvent.
EventStep ==
    \/ HandleIncomingEvent \/ InternalCommandEventMatch \/ SaveInternalCallback
    \/ CallSavedCallback

Watcher ==
    \/ ThreadRoutine
    \/ OnTimeout \/ OnTimeoutDeassert \/ OnTimeoutConfigure \/ OnTimeoutEnd
    \/ WatcherRead \/ EventStep
    \/ CallStep("watcher")

Control == FwCfg \/ CloseStop \/ CloseJoin \/ CallStep("control")

Next ==
    \/ Watcher
    \/ Control
    \/ \E s \in Sender : \/ CallStep(s)
                         \/ \E what \in {"stack", "data"} : ClientSend(s, what)
    \/ OpenFails \/ Open \/ CloseFailed \/ Close
    \/ \E opcode \in Opcode : Answer(opcode)
    \/ Unsolicited

Spec == Init /\ [][Next]_vars

\* A thread that has something to do does it, and the controller answers.
FairSpec ==
    /\ Spec
    /\ WF_vars(Watcher) /\ WF_vars(Control)
    /\ \A opcode \in Opcode : WF_vars(Answer(opcode))

----------------------------------------------------------------------------
(* Properties. *)

Place ==
    {"idle", "transmit_cb", "transmit_cb.opcode", "Send", "Send.configure", "Send.assert",
     "Send.write", "OnFirmwareConfigured", "OnFirmwareConfigured.get",
     "OnFirmwareConfigured.enable", "OnFirmwareConfigured.configure", "FW_CFG", "Close.stop",
     "Close.join"}

WatcherPlace ==
    {"none", "while", "select", "timeout", "dataReady", "packetReady",
     "HandleIncomingEvent.match", "HandleIncomingEvent.save", "HandleIncomingEvent.clear",
     "callback", "OnTimeout", "OnTimeout.deassert", "OnTimeout.configure", "OnTimeout.end", "done"}

\* The types of the state.
TypeOK ==
    /\ running_ \in BOOLEAN
    /\ timeout_ms_ \in {0, 1} /\ timeout_cb_ \in {"none", "OnTimeout", "ZeroTimeout"}
    /\ notifications \in Nat
    /\ watcher \in WatcherPlace /\ hasTimeout \in BOOLEAN
    /\ place \in [Thread -> Place]
    /\ sending \in [Thread -> Opcode \cup {"data"}]
    /\ timeout \in [Thread -> {0, 1}]
    /\ wakeup_mutex_ \in Thread \cup {"none"}
    /\ lpm_wake_deasserted \in BOOLEAN /\ lpm_timeout_ms \in {0, 1}
    /\ recent_activity_flag \in BOOLEAN
    /\ internal_cb \in Opcode \cup {"data", "none"}
    /\ internal_opcode \in Opcode \cup {"data", "none"}
    /\ saved_cb \in Opcode \cup {"data", "none"}
    /\ dialogue \in {"none", "one", "overlap"}
    /\ g_vendor_interface \in {"none", "failed", "open"}
    /\ initialize_complete_cb_ \in BOOLEAN
    /\ phase \in {"closed", "initializing", "ready", "failed", "closing", "aborting"}
    /\ firmware \in [left : 0..FwCommands, ok : BOOLEAN]
    /\ wake \in BOOLEAN /\ lpm \in BOOLEAN /\ unanswered \subseteq Opcode

\* Whenever a packet is written the controller has been told to be awake: the
\* watcher's timeout does not take the wake back under a thread in Send
\* (vendor_interface.cc:311-327 against 353-365).
AwakeWhenWriting == \A t \in Thread : place[t] = "Send.write" => wake

\* In low power mode the timeout that takes the wake back is armed whenever the
\* wake is asserted: no order of Send, OnTimeout and OnFirmwareConfigured, which
\* arms it without the mutex, leaves the controller awake for ever.
AwakeHasTimeout ==
    lpm /\ ~lpm_wake_deasserted
        /\ (\A t \in Thread : place[t] # "OnFirmwareConfigured.configure") => timeout_ms_ > 0

\* The client's answers and data always reach the client, and an answer to the
\* vendor library reaches the callback of its own command as long as no second
\* command of the library began before the first was answered: also when a command
\* is sent from the callback of the last one, when transmit_cb is half way on
\* another thread, and when the session before was closed with a command unanswered
\* (vendor_interface.cc:84-94 against 367-379).  Nothing keeps the library's commands
\* from overlapping: a client that closes while the firmware is configured, or low
\* power mode enabled, makes it send another one, and as both share
\* internal_command, the first answer may take the callback of the second or go to
\* the client.
AnswersRouted ==
    [][routed' # routed =>
          /\ routed'.opcode \notin VendorOpcode => routed'.to = "stack"
          /\ routed'.opcode \in VendorOpcode /\ dialogue # "overlap" =>
                routed'.to = routed'.opcode]_vars

\* Each initialize is answered: the client hears of success or failure, unless
\* it closes first.
InitializationCompletes == phase = "initializing" ~> phase # "initializing"
=============================================================================
