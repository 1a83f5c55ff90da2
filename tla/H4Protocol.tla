----------------------------- MODULE H4Protocol -----------------------------
(***************************************************************************)
(* How the Bluetooth HAL cuts the bytes of the UART into HCI packets       *)
(* (bluetooth/1.0/default/h4_protocol.cc and hci_packetizer.cc).  Each     *)
(* call of OnDataReady makes one read, which returns as many bytes as have *)
(* arrived, at most what was asked for.                                    *)
(*                                                                         *)
(* A byte is the packet it belongs to and its place in it: the type byte   *)
(* is at 0, the preamble follows, then the payload.                        *)
(***************************************************************************)
EXTENDS Integers, Sequences

CONSTANTS
    Packet,         \* [type, length, content] of the packets a controller sends
    PreambleSize,   \* by packet type
    MaxUart,        \* bound on the bytes in the UART
    Unknown         \* HCI_PACKET_TYPE_UNKNOWN

ASSUME H4Assumption ==
    /\ \A k \in Packet : k.length \in Nat /\ PreambleSize[k.type] \in Nat \ {0}
    /\ \A k \in Packet : k.type # Unknown

VARIABLES
    uart,              \* the bytes that have arrived
    uartOpen,
    hci_packet_type_,  \* of H4Protocol
    state_, bytes_read_, bytes_remaining_, packet_,  \* of its HciPacketizer
    received,          \* the packet packet_ready_cb_ is called with, if any
    eof,               \* history: a read has returned 0
    sentBit, nextBit   \* history: successive packets carry alternating bits

h4Vars == <<hci_packet_type_, state_, bytes_read_, bytes_remaining_, packet_>>
uartVars == <<uart, uartOpen, sentBit>>
receiveVars == <<received, eof, nextBit>>

Bytes(packet, bit) ==
    [i \in 1..(1 + PreambleSize[packet.type] + packet.length) |->
        [packet |-> packet, bit |-> bit, at |-> i - 1]]

H4Init ==
    /\ uart = <<>> /\ uartOpen = TRUE
    /\ hci_packet_type_ = Unknown
    /\ state_ = "HCI_PREAMBLE" /\ bytes_read_ = 0 /\ bytes_remaining_ = 0 /\ packet_ = <<>>
    /\ received = <<>> /\ eof = FALSE
    /\ sentBit = 0 /\ nextBit = 0

\* The controller sends a packet.
Arrive(packet) ==
    /\ uartOpen /\ Len(uart) < MaxUart
    /\ uart' = uart \o Bytes(packet, sentBit)
    /\ sentBit' = 1 - sentBit
    /\ UNCHANGED <<uartOpen, h4Vars, receiveVars>>

\* The UART is closed while the HAL still watches it.
HangUp ==
    /\ uartOpen
    /\ uartOpen' = FALSE
    /\ UNCHANGED <<uart, sentBit, h4Vars, receiveVars>>

\* HciGetPacketLengthForType: the length is a field of the preamble.
HciGetPacketLengthForType(preamble) == preamble[1].packet.length

\* What OnDataReady asks read for.
Requested ==
    IF hci_packet_type_ = Unknown THEN 1
    ELSE IF state_ = "HCI_PREAMBLE" THEN PreambleSize[hci_packet_type_] - bytes_read_
    ELSE bytes_remaining_

\* read returns n bytes.
Read(n) == n \in 1..Requested /\ n <= Len(uart) /\ uart' = SubSeq(uart, n + 1, Len(uart))

ReadType ==
    /\ hci_packet_type_ = Unknown
    /\ Read(1)
    /\ hci_packet_type_' = uart[1].packet.type
    /\ UNCHANGED <<uartOpen, sentBit, state_, bytes_read_, bytes_remaining_, packet_, receiveVars>>

\* Mutant: a short read is taken for the whole preamble.
ReadPreambleOnce(n) ==
    /\ hci_packet_type_ # Unknown /\ state_ = "HCI_PREAMBLE"
    /\ Read(n)
    /\ packet_' = packet_ \o SubSeq(uart, 1, n)
    /\ bytes_remaining_' = HciGetPacketLengthForType(packet_')
    /\ state_' = "HCI_PAYLOAD"
    /\ bytes_read_' = 0
    /\ UNCHANGED <<uartOpen, sentBit, hci_packet_type_, receiveVars>>

ReadPreamble(n) ==
    /\ hci_packet_type_ # Unknown /\ state_ = "HCI_PREAMBLE"
    /\ Read(n)
    /\ packet_' = packet_ \o SubSeq(uart, 1, n)
    /\ IF bytes_read_ + n = PreambleSize[hci_packet_type_]
       THEN /\ bytes_remaining_' = HciGetPacketLengthForType(packet_')
            /\ state_' = "HCI_PAYLOAD"
            /\ bytes_read_' = 0
       ELSE /\ bytes_read_' = bytes_read_ + n
            /\ UNCHANGED <<bytes_remaining_, state_>>
    /\ UNCHANGED <<uartOpen, sentBit, hci_packet_type_, receiveVars>>

\* The last byte of the payload calls packet_ready_cb_ and gets H4Protocol and
\* the packetizer ready for the next packet.
ReadPayload(n) ==
    /\ hci_packet_type_ # Unknown /\ state_ = "HCI_PAYLOAD"
    /\ Read(n)
    /\ bytes_remaining_' = bytes_remaining_ - n
    /\ IF bytes_remaining_ = n
       THEN /\ received' = packet_ \o SubSeq(uart, 1, n)
            /\ packet_' = <<>>
            /\ hci_packet_type_' = Unknown
            /\ state_' = "HCI_PREAMBLE"
            /\ bytes_read_' = 0
       ELSE /\ packet_' = packet_ \o SubSeq(uart, 1, n)
            /\ bytes_read_' = bytes_read_ + n
            /\ UNCHANGED <<received, hci_packet_type_, state_>>
    /\ UNCHANGED <<uartOpen, sentBit, eof, nextBit>>

\* select has found the UART readable.
IsReadable == uart # <<>> \/ ~uartOpen

\* read returns 0: the UART is at its end, or no byte was asked for.  The code
\* logs "Unexpected EOF", sleeps and returns.
ReadNothing ==
    /\ \/ Requested = 0 /\ IsReadable
       \/ ~uartOpen /\ uart = <<>>
    /\ eof' = TRUE
    /\ UNCHANGED <<uartVars, h4Vars, received, nextBit>>

OnDataReady ==
    \/ ReadType
    \/ \E n \in 1..Requested : ReadPreamble(n) \/ ReadPayload(n)
    \/ ReadNothing

\* packet_ready_cb_ has returned.
PacketHandled ==
    /\ received # <<>>
    /\ received' = <<>>
    /\ nextBit' = 1 - nextBit
    /\ UNCHANGED <<uartVars, h4Vars, eof>>

H4Next ==
    \/ \E packet \in Packet : Arrive(packet)
    \/ HangUp
    \/ received = <<>> /\ OnDataReady
    \/ PacketHandled

H4Spec == H4Init /\ [][H4Next]_<<h4Vars, uartVars, receiveVars>>

----------------------------------------------------------------------------
(* Properties. *)

\* However the bytes arrive, a packet is handed on whole, with its own bytes in
\* their order, and no packet is lost, repeated or overtaken.
PacketsWhole ==
    received # <<>> =>
        received = Tail(Bytes(received[1].packet, nextBit))

\* The code says of a read that returns 0 that it "is only expected if the
\* UART got closed when shutting down" (hci_packetizer.cc:58 and 86).
EofOnlyWhenClosed == eof => ~uartOpen
=============================================================================
