---------------------------- MODULE MCH4Protocol ----------------------------
(***************************************************************************)
(* H4Protocol with the preamble sizes of hci_internals.h and packets whose *)
(* payload is empty, one byte or two.                                      *)
(***************************************************************************)
EXTENDS H4Protocol

CONSTANTS event, acl

MCPacket == [type : {event, acl}, length : 0..2]

MCPreambleSize == [type \in {event, acl} |-> IF type = event THEN 2 ELSE 4]
=============================================================================
