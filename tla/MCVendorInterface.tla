------------------------- MODULE MCVendorInterface -------------------------
(***************************************************************************)
(* VendorInterface with short packets: a Command Complete event for each   *)
(* opcode, and data, empty or not.                                         *)
(***************************************************************************)
EXTENDS VendorInterface

CONSTANTS event, acl

MCPacket ==
    [type : {event}, length : {1}, opcode : Opcode]
        \cup [type : {acl}, length : {0, 2}, opcode : {"none"}]

MCPreambleSize == [type \in {event, acl} |-> IF type = event THEN 1 ELSE 2]
=============================================================================
