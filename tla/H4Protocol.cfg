SPECIFICATION H4Spec
CONSTANTS
    event = event
    acl = acl
    Packet <- MCPacket
    PreambleSize <- MCPreambleSize
    MaxUart = 3
    Unknown = Unknown
INVARIANT EofOnlyWhenClosed
CHECK_DEADLOCK FALSE
