SPECIFICATION FairSpec
CONSTANTS
    event = event
    acl = acl
    Packet <- MCPacket
    PreambleSize <- MCPreambleSize
    MaxUart = 2
    Unknown = Unknown
    Sender = {s1, s2}
    FwCommands = 2
INVARIANTS
    TypeOK
    AwakeWhenWriting
    AwakeHasTimeout
    PacketsWhole
PROPERTIES
    AnswersRouted
    InitializationCompletes
