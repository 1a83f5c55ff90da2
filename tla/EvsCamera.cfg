CONSTANTS
    MaxBuffers = 5
    Requests = {0, 1, 2, 3, 4, 5, 6}
    AllocMayFail = TRUE
SPECIFICATION FairSpec
INVARIANTS
    TypeOK
    CountsAgree
    BusyIsOwned
    AvailableSlotExists
    EmptySlotBelow
    CaptureHasStream
    EndIsSignalled
PROPERTIES
    StopReturns
    KeepsDelivering
    ImplementsService

