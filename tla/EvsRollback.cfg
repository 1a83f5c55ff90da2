CONSTANTS
    MaxBuffers = 3
    Requests = {0, 1, 2, 3}
    AllocMayFail = TRUE
SPECIFICATION Spec
PROPERTY
    RollbackRestores
