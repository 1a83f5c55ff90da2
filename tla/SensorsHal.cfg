CONSTANTS
    accel = accel
    prox = prox
    Sensor = {accel, prox}
    WakeUp = {prox}
    OnChange = {prox}
    OneShot = {}
    DataInjection = {accel}
    Binder = Binder
    None = None
    EventQueueSize = 1
    WakeLockQueueSize = 1
    PowerCallOK = {TRUE, FALSE}
    MaxOutstanding = 2
    MaxUnacked = 1
SPECIFICATION Spec
INVARIANTS
    TypeOK
    OutstandingCovers
    WakeLockCovers
    NoSampleWhenDisabled
    NoPostWithoutQueue
    OneReader
PROPERTIES
    FreshOnEnable
CHECK_DEADLOCK TRUE
