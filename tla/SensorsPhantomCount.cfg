CONSTANTS
    accel = accel
    prox = prox
    Sensor = {prox}
    WakeUp = {prox}
    OnChange = {prox}
    OneShot = {}
    DataInjection = {}
    Binder = Binder
    None = None
    EventQueueSize = 1
    WakeLockQueueSize = 1
    PowerCallOK = {TRUE, FALSE}
    MaxOutstanding = 2
    MaxUnacked = 1
SPECIFICATION Spec
PROPERTY
    NoPhantomCount
