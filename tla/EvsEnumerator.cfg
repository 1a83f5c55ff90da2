SPECIFICATION Spec
CONSTANTS
    rear = rear
    lane = lane
    c1 = c1
    c2 = c2
    c3 = c3
    d1 = d1
    d2 = d2
    d3 = d3
    None = None
    CameraId = {rear, lane}
    Camera = {c1, c2, c3}
    Display = {d1, d2, d3}
SYMMETRY Symmetry
INVARIANTS TypeOK CameraExclusive DisplayExclusive BusyIsLent
PROPERTIES OthersUndisturbed DeadForGood
