SPECIFICATION Spec
CONSTANTS
    Client = {c1, c2}
    Sizes = {2, 5}
    MaxSize = 5
    Half = 8
    TotalSize = 4
    SizeDay = 3
    Hash <- Distinct
    Days = {0}
    MaxUploads = 2
    MaxTries = 2
    MaxTime = 1
SYMMETRY Clients
CHECK_DEADLOCK FALSE
INVARIANTS Accounted Overshoot AckedKept
