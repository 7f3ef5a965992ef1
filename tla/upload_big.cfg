SPECIFICATION Spec
CONSTANTS
    Client = {c1, c2}
    Sizes = {1, 3}
    MaxSize = 3
    Half = 2
    TotalSize = 5
    SizeDay = 5
    Hash <- Distinct
    Days = {0}
    MaxUploads = 2
    MaxTries = 2
    MaxTime = 1
SYMMETRY Clients
CHECK_DEADLOCK FALSE
INVARIANTS Accounted
