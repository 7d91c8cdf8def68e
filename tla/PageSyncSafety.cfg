SPECIFICATION BoundedSpec
CONSTANTS
    d1 = d1
    d2 = d2
    t1 = t1
    t2 = t2
    t3 = t3
    Device = {d1, d2}
    Managed = {}
    Update = {"a1", "a2"}
    Writes1 = {"a1", "a2"}
    Writes2 = {}
    Delayed = {d1}
    ServerUpdate = {}
    Requests = {}
    MaxRows = 2
    MaxRemote = 1
    ReplayInterval = 4
    MaxCheckpoints = 1
    Tab = {t1, t3}
    Owner <- MCOwner
    Writes <- MCWrites
    MaxBatch = 2
\* Once everything is known everywhere nothing has to happen any more.
CHECK_DEADLOCK FALSE
SYMMETRY TabSymmetry
INVARIANTS
    CursorCovered
    ServerFrontierHeld
    NothingLost
    VisibleIsDurable
PROPERTY
    SharesOnePage
