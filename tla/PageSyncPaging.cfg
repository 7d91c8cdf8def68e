SPECIFICATION BoundedSpec
CONSTANTS
    d1 = d1
    d2 = d2
    t1 = t1
    t2 = t2
    t3 = t3
    Device = {d1, d2}
    Managed = {}
    Update = {"a1", "a2"}
    Writes1 = {"a1", "a2"}
    Writes2 = {}
    Delayed = {d1, d2}
    ServerUpdate = {}
    Requests = {}
    MaxRows = 1
    MaxRemote = 1
    ReplayInterval = 4
    MaxCheckpoints = 1
    Tab = {t1, t2}
    Owner <- MCOwner
    Writes <- MCWrites
    MaxBatch = 2
\* Once everything is known everywhere nothing has to happen any more.
CHECK_DEADLOCK FALSE
INVARIANT
    PagedCatchUp
