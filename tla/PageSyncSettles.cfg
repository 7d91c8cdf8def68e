SPECIFICATION FairBoundedSpec
CONSTANTS
    d1 = d1
    d2 = d2
    t1 = t1
    t2 = t2
    t3 = t3
    Device = {d1, d2}
    Managed = {}
    Update = {"a1", "b1"}
    Writes1 = {"a1"}
    Writes2 = {"b1"}
    Delayed = {}
    ServerUpdate = {}
    Requests = {}
    MaxRows = 2
    MaxRemote = 2
    ReplayInterval = 4
    MaxCheckpoints = 1
    Tab = {t1, t2}
    Owner <- MCOwner
    Writes <- MCWrites
    MaxBatch = 1
\* Once everything is known everywhere nothing has to happen any more.
CHECK_DEADLOCK FALSE
INVARIANT
    SetAsideIsAccepted
PROPERTY
    Settles
