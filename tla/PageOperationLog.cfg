SPECIFICATION Spec
CONSTANTS
    d1 = d1
    d2 = d2
    Device <- MCDevice
    Update = {"a1", "b1", "b2"}
    Authored1 = {"a1"}
    Authored2 = {"b1", "b2"}
    ServerUpdate = {}
    Managed = {d2}
    Requests <- MCRequests
    MaxRows = 2
    MaxRemote = 1
    ReplayInterval = 2
    MaxCheckpoints = 3
\* Once every device is revoked and the log is settled the page is at rest.
CHECK_DEADLOCK FALSE
INVARIANTS
    TypeOK
    Reloadable
    CompactionAtHead
    CanCatchUp
    FrontierProven
    CausalLog
    CatchUpComplete
    OfflineWorkComparable
PROPERTIES
    FrontierAdvances
