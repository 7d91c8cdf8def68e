SPECIFICATION RestoreSpec
CONSTANTS
    d1 = d1
    d2 = d2
    Device <- MCDevice
    Update = {"a1", "s1", "s2"}
    Authored1 = {"a1"}
    Authored2 = {}
    ServerUpdate = {"s1", "s2"}
    Managed = {}
    Requests <- MCSingleRequests
    MaxRows = 2
    MaxRemote = 1
    ReplayInterval = 1
    MaxCheckpoints = 2
\* Once every device is revoked and the log is settled the page is at rest.
CHECK_DEADLOCK FALSE
INVARIANTS
    Reloadable
    CanCatchUp
