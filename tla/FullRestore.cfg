CONSTANTS Blobs = {b1}
 Writers = {w1}
 MaxDays = 2
 Retention = 1
 MaxEvents = 2
 MaxArchives = 4
 MaxTries = 2
SPECIFICATION FairRestoreSpec
INVARIANTS SnapshotsCaptured NoRedundantBackup ServedWhole
PROPERTIES RecoveryPointKept BackedUpDaily EachIsCopied
CHECK_DEADLOCK FALSE
