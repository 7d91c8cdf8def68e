SPECIFICATION FairTransferSpec
CONSTANTS
    Upload = {"empty", "short", "short2", "long"}
    Earlier = {"short2"}
    Bytes <- MCBytes
    Length <- MCLength
    Holds = 2
    Copies = 9
    Workers = 2
    PatchParts = 2
    MaxFaults = 2
INVARIANTS
    StoredIntact
    NothingLeaked
    ReadersFindChunks
    ForgottenOnlyWhenVerified
PROPERTIES
    Synchronizes
    SpaceReturns
