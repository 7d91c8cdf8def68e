SPECIFICATION FairSyncSpec
CONSTANTS
    d1 = d1
    d2 = d2
    Device = {d1}
    Edit = {"a1", "a2", "b1"}
    Writes1 = {"a1", "a2"}
    Writes2 = {}
    Item = {"x"}
    Field = {"f", "g"}
    ItemOf <- MCItemOf
    FieldOf <- MCFieldOf
    Writes <- MCWrites
    Direct = {"b1"}
    Blind = {"b1"}
    Rejectable = {"a2"}
    RefuseWithin = 2
    Unreliable = {d1}
    MaxTries <- MCMaxTries
    Tries1 = 3
    Tries2 = 1
    MaxOpen = 1
    BatchLimit = 2
    PageLimit = 2
INVARIANTS
    NothingDropped
    AcceptedOnce
    OnlyBlockedIsHidden
    ConflictsAreReal
    NoChangeSkipped
PROPERTIES
    Converges
