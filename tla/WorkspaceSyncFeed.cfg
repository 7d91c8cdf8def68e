SPECIFICATION SyncSpec
CONSTANTS
    d1 = d1
    d2 = d2
    Device = {d1, d2}
    Edit = {"a1", "b3"}
    Writes1 = {"a1"}
    Writes2 = {"b3"}
    Item = {"x", "y"}
    Field = {"f", "g"}
    ItemOf <- MCItemOf
    FieldOf <- MCFieldOf
    Writes <- MCWrites
    Direct = {}
    Blind = {}
    Rejectable = {}
    RefuseWithin = 0
    Unreliable = {}
    MaxTries <- MCMaxTries
    Tries1 = 1
    Tries2 = 1
    MaxOpen = 2
    BatchLimit = 2
    PageLimit = 2
INVARIANTS
    NoChangeSkipped
