SPECIFICATION SyncSpec
CONSTANTS
    d1 = d1
    d2 = d2
    Device = {d1, d2}
    Edit = {"a1", "a4", "b2"}
    Writes1 = {"a1", "a4"}
    Writes2 = {"b2"}
    Item = {"x"}
    Field = {"f", "g"}
    ItemOf <- MCItemOf
    FieldOf <- MCFieldOf
    Writes <- MCWrites
    Direct = {}
    Blind = {}
    Rejectable = {}
    RefuseWithin = 0
    Unreliable = {}
    MaxTries <- MCMaxTries
    Tries1 = 2
    Tries2 = 1
    MaxOpen = 1
    BatchLimit = 2
    PageLimit = 2
INVARIANTS
    AcceptedChangesStand
