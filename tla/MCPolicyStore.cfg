SPECIFICATION Spec
CONSTANTS
    w1 = w1
    w2 = w2
    base = base
    override = override
    Untouched = Untouched
    NoWriter = NoWriter
    Writers <- MCWriters
    Rows <- MCRows
    Values <- MCValues
    SoundPolicies <- MCSoundPolicies
    MaxRevision = 3
    MaxNesting = 2
INVARIANTS
    OwnerKeepsItsBase
    IInv
PROPERTIES
    SoundnessPreserved
    PublishesHistory
