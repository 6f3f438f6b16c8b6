SPECIFICATION FairSpec
CONSTANTS
    t1 = t1
    t2 = t2
    None = None
    Threads <- ScopedThreads
    Readers <- ScopedThreads
    Writers <- ScopedWriters
    Scopers <- WriterScoper
    NumParts = 2
    Values <- MCValues
    SoundPolicies <- MCSoundPolicies
    FirstPolicies <- MCFirstPolicies
    MaxRevision = 2
    Attempts = 2
    HandlersRead = FALSE
INVARIANTS
    IInv
    FencedByTheVisiblePolicy
    PinsHoldTheirPolicy
    RefusalsAreDeserved
PROPERTIES
    LoadsTerminate
