SPECIFICATION Spec
CONSTANTS
    a1 = a1
    a2 = a2
    t1 = t1
    t2 = t2
    q1 = q1
    q2 = q2
    i1 = i1
    Nobody = Nobody
    Bypass = Bypass
    Refused = Refused
    Undecided = Undecided
    NoRows = NoRows
    NoRead = NoRead
    NoStream = NoStream
    NotRelated = NotRelated
    Actors <- MCActors
    Tasks <- MCTasks
    Instances <- MCInstances
    Strict = TRUE
    Programs <- Applications
    QuerySets <- MCQuerySets
    Roots <- OneTask
    MaxEntries = 2
    MaxBlocks = 2
    MaxSteps = 6
SYMMETRY Interchangeable
CHECK_DEADLOCK FALSE
INVARIANTS
    TypeOK
    AuthorityStaysInItsPlace
    ReadsFollowTheirAuthority
    BypassesAreAudited
