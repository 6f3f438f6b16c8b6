SPECIFICATION Spec
CONSTANTS
    s1 = s1
    s2 = s2
    doc = doc
    user = user
    viewer = viewer
    plain = plain
    cav = cav
    x = x
    y = y
    Gone = Gone
    None = None
    Edges = {viewer}
    Sessions <- MCSessions
    Objects <- MCObjects
    Ends <- MCEnds
    ResourceOf <- MCResourceOf
    Names <- MCNames
    Contexts <- MCContexts
    Batches <- MCBatches
    FirstRows <- MCFirstRows
    Changes <- MCChanges
    Kinds <- MCKinds
    MaxOps <- MCMaxOps
    MaxIds = 3
    Readings <- MCReadings
    FirstFloors <- MCFirstFloors
    MaxXid = 6
CHECK_DEADLOCK FALSE
INVARIANTS
    TypeOK
    WritesLandWhole
    FloorsCoverWrites
    DeletionsAreFinal
PROPERTIES
    FloorsNeverFall
