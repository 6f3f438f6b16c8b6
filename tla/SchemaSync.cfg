SPECIFICATION SyncSpec
CONSTANTS
    a = a
    b = b
    c = c
    doc = doc
    editor = editor
    viewer = viewer
    read = read
    cav = cav
    plain = plain
    nested = nested
    open = open
    strict = strict
    t1 = t1
    t2 = t2
    None = None
    All = All
    NoSync = NoSync
    Order <- MCOrder
    KindOf <- MCKinds
    ParentOf <- MCParents
    Texts <- MCTexts
    NamesIn <- MCNames
    AppOrder <- InstalledApps
    ByName <- Alphabetical
    Releases <- MCReleases
    Edits <- MCEdits
    Tightenings <- MCTightenings
    Tuples <- MCTuples
    NamedBy <- MCNamed
    Modes <- Calls
    MaxPk = 10
    MaxSteps = 6
CHECK_DEADLOCK FALSE
INVARIANTS
    SyncTypeOK
    SyncConverges
PROPERTIES
    UpgradesKeepEdits
    RetirementIsComplete
