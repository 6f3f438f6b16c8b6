SPECIFICATION Spec
CONSTANTS
    r1 = r1
    r2 = r2
    c1 = c1
    c2 = c2
    s1 = s1
    s2 = s2
    Gone = Gone
    None = None
    Rows <- MCRows
    Containers <- MCContainers
    Sessions <- MCSessions
    Unscoped = {}
    Kinds <- MCKinds
    FirstRows <- MCFirstRows
    FirstLinks <- MCFirstLinks
    FirstGrants <- MCFirstGrants
    FirstPolicies <- MCFirstPolicies
    MaxWrites = 1
    MaxChanges = 1
CHECK_DEADLOCK FALSE
INVARIANTS
    TypeOK
    WritesAreJudged
    QuerysetWritesAreBounded
    OnlyAuditRowsRemain
