SPECIFICATION OverridesSpec
CONSTANTS
    Nil = Nil
    Relations <- MCRelations
    Gone <- MCGone
    Permissions <- MCPermissions
    Expressions <- MCExpressions
    DepthOf <- MCDepthOf
    MaxDepth = 2
    Baseline <- MCBaseline
    Forms <- MCForms
    FirstRows <- MCFirstRows
    FirstFacts <- MCFirstFacts
    Decides <- MCDecides
    StoredCaveat = "runtime"
    Kinds = {"check", "all", "many", "list", "build"}
    Never <- MCNever
    MaxTime = 2
    FirstRevision = 3
    LastRevision = 4
    MaxAsks = 1
    Writable <- MCWritable
INVARIANTS
    SplitReadsFollowOnePolicy
CHECK_DEADLOCK FALSE
