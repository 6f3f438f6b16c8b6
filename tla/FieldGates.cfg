SPECIFICATION Spec
CONSTANTS
    r1 = r1
    r2 = r2
    Null = Null
    Absent = Absent
    Copy = Copy
    Unset = Unset
    Rows <- MCRows
    Related <- MCRelated
    Values = {1, 2}
    Starts <- MCStarts
    FirstRows <- MCFirstRows
    Queries <- MCQueries
    MaxChanges = 1
    MaxOps = 3
CHECK_DEADLOCK FALSE
INVARIANTS
    IInv
    HiddenValuesStayHidden
PROPERTIES
    WritesKeepTheFieldGates
