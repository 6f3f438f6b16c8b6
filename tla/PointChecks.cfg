SPECIFICATION Spec
CONSTANTS
    a = a
    b = b
    c = c
    d = d
    kt = kt
    kf = kf
    ku = ku
    kw = kw
    plain = plain
    Plain = plain
    Keys = {kt, kf, ku, kw}
    Verdict <- MCVerdict
    Objects = {a, b, c, d}
    Viewers <- ChainViewers
    Bans <- ChainBans
    Parents <- ChainParents
    Linkable = {a}
    Askable = {a}
    DepthLimit = 2
    MaxWrites = 1
INVARIANTS
    TypeOK
    HasIsJustified
    DepthIsExact
    ConditionalsCanBeDecided
