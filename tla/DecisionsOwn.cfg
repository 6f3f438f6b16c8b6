SPECIFICATION Spec
CONSTANTS
    t1 = t1
    t2 = t2
    e1 = e1
    e2 = e2
    plain = plain
    other = other
    lively = lively
    c1 = c1
    c2 = c2
    c3 = c3
    None = None
    Threads <- MCThreads
    Checkers <- OnlyReader
    Evaluators <- TwoEvaluators
    Installable <- Nested
    Questions <- PlainOnly
    LiveQuestions <- NoChanges
    OwnChanges <- OneOwn
    RemoteChanges <- OneRemote
    AmbientWrites = FALSE
    MaxSize = 1
    MaxScopes = 2
    MaxRevision = 2
    MaxLive = 0
    MaxMarks = 2
INVARIANTS
    IInv
    KeptAnswersFit
