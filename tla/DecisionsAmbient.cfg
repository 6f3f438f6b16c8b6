SPECIFICATION Spec
CONSTANTS
    t1 = t1
    t2 = t2
    e1 = e1
    e2 = e2
    plain = plain
    other = other
    lively = lively
    c1 = c1
    c2 = c2
    c3 = c3
    None = None
    Threads <- MCThreads
    Checkers <- MCThreads
    Evaluators <- OneEvaluator
    Installable <- Together
    Questions <- PlainAndLive
    LiveQuestions <- LiveOnly
    OwnChanges <- OneOwn
    RemoteChanges <- NoChanges
    AmbientWrites = TRUE
    MaxSize = 1
    MaxScopes = 1
    MaxRevision = 1
    MaxLive = 1
    MaxMarks = 2
INVARIANTS
    AnswersRestOnKnownFacts
    AnswersSeeOwnWrites
