SPECIFICATION FairSpec
CONSTANTS
    r1 = r1
    r2 = r2
    r3 = r3
    a1 = a1
    a2 = a2
    NoRequest = NoRequest
    Request = {r1, r2, r3}
    Action = {a1, a2}
    ActionOf <- OfThree
    Concurrency = 1
    QueueLimit = 1
    MaxFault = 2
CONSTRAINT TwoFaultsOfTwo
INVARIANTS LaneIsTrue CommitIsRemembered RunsOnce AnswerIsTrue
PROPERTIES RequestsEnd
CHECK_DEADLOCK FALSE
