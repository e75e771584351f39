SPECIFICATION FairSpec
CONSTANTS
    None = None
    Users = {u1}
    Guests = {g1}
    Slots = {p1, p2}
    Keys = {k1}
    MaxTurns = 2
    MaxSessions = 2
    MaxDay = 1
    Quota = 1
    Threshold = 2
INVARIANTS
    SeqsGapFree
    RetryFindsItsAnswer
    QuotaOverrunBounded
    ContextIsWhole
PROPERTY EveryTurnEnds
CHECK_DEADLOCK FALSE
