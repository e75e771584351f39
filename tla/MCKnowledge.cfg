SPECIFICATION Spec
SYMMETRY MCSymmetry
CONSTANTS
    d1 = d1
    d2 = d2
    c1 = c1
    c2 = c2
    Docs = {d1, d2}
    Children = {c1, c2}
    Quota = 2
    MaxAttempts = 2
    MaxRetries = 1
    CandidateK = 2
    RrfK = 1
    TopN = 2
    Budget = 2
INVARIANTS BytesKeptForRetry UploadsWithinQuota BlocksDistinct
PROPERTY ReadyStaysReady
CHECK_DEADLOCK FALSE
