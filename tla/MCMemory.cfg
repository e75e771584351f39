SPECIFICATION MCSpec
CONSTANTS
    Turns = {t1, t2}
    Contents = {1, 2}
    UserOnly = {2}
    Sessions = {s1, s2}
    Places = {1, 2, 3, 4}
    Limit = 3
    MaxAttempts = 2
    MaxCrashes = 1
INVARIANT KeepsOne
PROPERTY DuplicatesSettle
CHECK_DEADLOCK FALSE
