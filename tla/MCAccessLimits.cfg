SPECIFICATION AccessSpec
CHECK_DEADLOCK FALSE
CONSTANTS
    u1 = u1
    u2 = u2
    g1 = g1
    r1 = r1
    r2 = r2
    None = None
    Users = {u1, u2}
    Guests = {g1}
    Requests = {r1, r2}
    Grantable = {"owner", "admin"}
    BootstrapAdmins = {u1, u2}
    Base = 1
    Anonymous = 1
    Multiplier <- MCMultiplier
    Window = 1
    CacheTtl = 1
    DailyLimit = 1
    MaxTime = 3
SYMMETRY MCSymmetry
INVARIANT RetryAfterSuffices
PROPERTY OwnerRemains
