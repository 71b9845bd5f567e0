SPECIFICATION Spec
CONSTANTS
    Browsers = {b1, b2}
    Passwords = {p}
    IdCount = 4
    Lifetime = 2
    MaxSessions = 2
    LoginCount = 1
    Window = 1
    RateKeys = 1
    Changes = 2
    None = None
INVARIANTS SessionsFollowPassword NoOrphanSession GuessesBounded
PROPERTIES LoginSticks
SYMMETRY Same
CHECK_DEADLOCK FALSE
