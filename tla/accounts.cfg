SPECIFICATION Spec
CONSTANTS
    Users = {u1, u2}
    Browsers = {b1, b2}
    Nobody = nobody
    Passwords = {p1, p2}
    FirstPassword = p1
    Requests = {r1, r2}
    AccessLife = 2
    RefreshLife = 3
    LastSecond = 3
    MaxRequests = 4
    Faults = {"stop", "lost"}
SYMMETRY Symmetry
INVARIANTS
    TypeOK
    OneLiveToken
    LogoutEndsSession
    CookieIsLive
PROPERTIES
    RevokedStaysRevoked
CHECK_DEADLOCK FALSE
