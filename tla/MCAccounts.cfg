\* Two users, three requests, two of them in flight at a time.
CONSTANTS
    Users = {u1, u2}
    Passwords = {p1, p2}
    SessionIds = {s1, s2}
    KeyIds = {k1}
    Tasks = {t1, t2}
    None = None
    FailureLimits = {0, 3}
    LimitMin = 1
    LimitMax = 2
    Requests = {"login", "setup", "change", "rotate", "enroll", "disable", "begin", "finish", "forget", "mint", "revoke", "create", "tune", "logout", "expiry"}
    MaxRequests = 3
    MaxWindows = 1
    MaxRestarts = 1
SYMMETRY Symmetry
SPECIFICATION Spec
INVARIANTS OneMasterKey CardsHonest ChangeEndsSessions ThrottleBound ChallengeUsedOnce
CHECK_DEADLOCK FALSE
