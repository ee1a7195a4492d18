SPECIFICATION FairSpec
CONSTANTS
    w1 = w1
    w2 = w2
    w3 = w3
    t1 = t1
    u1 = u1
    u2 = u2
    Waiters = {w1, w2, w3}
    Tries = {t1}
    Users = {u1, u2}
    NoUser = NoUser
    UserOf <- MCUserOf
    CapacityMax = 2
    PerUserMax = 2
PROPERTIES
    ImplementsAdmission
    NoStarvation
