SPECIFICATION Spec
CONSTANTS
    i1 = i1
    i2 = i2
    i3 = i3
    u1 = u1
    u2 = u2
    Items = {i1, i2}
    NoItem = NoItem
    Users = {u1}
    UserOf <- OneUser
    Adds = {i1}
    DepthCap = 1
    MaxAttempts = 2
    MaxCrashes = 1
    Backend = "up"
    Faults = {"db"}
INVARIANTS
    RunnableIsDurable
    
