SPECIFICATION FairSpec
CONSTANTS
    i1 = i1
    i2 = i2
    i3 = i3
    u1 = u1
    u2 = u2
    Items = {i1}
    NoItem = NoItem
    Users = {u1}
    UserOf <- OneUser
    Adds = {i1}
    DepthCap = 2
    MaxAttempts = 2
    MaxCrashes = 1
    Backend = "flaky"
    Faults = {"key", "disk"}
INVARIANTS
    ReceiptHonest

    
