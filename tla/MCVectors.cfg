SPECIFICATION VectorsSpec
CONSTANTS
    p1 = p1
    p2 = p2
    a = a
    b = b
    ret = ret
    m1 = m1
    m2 = m2
    Absent = Absent
    Paths = {p1, p2}
    Contents = {a, b, ret}
    Active = {a, b}
    Models = {m1, m2}
    DimsOf <- MCDimsOf
    Writers = {w1, w2}
    w1 = w1
    w2 = w2
    q1 = q1
    Queries = {q1}
    Capacity = 1
    Batch = 1
    Attempts = 2
    Passes = 2
    StalePerTick = 1
    Starts <- MCStarts
    MaxEvents = 2
    RedFailureThreshold = 2
INVARIANTS
    RowsCurrent
PROPERTIES
    
    CatchesUp
