\* Two runs of any kind over two paths and one book.
CONSTANTS
    p1 = p1
    p2 = p2
    Runs = {r1, r2}
    r1 = r1
    r2 = r2
    KindsOf <- AgentAndFallback
    Paths <- TwoPaths
    Texts = {a, b}
    Absent = Absent
    Slugs = {book}
    MaxSteps = 2
    MaxCalls = 2
    MaxHot = 1
    MaxEntries = 1
    MaxTraces = 1
    MaxEvents = 2
    ContextBudget = 3
    ResultCap = 6
    MarkerBytes = 1
    Question = 4
    Answer = 4
    Call = 1
    Small = 7
    Big = 7
SYMMETRY Symmetric
SPECIFICATION Spec
INVARIANTS RequestWellFormed  NothingHidden
CHECK_DEADLOCK FALSE
