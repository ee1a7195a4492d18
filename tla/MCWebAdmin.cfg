CONSTANTS
    Requests = {r1, r2, r3}
    Boot = Boot
    SanSets = {env, other}
    Env = env
    NoFile = NoFile
    Torn = Torn
    MaxKeys = 3
    MaxStrikes = 1
    Readers = {ann, ada}
    Admins = {ada}
    Owners = {ann}
    Books = {b1}
    Nobody = Nobody
    Empty = Empty
    NoConcept = NoConcept
    Tunables = {retention}
    Log = retention
    Low = 1
    High = 2
    Default = 2
    MaxRecords = 3
    MaxSaves = 2
    Streams = {1, 2}
    CHAT_CHANNEL_CAPACITY = 1
    REOPEN_MAX = 1
    MaxRows = 3
    MaxAsks = 2
    MaxTroubles = 1
SPECIFICATION Spec
INVARIANTS   UploadedPairMatches
INVARIANTS ConfirmHolds  SurfacesAgree NoDeadLinks 
SYMMETRY Symmetry
CHECK_DEADLOCK FALSE
