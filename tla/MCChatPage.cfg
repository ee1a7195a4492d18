CONSTANTS
    Streams = {1, 2}
    CHAT_CHANNEL_CAPACITY = 1
    REOPEN_MAX = 1
    MaxRows = 4
    MaxAsks = 1
    MaxTroubles = 1
SPECIFICATION Spec
INVARIANT KeptLive
CHECK_DEADLOCK FALSE
