\* One turn through any two disturbances, a delete racing its submit.
CONSTANTS
    Sessions = {s1}
    MaxSessions = 1
    MaxTurns = 1
    MaxHandlers = 2
    MaxRuns = 2
    MaxDisturbances = 2
    RedFailureThreshold = 2
SPECIFICATION FairSpec
INVARIANT NoSilentVerdict
PROPERTY EveryTurnSettles
