\* Two sessions at a cap of one, a second turn that supersedes the first,
\* one disturbance.
CONSTANTS
    Sessions = {s1, s2}
    MaxSessions = 1
    MaxTurns = 2
    MaxHandlers = 1
    MaxRuns = 2
    MaxDisturbances = 1
    RedFailureThreshold = 2
SPECIFICATION Spec
INVARIANTS OneUnanswered NoLeakedEntry
 
