\* A slow handler against the reaper and a newly opened session.
SPECIFICATION Spec
CONSTANTS
    Sessions = {s1, s2}
    Requests = {r1, r2}
    NoSession = NoSession
    MinIdle = 0
    MaxIdle = 1
    Prewarm = FALSE
    MaxWorkers = 2
    MaxSeq = 1
    Pipelined = FALSE
INVARIANTS
    Isolated
CHECK_DEADLOCK FALSE
