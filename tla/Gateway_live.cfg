\* Fair scheduling; MinIdle above MaxIdle, so that every round trims and refills.
\* Each client waits for its answers, although its deadline may have passed
\* while the handler was still waiting.
SPECIFICATION FairSpec
CONSTANTS
    Sessions = {s1, s2}
    Requests = {r1}
    NoSession = NoSession
    MinIdle = 1
    MaxIdle = 0
    Prewarm = FALSE
    MaxWorkers = 2
    MaxSeq = 2
    Pipelined = FALSE
PROPERTIES
    IdleReclaimed
    HandlersFinish
    KeysInOrder
CHECK_DEADLOCK FALSE
