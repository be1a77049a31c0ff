\* Two clients that pipeline, two handlers at once, two workers.
SPECIFICATION Spec
CONSTANTS
    Sessions = {s1, s2}
    Requests = {r1, r2}
    NoSession = NoSession
    MinIdle = 1
    MaxIdle = 1
    Prewarm = TRUE
    MaxWorkers = 2
    MaxSeq = 1
    Pipelined = TRUE
SYMMETRY Symmetry
INVARIANTS
    TypeOK
    WorkersExclusive
    RegistryComplete
    TableMatchesPool
    LeaseAccounted
    IdleBounded
    LiveSessionsApart
PROPERTIES
    CleanHandover
    
    LeaseContract
CHECK_DEADLOCK FALSE
