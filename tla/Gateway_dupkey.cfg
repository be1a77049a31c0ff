\* One session whose client has two key events in flight.
SPECIFICATION Spec
CONSTANTS
    Sessions = {s1}
    Requests = {r1, r2}
    NoSession = NoSession
    MinIdle = 0
    MaxIdle = 1
    Prewarm = FALSE
    MaxWorkers = 2
    MaxSeq = 2
    Pipelined = TRUE
PROPERTIES
    KeysInOrder
CHECK_DEADLOCK FALSE
