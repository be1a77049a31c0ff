\* Every backend, every environment of it, a host that may hang or die.
SPECIFICATION FairSpec
CONSTANTS
    MaxOld = 2
    MaxBacklog = 4
INVARIANTS
    TypeOK
    InStep
    ReplyMatches
    OwnKeys
    CommitShown
    RealOnly
PROPERTIES
    BackendContract
    CallProgress
    CallsReturn
CHECK_DEADLOCK FALSE
