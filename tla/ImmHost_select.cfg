\* An IME that ignores the number key and commits when asked to, inside
\* ImmGenerateMessage.
SPECIFICATION Spec
CONSTANTS
    Clients = {a}
    MaxCtxs = 1
    MaxTexts = 1
    MaxPending = 2
    KeyActs = {"ignore", "compose"}
    NotifyActs = {"ignore", "silent"}
    LateActs = {}
PROPERTIES
    SelectTextKept
CHECK_DEADLOCK FALSE
