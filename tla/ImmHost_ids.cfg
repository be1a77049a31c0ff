\* Sessions opened and destroyed in every order.
SPECIFICATION Spec
CONSTANTS
    Clients = {a, b}
    MaxCtxs = 3
    MaxTexts = 1
    MaxPending = 1
    KeyActs = {"ignore"}
    NotifyActs = {"ignore"}
    LateActs = {}
INVARIANTS
    SessionStable
CHECK_DEADLOCK FALSE
