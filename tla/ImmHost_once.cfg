\* An IME that announces nothing late and leaves its result until the next
\* composition.
SPECIFICATION Spec
CONSTANTS
    Clients = {a}
    MaxCtxs = 1
    MaxTexts = 1
    MaxPending = 2
    KeyActs = {"ignore", "compose", "post"}
    NotifyActs = {"ignore"}
    LateActs = {}
INVARIANTS
    DeliveredOnce
CHECK_DEADLOCK FALSE
