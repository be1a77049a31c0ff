\* Two clients, an IME that does whatever it can, late announcements included.
SPECIFICATION Spec
CONSTANTS
    Clients = {a, b}
    MaxCtxs = 2
    MaxTexts = 2
    MaxPending = 2
    KeyActs = {"ignore", "eat", "compose", "post", "silent", "chars"}
    NotifyActs = {"ignore", "eat", "compose", "post", "silent", "chars"}
    LateActs = {"post", "silent"}
SYMMETRY Symmetry
INVARIANTS
    TypeOK
    
    TableInjective
PROPERTIES
    KeyTextKept
CHECK_DEADLOCK FALSE
