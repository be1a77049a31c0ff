\* One engine whose calls may be cut off after the host has acted.
SPECIFICATION Spec
CONSTANTS
    Engines = {e1}
    MaxSessions = 1
    MaxPreedits = 2
    Faults = {"cut"}
PROPERTY KeyOnce
CHECK_DEADLOCK FALSE
