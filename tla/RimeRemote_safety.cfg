\* Two engines, calls lost before and after the host acts.
SPECIFICATION Spec
CONSTANTS
    Engines = {e1, e2}
    MaxSessions = 2
    MaxPreedits = 1
    Faults = {"lost", "cut"}
SYMMETRY EngineSymmetry
INVARIANTS
    TypeOK
    
    NoLeak
    Shown
    Drained
\* The bound on sessions ends every behaviour.
CHECK_DEADLOCK FALSE
