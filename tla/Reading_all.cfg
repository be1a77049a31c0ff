\* Every candidate list, composition and key of a bounded shape.
SPECIFICATION Spec
CONSTANTS
    Requested = 9
    MaxCount = 3
    MaxUnits = 3
    LongLists <- Long
INVARIANTS
    MenuIsList
    SamePage
    
    PreeditPlaces
    KeyTypesItself
    SelectsShown
CHECK_DEADLOCK FALSE
