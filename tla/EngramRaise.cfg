SPECIFICATION Spec
CONSTANTS
    Layers = 2
    MaxForwards = 2
    Check = FALSE
    RaiseAfter = 0
INVARIANTS GatherExact
CHECK_DEADLOCK FALSE
