SPECIFICATION Spec
CONSTANTS
    Layers = 2
    MaxForwards = 3
    Check = TRUE
    RaiseAfter = 2
INVARIANTS GatherExact LookupUndisturbed
CHECK_DEADLOCK FALSE
