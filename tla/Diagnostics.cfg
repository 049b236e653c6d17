CONSTANTS
    NumTools = 3
    Concurrency = 2
SPECIFICATION Spec
INVARIANTS
    ChildrenWithinLimit
PROPERTIES
    AbortSettles
CHECK_DEADLOCK FALSE
