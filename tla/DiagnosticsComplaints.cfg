CONSTANTS
    NumTools = 1
    Concurrency = 2
SPECIFICATION Spec
INVARIANTS
    ComplaintsAreCollected
CHECK_DEADLOCK FALSE
