CONSTANTS
    c1 = c1
    c2 = c2
    Calls <- MCCalls
    Concurrency = 1
    MaxRetries = 1
    MaxRepairs = 1
SPECIFICATION Spec
PROPERTIES
    RequestsStayInBounds
    AbortIsNotAProviderFault
    EveryCallSettles
    ImplementsModelCalls
CHECK_DEADLOCK FALSE
