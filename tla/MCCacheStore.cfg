CONSTANTS
    Clients = {c1, c2}
    Keys = {k1, k2}
    Temps = {t1, t2}
    Sizes = {1, 2}
    MaxSize = 2
    MaxClock = 0
    MaxCounted = 1
    LruKeys = {"a", "b", "c"}
    LruSizes = {1, 2, 5}
    LruMax = 4
SPECIFICATION MCSpec
INVARIANTS
    SizeIsExact
    EntriesAreKeptWhole
    LruKeepsTheMostRecent
PROPERTIES
    SetMakesRoom
    QueueIsServed
CHECK_DEADLOCK FALSE
