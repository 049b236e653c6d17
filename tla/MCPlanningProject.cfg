CONSTANTS
    Absent = Absent
    Nothing = Nothing
    p1 = p1
    p2 = p2
    p3 = p3
    main = main
    next = next
    Procs = {p1, p2, p3}
    Streams = {main, next}
    Repos = "found"
    Catalog = {"small", "large"}
    Sessions <- AllSessions
    MaxTries = 1
    MaxKills = 1
    MaxFaults = 1
SPECIFICATION Spec
INVARIANTS
    NoUpdateIsLost
    LockFileHasOwner
    EntriesAreKept
    QuietPlanningIsConsistent
    NothingToDoMeansDone
    WorkIsKept
    SettingsAreKept
    AgentsFollowTheProfile
    KnowledgeIsKept
PROPERTIES
    ExecutedPlansAreKept
    EveryCommandEnds
CHECK_DEADLOCK FALSE
