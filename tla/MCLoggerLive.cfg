CONSTANTS
    Sinks = {a}
    Registered = {a}
    Producers = {p}
    Registrars = {r}
    Closers = {c}
    Janitor = j
    Constructor = k
    Capacity = 1
    OwnedPool = TRUE
    MaxLevel = 1
    MaxLogs = 1
    MaxFaults = 2
    MaxChanges = 1
    MaxMaintain = 1
SPECIFICATION FairSpec
PROPERTIES LifecycleEnds JanitorRepairs
CHECK_DEADLOCK FALSE
