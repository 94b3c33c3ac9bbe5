CONSTANTS
    Sinks = {a, b}
    Registered = {a}
    Producers = {p}
    Registrars = {r}
    Closers = {c}
    Janitor = j
    Constructor = k
    Capacity = 2
    OwnedPool = FALSE
    MaxLevel = 1
    MaxLogs = 2
    MaxFaults = 1
    MaxChanges = 1
    MaxMaintain = 1
SPECIFICATION MCSpec
INVARIANTS RegistryCoherent LossesCounted WrittenInOrder ShutdownDrains
CHECK_DEADLOCK FALSE
