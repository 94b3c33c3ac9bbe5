CONSTANTS
    Threads = {t1, t2}
    Coroutines = {c1}
    Closers = {t1}
    Capacity = 1
    MinConnections = 1
    Holders = {h1, h2, h3, h4, h5}
    Timeouts = {"positive", "zero"}
    NoHolder = NoHolder
    NoClient = NoClient
SPECIFICATION Spec
INVARIANTS CapacityRespected
CHECK_DEADLOCK FALSE
