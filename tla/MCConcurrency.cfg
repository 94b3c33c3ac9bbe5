SPECIFICATION AnySpec
CONSTANTS
    Capacity = 4
    MaxBatch = 3
    MaxSequence = 13
    Waiters = {w1, w2}
    TimedWaiters = {w2}
    Releasers = {r1, r2}
    Rounds = 2
    Wakes = {"one", "all"}
    Backends = {"futex", "cv"}
    HalfWord = 16
    NoThread = NoThread
    PoolThreads = {t1, t2}
    Coroutines = {c1}
    Closers = {t1}
    PoolCapacity = 1
    MinConnections = 1
    Holders = {h1, h2, h3, h4, h5}
    Timeouts = {"positive", "zero"}
    NoHolder = NoHolder
    NoClient = NoClient
INVARIANTS
    PayloadsIntact
    NoLostWakeup
    ConnectionsAccounted
PROPERTIES
    ImplementsQueue
    PublishedConsumed
    EventsAllServed
    ServedInOrder
    ConnectionWaitsEnd
CHECK_DEADLOCK FALSE
