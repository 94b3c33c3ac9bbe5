SPECIFICATION FairSpec
CONSTANTS
    Clients = {c1, c2, c3}
    Borrowers = {c2, c3}
    Async = {c3}
    Provisioners = {c1}
    Closers = {c1}
    Capacity = 1
    BitsPerWord = 1
    NoClient = NoClient
PROPERTIES
    QueuedWaitsEnd
CHECK_DEADLOCK FALSE
