SPECIFICATION Spec
CONSTANTS
    Clients = {c1, c2, c3}
    Borrowers = {c1, c2, c3}
    Async = {c2}
    Provisioners = {c1}
    Closers = {c3}
    Capacity = 2
    BitsPerWord = 1
    NoClient = NoClient
INVARIANTS
    OwnershipAccounted
    WaitersCounted
    NobodyForgotten
CHECK_DEADLOCK FALSE
