SPECIFICATION FairSpec
CONSTANTS
    Producers = {p1, p2}
    Capacity = 2
    Generations = 2
    MaxBatch = 2
    MaxSequence = 6
INVARIANTS
    PayloadsIntact
PROPERTIES ImplementsQueue ClaimsConsumed
CHECK_DEADLOCK FALSE
