SPECIFICATION AnySpec
INVARIANTS
    RoutesExact
    RepliesSound
    PhaseDeadlines
    DecodedAsWritten
    ContextSound
    ConfigSound
    ModesAgree
    TextMeansTree
    WorkSound
    ErrorsClassified
    
    SorterSound
CHECK_DEADLOCK FALSE
