SPECIFICATION FairSpec
CONSTANTS
    Attempts = 4
    Timeout = 2
    Sources = {"file", "send"}
    LastCall = 2
CHECK_DEADLOCK FALSE
INVARIANTS
    TypeOK
    DecisiveOutcomeIsLast
    BacksOff
    WithinBudget
PROPERTIES
    ImplementsFetcher
    Terminates
