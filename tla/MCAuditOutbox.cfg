SPECIFICATION FairSpec
CONSTANTS
    MaxRows = 3
    Limit = 2
    AttemptsMax = 2
    MaxInterruptions = 2
INVARIANTS
    TypeOK
    DeliveredIsLogged
    LogMatchesChanges
    DuplicatesAccounted
PROPERTIES
    EventuallySettled
    ImplementsDelivery
