SPECIFICATION FairSpec
CONSTANTS
    RateLimit = 2
    Window = 2
    PageLimits <- AnyLimit
    MaxUid = 3
    MaxOthers = 1
    MaxFailures = 1
INVARIANTS
    TypeOK
    ListedExactlyOnce
PROPERTIES
    WindowExact
    ListingEnds
