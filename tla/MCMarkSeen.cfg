SPECIFICATION MarkFairSpec
CONSTANTS
    Accounts = {a1, a2}
    MaxWorkers = 2
    PerAccountLimit = 1
    MaxCalls = 3
    MaxCrashes = 1
    Fleeting = {a1}
INVARIANTS
    MarkTypeOK
    PermitsConserved
    RecordedIsCarriedOut
    OlderMarkOnlyAfterError
    OnlyErrorsOutlived
PROPERTIES
    EveryCallSettles
    EveryRequestAnswered
