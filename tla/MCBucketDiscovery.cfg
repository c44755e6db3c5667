\* One crash, error or throttle anywhere while a catalogue with a too dense
\* millisecond and an unservable page is discovered.
CONSTANTS
    Product <- MixedProduct
    CreatedAt <- MixedCreatedAt
    Oldest = 1
    Newest = 3
    YearOf <- MCYearOf
    YearStart <- MCYearStart
    EndSlack = 1
    PageSize = 1
    DepthLimit = 1
    Known <- MixedKnown
    Broken <- LastPageBroken
    JobId = {1, 2, 3, 4}
    PlanAttempts = 2
    JobAttempts = 1
    SweeperMax = 1
    KeepFailed = 1
    MaxPlans = 1
    MaxFaults = 1
SPECIFICATION Spec
INVARIANTS
    NoSilentLoss
    
    FlaggedOnlyIfDense
PROPERTIES
    ImplementsDiscovery
CHECK_DEADLOCK FALSE
