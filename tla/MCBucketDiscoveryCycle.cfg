\* A bucket whose second page is never served: the sweeper's cap.
CONSTANTS
    Product <- SmallProduct
    CreatedAt <- SmallCreatedAt
    Oldest = 1
    Newest = 3
    YearOf <- MCYearOf
    YearStart <- MCYearStart
    EndSlack = 1
    PageSize = 1
    DepthLimit = 2
    Known <- SmallKnown
    Broken <- SecondPageBroken
    JobId = {1, 2, 3}
    PlanAttempts = 1
    JobAttempts = 1
    SweeperMax = 1
    KeepFailed = 2
    MaxPlans = 1
    MaxFaults = 0
SPECIFICATION FairSpec
PROPERTIES
    SweeperSettles
CHECK_DEADLOCK FALSE
