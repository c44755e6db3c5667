\* Overlapping waves of extraction with one fault, and the import of new sets with
\* one failure, crash or lost message.
CONSTANTS
    Store = {s1, s2}
    Activity = {a1, a2}
    MaxRuns = 2
    MaxFaults = 1
    MaxManual = 1
    CardSet = {1, 2}
    Product = {1}
    SetOf <- MCSetOf
    Worker = {w1}
    Task = {t1, t2}
    MaxSyncFaults = 1
SPECIFICATION EitherSpec
INVARIANTS
    CompletedIsKickedOff
    ManualRunsAlone
    RematchSeesTheSet
    
PROPERTIES
    RunsSettle
    MatchedAtLast
CHECK_DEADLOCK FALSE
