\* One worker, one flush at a time, no failure.
CONSTANTS
    a = a
    b = b
    Variant = {a, b}
    Answer <- MCAnswer
    p1 = p1
    r1 = r1
    w1 = w1
    Worker = {w1}
    Product = {p1}
    Run = {r1}
    TokenPipeline = FALSE
    BatchSize = 2
    MaxConcurrentFlushes = 1
    ShutdownHooks = FALSE
    MaxItems = 2
    MaxFaults = 0
    MaxStops = 0
SPECIFICATION Spec
INVARIANTS
    LastOccurrenceKept
CHECK_DEADLOCK FALSE
