\* Two workers, two runs: overlapping flushes, one failure, crash or stop.
CONSTANTS
    a = a
    b = b
    Variant = {a, b}
    Answer <- MCAnswer
    p1 = p1
    r1 = r1
    r2 = r2
    w1 = w1
    w2 = w2
    Worker = {w1, w2}
    Product = {p1}
    Run = {r1, r2}
    TokenPipeline = FALSE
    BatchSize = 2
    MaxConcurrentFlushes = 2
    ShutdownHooks = TRUE
    MaxItems = 3
    MaxFaults = 1
    MaxStops = 1
SPECIFICATION Spec
CONSTRAINT OneMishap
INVARIANTS
    OneHome
    CountedOnce
    LastAnswerShown
SYMMETRY Symmetry
CHECK_DEADLOCK FALSE
