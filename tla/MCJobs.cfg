\* Refreshes with one failure or crash and one change at the shop, the sweeping of a
\* broken bucket, a drain with one failed flush, and pairs of products to be matched.
CONSTANTS
    a = a
    b = b
    k = k
    x = x
    y = y
    s1 = s1
    w1 = w1
    p1 = p1
    r1 = r1
    None = None
    Out = Out
    Gone = Gone
    Offer = {a, b}
    Card = {k}
    CardOf <- MCCardOf
    Batch = {x, y}
    BatchOf <- MCBatchOf
    StoreOf <- MCStoreOf
    Price = {1, 2}
    Beginning <- MCBeginning
    Attempts = 2
    MaxClicks = 1
    MaxChanges = 1
    MaxFaults = 1
    Printing <- MCPrinting
    Token <- MCToken
    Title <- MCTitle
    Exact <- MCExact
    FrontFace <- MCFrontFace
    Similar <- MCSimilar
    SetName <- MCSetName
    Named <- MCNamed
    Containing <- MCContaining
    TokenSimilar <- MCTokenSimilar
    Offered <- MCOffered
    Catalogue <- MCCatalogue
    MaxMatches = 2
SPECIFICATION MCSpec
INVARIANTS
    NothingInvented
    FindsThePrinting
PROPERTIES
    ProgressHonest
    SweeperSettles
    EveryProductResolved
    EverythingFlushed
    RefreshReleased
CHECK_DEADLOCK FALSE
