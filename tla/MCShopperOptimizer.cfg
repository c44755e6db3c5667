\* An optimization whose store has a cheaper copy in a condition that is ruled out.
CONSTANTS
    p1 = p1
    p2 = p2
    a = a
    b = b
    l1 = l1
    l2 = l2
    n1 = n1
    n2 = n2
    known = known
    unknown = unknown
    None = None
    Offer = {a, b}
    CardOf <- MCCardOf
    Store = {a, b}
    StoreOf <- MCStoreOf
    Mount = {1, 2}
    MaxFills = 2
    MaxEvents = 1
    Principal = {p1, p2}
    Variant = {a, b}
    MaxCartItems = 2
    CheckoutLimit = 1
    StoredCarts <- MCStoredCarts
    MaxCalls = 3
    MaxChanges = 2
    List = {l1, l2}
    Card = {known, unknown}
    Known = {known}
    Name = {n1, n2}
    StoredLists <- MCStoredLists
    MaxLists = 1
    MaxLength = 2
    Contents <- MCContents
    MaxListCalls = 2
    MaxSent = 3
    Entry = {1, 2}
    EntryCard <- MCEntryCard
    Prefers <- MCPrefers
    Copy <- MCCopy
    Shop = {1, 2}
    Shipping <- MCShipping
    Request <- MCRequest
    Dollar = 1
SPECIFICATION MCSpec
INVARIANTS
    RequestedConditionFound
SYMMETRY Swap
CHECK_DEADLOCK FALSE
