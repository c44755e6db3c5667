\* One product, a rename and two changes of the shop, one failure anywhere.
CONSTANTS
    Product = {p1}
    Handle = {"h1", "h2"}
    FirstHandle <- OneFirstHandle
    Answer <- EveryAnswer
    Slot = {1, 2}
    Runs <- TwoSlots
    MaxLoad = 3
    MaxEdits = 1
    MaxFaults = 1
SPECIFICATION FairSpec
INVARIANTS
    OffersFromAnswers
PROPERTIES
    OffersRepaired
    MarksRepaired
CHECK_DEADLOCK FALSE
