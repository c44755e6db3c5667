\* A matched product whose new title matches nothing; nothing else goes wrong.
CONSTANTS
    Product = {p1}
    Handle = {"h1"}
    FirstHandle <- OneFirstHandle
    Answer <- CardOrNothing
    Slot = {1, 2}
    Runs <- TwoSlots
    MaxLoad = 2
    MaxEdits = 1
    MaxFaults = 0
SPECIFICATION FairSpec
PROPERTIES
    KnownUpdated
CHECK_DEADLOCK FALSE
