CONSTANTS
    Memories = {1, 2}
    Unlimited = 3
    BodiesCatch = FALSE
    MaxDepth = 2
    MaxCalls = 2
SPECIFICATION FairCage
PROPERTIES NestedTimeBounded
CHECK_DEADLOCK FALSE
