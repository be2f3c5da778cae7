CONSTANTS
    Statuses <- MCStatuses
    MaxKids = 4
    Whitelists <- MCWhitelists
    Calls <- MCCalls
    Memories = {1, 2}
    Unlimited = 3
    BodiesCatch = TRUE
    MaxDepth = 3
    MaxCalls = 4
SPECIFICATION MCSpec
INVARIANTS FlagsDecide
