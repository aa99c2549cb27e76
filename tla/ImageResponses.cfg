CONSTANTS
    Requests = {r1, r2, r3, r4}
    Wrapped = {r3, r4}
    MaxBacklog = 1
    None = None
SPECIFICATION ResponseSpec
INVARIANT Bookkeeping
PROPERTIES
    UsesLimiter
    EveryRequestFinishes
