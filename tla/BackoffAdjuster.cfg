CONSTANTS
    Requests = {r1, r2}
    Timeouts = {0, 1, 2, 8}
    Hours = {1, 2, 4}
    Hour = 4
    INT_MAX = 15
SPECIFICATION FairSpec
INVARIANTS PeriodBounded
PROPERTIES AssertionsHold ServerSpared RetriedAgain
