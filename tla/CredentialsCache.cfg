CONSTANTS
    Callers = {c1, c2, c3}
    Peers = {p1, p2, p3}
    MaxCacheSize = 1
    None = None
SPECIFICATION FairCredentialsSpec
PROPERTIES
    AnswersAreGenuine
    LoopUndisturbed
    EveryCallerAnswered
