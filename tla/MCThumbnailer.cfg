SPECIFICATION FairSpec
CONSTANTS
    Requests = {r1, r2}
    Files = {f}
    ContentTypes = {"image", "audio", "video", "gone"}
    Artworks = {a}
    CutShort = FALSE
    Sources <- MCSources
    Requested <- MCRequested
    MaxSize = 4
    RetryAfter = 1
    MaxVersion = 1
    MaxTime = 2
INVARIANTS NeverStale FitsTarget
PROPERTIES ReplySettled FailuresAreKnown AbsenceIsRechecked EveryRequestEnds
CHECK_DEADLOCK FALSE
