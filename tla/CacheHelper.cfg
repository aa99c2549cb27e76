SPECIFICATION Spec
CONSTANTS
    Threads = {t1, t2, t3}
    MaxObjects = 4
INVARIANT UsableBetweenCalls
PROPERTIES WipedOnlyWhenCorrupt CrashNeedsSharing
CHECK_DEADLOCK FALSE
