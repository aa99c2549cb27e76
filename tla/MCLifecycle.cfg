SPECIFICATION FairSpec
CONSTANTS
    Processes = {p1, p2, p3}
    Builds = {1, 2}
    cache_version <- MCCacheVersion
    LockTries = 2
    MaxIdle = {0, 999, 1000}
INVARIANTS NameMeansReady CachesUncontended NoForeignEntries
PROPERTIES EveryStartSettles
CHECK_DEADLOCK FALSE
