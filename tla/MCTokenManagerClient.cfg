CONSTANTS
    Threads = {t1, t2, t3}
    Calls = {"create", "get", "unregister"}
    MaxIncarnations = 3
    MaxLinks = 2
    NoThread = none
SPECIFICATION FairSpec
INVARIANTS
    CachedManagerObserved
    CrashOnlyAfterUnlockedFailure
PROPERTIES
    DeadManagerForgotten
\* A crash of the process ends its behaviour.
CHECK_DEADLOCK FALSE
