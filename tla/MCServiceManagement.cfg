CONSTANTS
    Threads = {t1, t2, t3}
    MaxRegistrations = 2
    MaxRestarts = 1
    NoThread = none
SPECIFICATION FairSpec
INVARIANTS
    OneProxy
    WaitIsHonest
    NoLeakedSubscription
PROPERTIES
    ManagerObtained
    WaiterReturns
\* Everybody may be waiting for a service that nobody registers again.
CHECK_DEADLOCK FALSE
