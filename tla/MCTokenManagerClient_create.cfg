CONSTANTS
    Threads = {t1}
    Calls = {"create"}
    MaxIncarnations = 1
    MaxLinks = 2
    NoThread = none
SPECIFICATION Spec
INVARIANTS
    NoNullDereference
CHECK_DEADLOCK FALSE
