CONSTANTS
    Clients = {c1}
    Worker = w
    Tasks = {a}
    Nil = nil
    Limit = 1
    MaxTasks = 2
SPECIFICATION FairSpec
PROPERTIES
    DestroyedWorkerExits
CHECK_DEADLOCK FALSE
