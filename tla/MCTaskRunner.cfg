CONSTANTS
    Clients = {c1, c2}
    Worker = w
    Tasks = {a, b}
    Nil = nil
    Limit = 2
    MaxTasks = 3
SPECIFICATION FairSpec
INVARIANTS
    NoTaskStranded
    QueueOutlivesCalls
PROPERTIES
    RunsSerially
    RunsEveryTask
    NotedWorkerExits
\* A destroyed runner whose worker has exited has nothing left to do.
CHECK_DEADLOCK FALSE
