CONSTANTS
    Producers = {p1, p2}
    Consumers = {c1, c2}
    Items = {a, b}
    Limit = 2
    MaxAccepted = 4
SPECIFICATION FairSpec
INVARIANTS
    BoundedFifo
    NoLostWakeup
PROPERTIES
    BlockedConsumerWakes
