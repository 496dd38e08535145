CONSTANTS
    Recipients = {r1}
    NoRecipient = NoRecipient
    Cookies = {c1}
    Flags = {0, 1}
    MaxLinks = 2
    Proxies = {p1}
SPECIFICATION MCSpec
INVARIANTS
    UnlinkedIsNotTold
