CONSTANTS
    Recipients = {r1, r2}
    NoRecipient = NoRecipient
    Cookies = {c1, c2}
    Flags = {0, 1}
    MaxLinks = 3
    Proxies = {p1, p2}
SPECIFICATION MCSpec
INVARIANTS
    LinkedIffListed
    TokenReleased
PROPERTIES
    DeathIsTold
