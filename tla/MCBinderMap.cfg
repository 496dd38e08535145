CONSTANTS
    Threads = {t1, t2, t3}
    Ifaces = {i1, i2}
    Binders = {b1, b2, b3, b4, b5}
    None = none
SPECIFICATION Spec
SYMMETRY Symmetry
INVARIANTS
    Canonical
    Findable
    NoStaleEntry
    DestroyedOnce
