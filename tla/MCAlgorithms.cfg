SPECIFICATION MCSpec
CONSTANTS
    SizeValues = 256
    OffsetValues = 64
    Shapes <- MCShapes
    Libraries = {a, b, c}
    Usable = {a, b}
    Missing = Missing
    LibPaths = 2
    Processes = {p1, p2}
    Impls = {m1, m2}
    NoImpl = NoImpl
    PathCount = 2
    MaxCalls = 2
    Cells = 4
    TargetSizes = {1, 2}
    NullRef = NullRef
    VersionValues = 4
    Errors <- MCErrors
    Exceptions <- MCExceptions
    Texts = {"denied", "missing"}
    TextLengths = {0, 3}
    HeaderSizes = {1, 3}
    Sizes = {0, 1, 2}
CHECK_DEADLOCK FALSE
INVARIANTS
    GrantorsDisjoint
    ArrayIsRowMajor
    CallbacksOnce
    PassthroughGetExact
    ReferencesRoundTrip
    ParcelRoundTrip
