CONSTANTS
    Vecs = {o1, o2}
    Buffers = {a1, a2, a3}
    MaxSize = 2
    Null = Null
    Handles = {o1, o2}
    Descriptors = {d1, d2}
    Natives = {a1, a2, a3}
    NoNative = NoNative
    Strings = {o1, o2}
    Blocks = {a1, a2, a3}
    Texts <- MCTexts
    kEmptyString = kEmptyString
    Freed = Freed
    Results = {o1, o2, d1}
    Errors = {e1, e2, dead1, dead2}
    DeadObjects = {dead1, dead2}
    Ok = Ok
    Memories = {o1, o2}
    Fds = {a1, a2, a3, a4, a5}
    NoFd = NoFd
    MaxBatch = 2
SPECIFICATION MCSpec
SYMMETRY Symmetry
INVARIANTS
    OwnedOnce
    NoLeak
    ElementsReadable
    HandleClosedOnce
    HandleNoLeak
    StringKeepsValue
    StringBlockHasOneOwner
    ErrorNotSwallowed
    AbortsOnlyOnUnseen
    MappableMemoryIsWhole
    FdsAccountedFor
\* LOG(FATAL) ends the process.
CHECK_DEADLOCK FALSE
