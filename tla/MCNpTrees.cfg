SPECIFICATION MCSpec
CONSTANTS
    FFids = {x1, x2}
    Workers = {w1, w2}
    Names = {a, b}
    MaxFiles = 2
    MaxLost = 1
    MaxLen = 2
    UFids = {x1, x2}
    UNames = {a, b}
    MaxInodes = 2
    MaxFds = 2
SYMMETRY Symmetry
INVARIANTS
    NpFileTypeOK RefExact PoliteSafe TreeSound DirAll
    CopyInside WriteKept ExclOnce
    FdOwned MappedWhole
PROPERTY RestoreSame
CHECK_DEADLOCK FALSE
