SPECIFICATION Spec
CONSTANTS
    MAXWELEM = 3
    MSizes = {28, 198}
    Lengths = {0, 3}
    Elements = {0, 3, 4}
    Counts = {0, 5}
    Cuts = {0, 1, 4}
    Junk = {0, 2, 70}
    AnyStop = FALSE
    MaxSent = 2
INVARIANTS TypeOK RoundTrip RefusedRightly Framed Filled CutSeen AllMade DirWhole
CHECK_DEADLOCK FALSE
