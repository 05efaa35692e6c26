SPECIFICATION Spec
CONSTANTS
    Reqs = {r1, r2}
    Workers = {w1, w2}
    Reader = Reader
    Stopper = Stopper
    None = None
    MaxPools = 3
    EarlyShutdown = FALSE
INVARIANT WorkingFinished
CHECK_DEADLOCK FALSE
