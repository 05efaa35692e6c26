SPECIFICATION Spec
CONSTANTS
    Reqs = {r1, r2}
    Workers = {w1, w2}
    Reader = Reader
    Stopper = Stopper
    None = None
    MaxPools = 3
    EarlyShutdown = FALSE
INVARIANTS TypeOK ConnRefExact TransOnce HandlerInSession VersionWoken
SYMMETRY Symmetry
CHECK_DEADLOCK FALSE
