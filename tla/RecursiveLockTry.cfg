SPECIFICATION SpecTrying
CONSTANTS
    Threads = {t1, t2, t3}
    None = None
    MaxDepth = 2
INVARIANT MutualExclusion
CHECK_DEADLOCK FALSE
