SPECIFICATION ClientSpec
SYMMETRY MCSymmetry
CONSTANTS
    k1 = k1
    Threads = {t1, t2}
    Processes = {p1, p2}
    Keys = {k1, k2, k3, k4}
    ChainOf <- MCChainOf
    MaxEntries = 2
    MaxCalls = 4
    MaxSecond = 1
INVARIANT CacheBounded
CHECK_DEADLOCK FALSE

