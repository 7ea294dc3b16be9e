SPECIFICATION FairSpec
CONSTANTS
    k1 = k1
    k2 = k2
    Threads = {t1}
    Processes = {p1}
    Keys = {k2}
    ChainOf <- MCChainOf
    MaxEntries = 1
    MaxCalls = 2
    MaxSecond = 0
    CallCost = 6
    Budget = 7
    MaxFaults = 1
    NoFile = NoFile
INVARIANTS TypeOK UsageIsKept OvercountsAreFaults
PROPERTY ExceededGetsAlerted
