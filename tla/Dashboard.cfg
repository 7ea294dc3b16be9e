SPECIFICATION Spec
CONSTANTS
    Requests = {r1, r2, r3}
    Keys = {k1, k2}
    Corrupt = Corrupt
    Missing = Missing
    Defaults = Defaults
    MaxFaults = 1
    Clients = {c1, c2}
    Limit = 3
    MaxClients = 1
    Minutes = 3
    Agents = {a1, a2, a3}
    TriggerLimit = 2
    MaxAgents = 2
    Sockets = {s1, s2, s3}
    MaxConnections = 2
    MaxChanges = 1
SYMMETRY Symmetry
INVARIANTS TypeOK UpdatesAloneAreKept CacheDiffersByUnsaved WithinLimits HashedIsShown
CHECK_DEADLOCK FALSE
