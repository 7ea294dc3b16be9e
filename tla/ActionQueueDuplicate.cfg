SPECIFICATION Spec
CONSTANTS
    Kinds <- OnlyConfirm
    Targets = {t1}
    Clients = {c1}
    NoFile = NoFile
    MaxClock = 2
    MaxRequests = 1
    MaxFaults = 0
    DuplicateWindow = 2
PROPERTY
    DuplicatesSuppressed
