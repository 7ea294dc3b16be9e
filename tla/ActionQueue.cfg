SPECIFICATION FairSpec
CONSTANTS
    Kinds <- EveryWay
    Targets = {t1}
    Clients = {c1, c2}
    NoFile = NoFile
    MaxClock = 1
    MaxRequests = 2
    MaxFaults = 1
    DuplicateWindow = 1
INVARIANTS
    TypeOK
    NoRequestLost
    SourceStaysPut
    LaunchesBounded
PROPERTIES
    EveryFileLeaves
    ImplementsDeliveryQueue
