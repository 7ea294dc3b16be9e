SPECIFICATION FairSpec
CONSTANTS
    t1 = t1
    t2 = t2
    Topics <- TwoTopics
    FinalScore <- Ascending
    Users = {u1}
    NoFile = NoFile
    MaxRounds = 2
    MaxFaults = 1
INVARIANTS
    TypeOK
    AutoConfirmsAccounted
    ConfirmsAreNotAhead
    PickedStaysPut
PROPERTIES
    TopicsAreKept
    SomeTopicConfirmed
CHECK_DEADLOCK FALSE
