SPECIFICATION FairSpec
CONSTANTS
    t1 = t1
    t2 = t2
    Topics <- OneTopic
    FinalScore <- SingleScore
    Users = {u1}
    NoFile = NoFile
    MaxRounds = 0
    MaxFaults = 0
PROPERTY
    ConfirmedGetsWritten
CHECK_DEADLOCK FALSE
