SPECIFICATION Spec
CONSTANTS
    t1 = t1
    t2 = t2
    Topics <- OneTopic
    FinalScore <- SingleScore
    Users = {}
    NoFile = NoFile
    MaxRounds = 2
    MaxFaults = 0
PROPERTY
    ConfirmedOnce
CHECK_DEADLOCK FALSE
