SPECIFICATION FairSpec
CONSTANTS
    Articles = {a1, a2}
    Editors = {e1, e2}
    NoText = NoText
    NoArticle = NoArticle
    MaxEdits = 2
    MaxFaults = 2
INVARIANTS
    TypeOK
    NewestTextKept
    MarkedIsOnItsWay
    SkippedCopyIsOlder
    FailedSkipWasDone
PROPERTY
    MarkedGetsSkipped
CHECK_DEADLOCK FALSE
