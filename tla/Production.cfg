SPECIFICATION Spec
CONSTANTS
    MaxSegments = 2
    PoolSize = 2
    Jobs = {j1, j2}
    MaxRounds = 2
    MaxSecond = 1
    MaxEdits = 1
    Missing = Missing
    Partial = Partial
    Platforms <- MCPlatforms
    BrowserPlatforms <- MCBrowser
    VideoPlatforms <- MCBrowser
INVARIANTS TypeOK FinishedArticleIsWhole CritiqueScoreIsOfTheText MixedPostsWereCrowded NoPictureTwice
CHECK_DEADLOCK FALSE
