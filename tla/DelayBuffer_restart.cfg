SPECIFICATION FairSpec
CONSTANTS
    Video = v
    AudioTracks = {a}
    NoTime = none
    Requests = {0, 1}
    MaxDelay = 1
    History = 3
    PruneEvery = 1
    VideoTbUnit = 1
    VideoTbNum = 1
    AudioPeriod = 2
    Gop = 2
    MaxStall = 1
    MaxIdle = 1
    MaxTime = 4
    MaxRequests = 2
    MaxSessions = 2
PROPERTIES
    StopCompletes
    LowerTakesEffect
CHECK_DEADLOCK FALSE
