SPECIFICATION Spec
CONSTANTS
    Video = v
    AudioTracks = {a}
    NoTime = none
    Requests = {0, 1, 2}
    MaxDelay = 2
    History = 5
    PruneEvery = 1
    VideoTbUnit = 1
    VideoTbNum = 2
    AudioPeriod = 4
    Gop = 4
    MaxStall = 1
    MaxIdle = 0
    MaxTime = 8
    MaxRequests = 2
    MaxSessions = 1
PROPERTIES
    MuxTimesIncrease
CHECK_DEADLOCK FALSE
