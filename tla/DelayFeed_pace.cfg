SPECIFICATION FeedSpec
CONSTANTS
    Video = v
    AudioTracks = {a}
    NoTime = none
    Requests = {0, 1, 3}
    MaxDelay = 2
    History = 5
    PruneEvery = 1
    VideoTbUnit = 1
    VideoTbNum = 1
    AudioPeriod = 2
    Gop = 2
    MaxStall = 1
    MaxIdle = 0
    MaxTime = 7
    MaxRequests = 2
    MaxSessions = 1
INVARIANTS
    TypeOK
    BatchInTimeline
PROPERTIES
    ImplementsLine
    Decodable
    MuxTimesIncrease
    RaiseRewinds
    PaceKeptByFirstLower
CHECK_DEADLOCK FALSE
