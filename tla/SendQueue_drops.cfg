SPECIFICATION Spec
CONSTANTS
    VideoTracks = 2
    GopLen = 6
    DropThreshold = 1
    PDropThreshold = 2
    Trigger = 1
    Few = 5
    Settings = {200}
    Estimates = {60, 149}
    MaxPackets = 22
    MaxStreams = 2
INVARIANTS
    TypeOK
    SentDecodable
    QueueBounded
    ClimbPending
    BitrateRestored
CHECK_DEADLOCK FALSE
