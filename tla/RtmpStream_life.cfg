CONSTANTS
    MaxStarts = 3
    MaxStops = 3
    MaxPackets = 2
SPECIFICATION FairSpec
INVARIANTS
    TypeOK
    QueueBacked
    DestroyedAlone
PROPERTIES
    HeadersFirst
    StopAnswered
CHECK_DEADLOCK FALSE
