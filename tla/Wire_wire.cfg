SPECIFICATION Spec
CONSTANTS
    Radix = 16
    TicksPerMs = 2
    Setups <- MCSetups
    InChunkSize = 16
    NewChunkSizes = {9, 40}
    OutChunkSize = 6
    Channels = {3, 70, 400}
    SaidSteps = {0, 1, 5000}
    MaxSaid = 2
    StartDts <- MCStartDts
    FrameSteps <- MCFrameSteps
    MaxFrames = 4
INVARIANTS
    CommandsUnderstood
    FramesDelivered
CHECK_DEADLOCK FALSE
