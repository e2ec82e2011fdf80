SPECIFICATION Spec
CONSTANTS
    MaxAddresses = 4
    MaxAttempts = 6
    Errors = {1, 2}
    LaunchError = 3
INVARIANTS
    TypeOK
    UsedStaysOpen
    RaceDecided
PROPERTIES
    EndsClosed
CHECK_DEADLOCK FALSE
