SPECIFICATION Spec
CONSTANTS
    Size = 3
    MaxWrite = 2
    Rest = 1
    PacketSize = 2
    Kernel = 2
    MaxBlocks = 4
    MaxConnections = 2
INVARIANTS
    TypeOK
PROPERTIES
    ImplementsPipe
    WakeUpsArrive
CHECK_DEADLOCK FALSE
