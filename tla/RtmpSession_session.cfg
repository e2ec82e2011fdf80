SPECIFICATION Spec
CONSTANTS
    MaxAttempts = 2
    MaxConnections = 4
    MaxExtra = 1
    MaxMedia = 2
    Window = 2
    HasCredentials = TRUE
INVARIANTS
    TypeOK
    ConversationLegal
    EndIsTold
    
CHECK_DEADLOCK FALSE
