CONSTANTS
    Callers = {hotkey}
    Poll = poll
    UserDelays = {1}
    ServerDelays = {7}
    MaxDelay = 2
    Width = 4
    Tokens = {good, bad}
    ValidTokens = {good}
    NoToken = noToken
    MaxAsks = 1
    MaxWishes = 1
    MaxTokens = 1
    MaxStarts = 1
SPECIFICATION FairSpec
INVARIANTS
    TypeOK
PROPERTIES
    ControlRespected
    UnloadCompletes
    StatusHeals
    ServerDecides
CHECK_DEADLOCK FALSE
