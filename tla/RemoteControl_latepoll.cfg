CONSTANTS
    Callers = {hotkey}
    Poll = poll
    UserDelays = {0, 2}
    ServerDelays = {1}
    MaxDelay = 2
    Width = 4
    Tokens = {good}
    ValidTokens = {good}
    NoToken = noToken
    MaxAsks = 1
    MaxWishes = 1
    MaxTokens = 0
    MaxStarts = 2
SPECIFICATION Spec
INVARIANTS
    ClearedBetweenStreams
CHECK_DEADLOCK FALSE
