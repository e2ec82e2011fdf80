CONSTANTS
    Profiles = {p, q}
    Accounts = {a, b, local}
    RtmpAccounts = {a, b}
    NoService = noService
    MaxEdits = 2
    MaxCrashes = 1
SPECIFICATION Spec
INVARIANTS
    
    SameAccount
    ModeKnown
