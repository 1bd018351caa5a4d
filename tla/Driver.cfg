SPECIFICATION Spec
CONSTANTS
    Prompts <- SmallPrompts
    Tokens = {"a"}
    Clients = {"k"}
    MaxNew = 1
    MaxTurns = 3
    MaxFaults = 1
    None = None
    NoClient = NoClient
    Garbage = Garbage
    Slack = 0
    Kept = 3
    MaxStores = 2
    MaxBytes = 5
    Resetters = {"k"}
INVARIANTS
    StoresNamed
    PayloadsBacked
    OnOwnText
PROPERTIES
    AbortKeepsPrefix
    CapsKept
