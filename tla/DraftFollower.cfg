SPECIFICATION Spec
CONSTANTS
    BlockTokens = 2
    Slots = 2
    MaxRows = 5
    MaxDraft = 2
INVARIANTS
    CellsExact
    ViewKept
    PromiseHolds
