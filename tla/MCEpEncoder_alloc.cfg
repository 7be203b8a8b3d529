SPECIFICATION AllocSpec
CONSTANTS
    Schema <- MCMessages
    Message <- MCMessage
    Term <- MCTerm
    Depth <- Nesting
    EncInit = 16
    Failing = {0, 1}
    MaxGroupDepth = 2
INVARIANTS
    WritesInBounds
