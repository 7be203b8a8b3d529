SPECIFICATION EmptyGroupSpec
CONSTANTS
    Schema <- MCMessages
    Message <- MCMessage
    Term <- MCTerm
    Depth <- Nesting
    EncInit = 16
    Failing = {0}
    MaxGroupDepth = 2
INVARIANTS
    EncodesFaithfully
