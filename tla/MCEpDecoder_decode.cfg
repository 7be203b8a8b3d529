SPECIFICATION MCSpec
CONSTANTS
    Schema <- MCMessages
    MaxGroupDepth = 2
INVARIANTS
    TypeOK
    EndsNested
    SpotsLinked
    DecodesAsReference
PROPERTIES
    ReaderAdvances
