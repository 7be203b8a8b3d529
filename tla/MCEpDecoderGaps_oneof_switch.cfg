SPECIFICATION OneofSwitchSpec
CONSTANTS
    Schema <- MCMessages
    MaxGroupDepth = 2
INVARIANTS
    DecodesAsReference
