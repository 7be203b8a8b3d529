SPECIFICATION Spec
CONSTANTS
    GroupBits = 3
    Word = 8
    Types <- MCTypes
    IntTerms <- MCIntTerms
    IntWires <- MCIntWires
    IntRests <- MCIntRests
    Exponent <- MCExponent
    Mantissa <- MCMantissa
    IntWidth <- MCIntWidth
    FloatTerms <- MCFloatTerms
    MaxGroupDepth = 2
    Fields <- MCFields
    Options <- MCOptions
    CharSigned = {TRUE, FALSE}
    TextTerms <- MCTextTerms
    TextWires <- MCTextWires
    TextRests <- MCTextRests
INVARIANTS
    TypeOK
    ReadsBack
    WritesCanonically
    ReadsOthersAsProtobuf
    ReadsNearest
    ReadsEveryPattern
    RoomReserved
    StaysInString
    WritesPlainText
    ReadsPlainText
CHECK_DEADLOCK FALSE
