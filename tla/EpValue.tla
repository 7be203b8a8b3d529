------------------------------ MODULE EpValue ------------------------------
(***************************************************************************)
(* The value of one field, whatever its type: pack_field and unpack_field  *)
(* send it to the code of EpScalar, EpFloat or EpText.                     *)
(***************************************************************************)
EXTENDS Naturals

CONSTANTS
    GroupBits, Word, Types, IntTerms, IntWires, IntRests,             \* of EpScalar
    Exponent, Mantissa, IntWidth, FloatTerms,                     \* of EpFloat
    MaxGroupDepth, Fields, Options, CharSigned, TextTerms, TextWires, TextRests   \* of EpText

VARIABLES
    family,                                            \* of the type
    type, omits, term, wire, rest, phase, next, got,   \* as in the three modules
    field, opts, signed, lists, out, free, end         \* as in EpText, whose p is next

textOnly == <<field, opts, signed, lists, out, free, end>>
vars == <<family, type, omits, term, wire, rest, phase, next, got, textOnly>>

Integer == INSTANCE EpScalarReference WITH Group <- GroupBits, Terms <- IntTerms, Wires <- IntWires, Rests <- IntRests
Float == INSTANCE EpFloat WITH Terms <- FloatTerms
Text == INSTANCE EpTextReference WITH Terms <- TextTerms, Wires <- TextWires, Rests <- TextRests, p <- next

ASSUME Integer!WidthAssumption
ASSUME Float!FormatAssumption

NoText == field = 0 /\ opts = 0 /\ signed = 0 /\ lists = 0 /\ out = 0 /\ free = 0 /\ end = 0

Init ==
    \/ family = "integer" /\ Integer!Init /\ NoText
    \/ family = "float" /\ Float!Init /\ rest = 0 /\ next = 0 /\ NoText
    \/ family = "text" /\ Text!Init /\ type = 0 /\ omits = 0

Next ==
    \/ family = "integer" /\ Integer!Next /\ UNCHANGED <<family, textOnly>>
    \/ family = "float" /\ Float!Next /\ UNCHANGED <<family, rest, next, textOnly>>
    \/ family = "text" /\ Text!Next /\ UNCHANGED <<family, type, omits>>

Spec == Init /\ [][Next]_vars

-----------------------------------------------------------------------------
(* Properties, as the modules of the families state them *)

\* Every variable keeps its type, and what is computed is a byte, or a pattern
\* of the type's bits.
TypeOK ==
    /\ family = "integer" => Integer!TypeOK
    /\ family = "float" => Float!TypeOK
    /\ family = "text" => Text!TypeOK

\* Exactly the integers of the type's range are accepted, but for fixed-width
\* types, and those that are read back as themselves (pack_field, unpack_field
\* and fill_default).
ReadsBack == family = "integer" => Integer!AcceptsOtherRanges /\ Integer!ReadsBack

\* The do_pack_* functions write the one canonical varint of each integer.
WritesCanonically == family = "integer" => Integer!WritesCanonically

\* Whatever bytes arrive, the unpack_* functions of integers take exactly the
\* field and give its value, but for a bool's.
ReadsOthersAsProtobuf == family = "integer" => Integer!ReadsOthersAsProtobuf

\* A float or double reads back as the nearest number of its type, with its
\* sign (pack_float, pack_double and their inverses).
ReadsNearest == family = "float" => Float!ReadsNearest

\* Whatever pattern of bits unpack_double and unpack_float give a number or an
\* infinity for, that is packed again as the same bits; they read each NaN as nan.
ReadsEveryPattern == family = "float" => Float!ReadsEveryPattern

\* pack_string_list and pack_utf8 write within the room that was reserved.
RoomReserved == family = "text" => Text!RoomReserved

\* unpack_string reads within its string, and to its end.
StaysInString == family = "text" => Text!StaysInString

\* Text is written as what it holds, but for the terms named there.
WritesPlainText == family = "text" => Text!WritesPlainText

\* Strings are read as their bytes or characters, but for bytes of a signed char.
ReadsPlainText == family = "text" => Text!ReadsPlainText
=============================================================================
