------------------------------- MODULE EpText -------------------------------
(***************************************************************************)
(* string and bytes fields: pack_bytes, pack_string and pack_string_list   *)
(* of ep_encoder.c with the room they reserve, unpack_bytes, unpack_string *)
(* and unpack_utf8 of ep_decoder.c, under every setting of the options.    *)
(*                                                                         *)
(* A behaviour packs a term into a field and reads it back, or reads bytes *)
(* that somebody else wrote.                                               *)
(***************************************************************************)
EXTENDS EpWire, Integers

CONSTANTS
    Fields,       \* <<type, omits>>: "string" or "bytes", a defaulty proto3 field or not
    Options,      \* <<with_utf8, string_as_list>>
    CharSigned,   \* whether the compiler's char is: a set of booleans
    Terms,        \* see below
    Wires,        \* length-delimited fields of other writers
    Rests         \* what may stand behind a field

\* A term is <<"int", n>>, <<"bin", bytes>>, <<"list", terms>>,
\* <<"improper", terms, tail>> or <<"other">>.
Nil == <<"list", <<>> >>
None == <<"none">>
IsList(t) == t[1] \in {"list", "improper"}

VARIABLES
    field, opts, signed, term, rest,    \* the input
    phase,    \* where the code is, or how it ended
    lists,    \* lists whose elements pack_string_list is at, innermost last
    out,      \* payload written so far
    free,     \* bytes that enc_reserve has promised and nobody has used
    wire,     \* the field, its length first
    p, end,   \* dec->p, and the end of the string
    got       \* the term that was read

input == <<field, opts, signed, term, rest>>
packing == <<lists, out, free>>
reading == <<p, end, got>>
vars == <<input, phase, packing, wire, reading>>

Type == field[1]
Omits == field[2]
WithUtf8 == opts[1]
StringAsList == opts[2]

Init ==
    /\ field \in Fields /\ opts \in Options /\ signed \in CharSigned /\ rest \in Rests
    /\ \/ term \in Terms /\ wire = <<>> /\ phase = "pack"
       \/ term = None /\ wire \in Wires /\ phase = "unpack"
    /\ lists = <<>> /\ out = <<>> /\ free = 0
    /\ p = 0 /\ end = 0 /\ got = None

-----------------------------------------------------------------------------
(* Terms *)

TailOf(t) == IF t[1] = "improper" THEN t[3] ELSE <<"bin", <<>> >>

RECURSIVE IsIo(_), IoBytes(_)
\* enif_inspect_iolist_as_binary: bytes, binaries and lists of them, of which
\* a binary may be the tail.
IsIo(t) ==
    LET Element(x) == IF x[1] = "int" THEN x[2] \in 0 .. 255 ELSE IsIo(x)
    IN  \/ t[1] = "bin"
        \/ /\ IsList(t)
           /\ \A i \in DOMAIN t[2] : Element(t[2][i])
           /\ TailOf(t)[1] = "bin"
IoBytes(t) ==
    LET Element(x) == IF x[1] = "int" THEN <<x[2]>> ELSE IoBytes(x)
    IN  IF t[1] = "bin" THEN t[2] ELSE FlattenSeq([i \in DOMAIN t[2] |-> Element(t[2][i])]) \o TailOf(t)[2]

-----------------------------------------------------------------------------
(* pack_* *)

\* enc_reserve makes sure of n bytes, of which the caller uses some.
Using(n, used) == free' = Max({free, n}) - used

GapSize == 10   \* MAX_UINT64_ENCODED_SIZE
Prefix(n) == IF n < 128 THEN <<n>> ELSE <<(n % 128) + 128, n \div 128>>
Prefixed(bytes) == Prefix(Len(bytes)) \o bytes

Refused == phase' = "refused" /\ UNCHANGED <<packing, wire>>
Written(bytes) == phase' = "unpack" /\ wire' = bytes /\ UNCHANGED <<lists, out>>

\* An empty string of a defaulty proto3 field is left out.
Empty ==
    \/ Omits /\ phase' = "absent" /\ UNCHANGED <<packing, wire>>
    \/ ~Omits /\ Written(<<0>>) /\ Using(1, 1)

\* pack_bytes, and what pack_string does with a binary.
PackRaw ==
    /\ phase = "pack"
    /\ Type = "bytes" \/ ~WithUtf8 \/ term[1] = "bin"
    /\ \/ ~IsIo(term) /\ Refused
       \/ IsIo(term) /\ IoBytes(term) = <<>> /\ Empty
       \/ /\ IsIo(term) /\ IoBytes(term) # <<>>
          /\ Written(Prefixed(IoBytes(term)))
          /\ Using(GapSize + Len(IoBytes(term)), Len(Prefixed(IoBytes(term))))
    /\ UNCHANGED <<input, reading>>

Charlist == phase = "pack" /\ Type = "string" /\ WithUtf8 /\ term[1] # "bin"

PackNil == Charlist /\ term = Nil /\ Empty /\ UNCHANGED <<input, reading>>

RefuseTerm == Charlist /\ ~IsList(term) /\ Refused /\ UNCHANGED <<input, reading>>

Latin1(byte) == IF byte < 128 THEN <<byte>> ELSE <<192 + (byte \div 64), 128 + (byte % 64)>>

\* A list of bytes is taken for Latin-1, behind the gap left for its length.
PackLatin1 ==
    LET bytes == IoBytes(term)
        text == FlattenSeq([i \in DOMAIN bytes |-> Latin1(bytes[i])])
    IN  /\ Charlist /\ IsList(term) /\ term # Nil /\ IsIo(term)
        /\ out' = text
        /\ free' = Max({Max({free, GapSize}) - GapSize, 2 * Len(bytes)}) - Len(text)
        /\ phase' = "close"
        /\ UNCHANGED <<input, lists, wire, reading>>

\* Any other list goes to pack_string_list.
StartList ==
    /\ Charlist /\ IsList(term) /\ ~IsIo(term)
    /\ lists' = <<term>>
    /\ Using(GapSize, GapSize)
    /\ phase' = "list"
    /\ UNCHANGED <<input, out, wire, reading>>

Top == Last(lists)
Item == Head(Top[2])
InList == phase = "list" /\ lists # <<>> /\ Top[2] # <<>>
Rest == [lists EXCEPT ![Len(lists)][2] = Tail(@)]

EnterList ==
    /\ InList /\ IsList(Item)
    /\ lists' = Append(Rest, Item)
    /\ UNCHANGED <<input, phase, out, free, wire, reading>>

PackBinary ==
    /\ InList /\ Item[1] = "bin"
    /\ lists' = Rest
    /\ out' = out \o Item[2]
    /\ IF Item[2] = <<>> THEN UNCHANGED free ELSE Using(Len(Item[2]), Len(Item[2]))
    /\ UNCHANGED <<input, phase, wire, reading>>

\* Mutant: room for three bytes only, those of the basic plane.
CharRoomBasic == 3

CharRoom == 4

\* pack_utf8.
Follow(val, i) == 128 + ((val \div 64^i) % 64)
Utf8(val) ==
    CASE val < 128 -> <<val>>
      [] val \in 128 .. 2047 -> <<192 + (val \div 64), Follow(val, 0)>>
      [] val = 65535 -> <<255>>
      [] val = 65534 -> <<254>>
      [] val \in 2048 .. 65533 -> <<224 + (val \div 4096), Follow(val, 1), Follow(val, 0)>>
      [] OTHER -> <<240 + (val \div 262144), Follow(val, 2), Follow(val, 1), Follow(val, 0)>>

Encodable(t) == t[1] = "int" /\ t[2] \in 0 .. 1114111

PackChar ==
    /\ InList /\ ~IsList(Item) /\ Item[1] # "bin"
    /\ \/ ~Encodable(Item) /\ Refused
       \/ /\ Encodable(Item)
          /\ lists' = Rest
          /\ out' = out \o Utf8(Item[2])
          /\ Using(CharRoom, Len(Utf8(Item[2])))
          /\ UNCHANGED <<phase, wire>>
    /\ UNCHANGED <<input, reading>>

LeaveList ==
    /\ phase = "list" /\ lists # <<>> /\ Top[2] = <<>>
    /\ \/ Top[1] = "improper" /\ Refused
       \/ /\ Top[1] = "list"
          /\ lists' = SubSeq(lists, 1, Len(lists) - 1)
          /\ phase' = IF Len(lists) = 1 THEN "close" ELSE "list"
          /\ UNCHANGED <<out, free, wire>>
    /\ UNCHANGED <<input, reading>>

\* Mutant: an empty payload is written whatever the field is.
CloseEmptyToo ==
    /\ phase = "close"
    /\ Written(Prefixed(out)) /\ UNCHANGED free
    /\ UNCHANGED <<input, reading>>

\* The length goes to the front of the gap and the payload behind it.
Close ==
    /\ phase = "close"
    /\ \/ out = <<>> /\ Omits /\ phase' = "absent" /\ UNCHANGED <<packing, wire>>
       \/ /\ out # <<>> \/ ~Omits
          /\ Written(Prefixed(out)) /\ UNCHANGED free
    /\ UNCHANGED <<input, reading>>

-----------------------------------------------------------------------------
(* unpack_* *)

Data == wire \o rest
Finish(t, q) == got' = t /\ p' = q /\ phase' = "read"
Reject == phase' = "rejected" /\ UNCHANGED <<p, got>>

\* The length, then a binary, or the start of a list.
Unpack ==
    LET at == LengthAt(Data, 0, Len(Data))
    IN  /\ phase = "unpack"
        /\ end' = at.after
        /\ \/ at.next = Fail /\ Reject
           \/ /\ at.next # Fail /\ (Type = "bytes" \/ ~StringAsList)
              /\ Finish(<<"bin", Bytes(Data, at.next, at.after - at.next)>>, at.after)
           \/ /\ at.next # Fail /\ Type = "string" /\ StringAsList
              /\ got' = Nil /\ p' = at.next /\ phase' = "chars"
        /\ UNCHANGED <<input, packing, wire>>

Got(n) == <<"list", Append(got[2], <<"int", n>>)>>

\* Without utf8, *(dec->p)++ is a char.
UnpackByte ==
    LET c == Byte(Data, p)
    IN  /\ phase = "chars" /\ p < end /\ ~WithUtf8
        /\ got' = Got(IF signed /\ c > 127 THEN c - 256 ELSE c)
        /\ p' = p + 1
        /\ UNCHANGED <<input, phase, packing, wire, end>>

\* Mutant: the sequence may go on behind the string.
SizeOfMessage == Len(Data) - p

\* unpack_utf8 is bounded by the string, not by the message around it.
Size == end - p

\* Mutant: the lead of two bytes is told by its two upper bits.
AnnouncedByTwo(c) ==
    CASE c < 128 -> 1
      [] c \div 64 = 3 -> 2
      [] OTHER -> 0

\* How many bytes the lead byte announces; 0 when it is none.
Announced(c) ==
    CASE c < 128 -> 1
      [] c \div 32 = 6 -> 2
      [] c \div 16 = 14 -> 3
      [] c \div 8 = 30 -> 4
      [] OTHER -> 0
UnpackChar ==
    LET n == Announced(Byte(Data, p))
        Low(i) == Byte(Data, p + i) % 64
        lead == CASE n = 2 -> Byte(Data, p) % 32 [] n = 3 -> Byte(Data, p) % 16 [] OTHER -> Byte(Data, p) % 8
        val == CASE n = 1 -> Byte(Data, p)
                 [] n = 2 -> lead * 64 + Low(1)
                 [] n = 3 -> lead * 4096 + Low(1) * 64 + Low(2)
                 [] n = 4 -> lead * 262144 + Low(1) * 4096 + Low(2) * 64 + Low(3)
    IN  /\ phase = "chars" /\ p < end /\ WithUtf8
        /\ \/ (n = 0 \/ n > Size) /\ Reject
           \/ n # 0 /\ n <= Size /\ got' = Got(val) /\ p' = p + n /\ UNCHANGED phase
        /\ UNCHANGED <<input, packing, wire, end>>

UnpackEnd ==
    /\ phase = "chars" /\ p >= end
    /\ Finish(got, p)
    /\ UNCHANGED <<input, packing, wire, end>>

\* fill_default: an empty list for a string, an empty binary for bytes.
FillDefault ==
    /\ phase = "absent"
    /\ Finish(IF Type = "string" THEN Nil ELSE <<"bin", <<>> >>, p)
    /\ UNCHANGED <<input, packing, wire, end>>

Next ==
    \/ PackRaw \/ PackNil \/ RefuseTerm \/ PackLatin1 \/ StartList
    \/ EnterList \/ PackBinary \/ PackChar \/ LeaveList \/ Close
    \/ Unpack \/ UnpackByte \/ UnpackChar \/ UnpackEnd \/ FillDefault
Spec == Init /\ [][Next]_vars
=============================================================================
