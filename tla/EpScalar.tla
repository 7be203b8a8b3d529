------------------------------ MODULE EpScalar ------------------------------
(***************************************************************************)
(* The integers of the wire: how the pack_* functions of ep_encoder.c      *)
(* write them and the unpack_* functions of ep_decoder.c read them, byte   *)
(* for byte, with the width of every C type.  A word is uint32_t, two of   *)
(* them uint64_t, and a varint byte has Group bits and one that says more  *)
(* follow; the code is written for 7 and 32, and the shape of its shifts   *)
(* and masks only needs the assumption below.                              *)
(*                                                                         *)
(* A behaviour packs a term into a field and reads it back, or reads bytes *)
(* that somebody else wrote.                                               *)
(***************************************************************************)
EXTENDS Integers, Sequences, FiniteSetsExt, SequencesExt

CONSTANTS
    Group,   \* 7
    Word,    \* 32
    Types,   \* the types under test
    Terms,   \* <<"int", n>>, True, False or <<"other">>
    Wires,   \* bytes to be read
    Rests    \* what may stand behind a field

\* Two words are one bit longer than a whole number of groups, a word is not,
\* and fixed-width integers are a whole number of bytes.  EpValue assumes it.
WidthAssumption ==
    /\ Group \in Nat /\ Group > 1 /\ Word \in Nat /\ Word > Group
    /\ (2 * Word) % Group = 1
    /\ Word % (Group + 1) = 0

Num(n) == <<"int", n>>
True == <<"true">>
False == <<"false">>
None == <<"none">>

Words == {"uint32", "sint32", "int32", "enum", "fixed32", "sfixed32"}
DoubleWords == {"uint64", "sint64", "int64", "fixed64", "sfixed64"}
Headers == {"tag", "length"}   \* of a field, and of its payload

VARIABLES
    type,    \* of the field
    omits,   \* the field is a defaulty one of proto3
    term,    \* what is packed, None when the bytes are given
    wire,    \* the bytes of the field
    rest,    \* the bytes behind them
    phase,   \* "pack", "unpack", "absent", "read", "refused" or "rejected"
    next,    \* dec->p after the read
    got      \* the term that was read

vars == <<type, omits, term, wire, rest, phase, next, got>>

Init ==
    /\ type \in Types
    /\ rest \in Rests
    /\ next = 0
    /\ got = None
    /\ \/ term \in Terms /\ omits \in BOOLEAN /\ wire = <<>> /\ phase = "pack"
       \/ term = None /\ omits = FALSE /\ wire \in Wires /\ phase = "unpack"

-----------------------------------------------------------------------------
(* Conversions of C *)

Cut(v, w) == v % 2^w
AsSigned(v, w) == IF Cut(v, w) < 2^(w - 1) THEN Cut(v, w) ELSE Cut(v, w) - 2^w
Unsigned(w) == 0 .. 2^w - 1
Signed(w) == -2^(w - 1) .. 2^(w - 1) - 1

More == 2^Group                             \* 0x80
GroupOf(v, i) == Cut(v \div 2^(Group * (i - 1)), Group)   \* (v >> 7 * (i - 1)) & 0x7f

Whole == Word \div Group                    \* groups that fit a word, 4
Spare == Word % Group                       \* bits of a word above them, 4
WordMax == Whole + 1                        \* bytes of the varint of a word, 5
VarintMax == (2 * Word) \div Group + 1       \* of two words, 10

-----------------------------------------------------------------------------
(* pack_* *)

\* do_pack_uint32, the nested ifs: four groups at most are followed by more.
PackUint32(val) ==
    LET n == Min({k \in 1 .. WordMax : k = WordMax \/ val < 2^(Group * k)})
    IN  [i \in 1 .. n |-> IF i < n THEN GroupOf(val, i) + More ELSE GroupOf(val, i)]

\* Mutant: the number of spare bits is taken for that of a whole group.
PackUint64Early(val) ==
    LET hi == val \div 2^Word
        lo == Cut(val, Word)
    IN  IF hi = 0 THEN PackUint32(lo)
        ELSE Append([i \in 1 .. Whole |-> GroupOf(lo, i) + More], hi * 2^Spare + lo \div 2^(Group * Whole))

\* do_pack_uint64, from its two halves.
PackUint64(val) ==
    LET hi == val \div 2^Word
        lo == Cut(val, Word)
        low == [i \in 1 .. Whole |-> GroupOf(lo, i) + More]
        Shared(h) == h * 2^Spare + lo \div 2^(Group * Whole)    \* the byte both have bits in
        tail[h \in Unsigned(Word)] ==
            IF h >= More THEN <<Cut(h, Group) + More>> \o tail[h \div More] ELSE <<h>>
        taken == Group - Spare
    IN  IF hi = 0 THEN PackUint32(lo)
        ELSE IF hi < 2^taken THEN Append(low, Shared(hi))
        ELSE Append(low, Shared(Cut(hi, taken)) + More) \o tail[hi \div 2^taken]

\* Mutant: the last byte of a negative int32 is left out.
PackNegativeShort(val) ==
    [i \in 1 .. WordMax |-> GroupOf(val, i) + More] \o [i \in 1 .. VarintMax - WordMax - 1 |-> More - 1 + More]

\* A negative int32 is extended to 64 bits by hand.
PackNegative(val) ==
    [i \in 1 .. WordMax |-> GroupOf(val, i) + More]
        \o [i \in 1 .. VarintMax - WordMax - 1 |-> More - 1 + More] \o <<1>>

ZigZag(val, w) == LET u == Cut(2 * Cut(val, w), w) IN IF val < 0 THEN 2^w - 1 - u ELSE u

\* memcpy, on a little-endian host.
Copied(val, w) == [i \in 1 .. w \div (Group + 1) |-> Cut(val \div 2^((Group + 1) * (i - 1)), Group + 1)]

\* pack_tag, and the wire type its callers or into the byte at enc->sentinel.
PackTag(tag) ==
    LET id == tag \div 8
        bytes == IF id < 2^(Word - 3) THEN PackUint32(id * 8) ELSE PackUint64(id * 8)
    IN  [bytes EXCEPT ![1] = @ + (tag % 8)]

\* enif_get_uint, enif_get_int and their 64-bit kin.
Gets(n) ==
    CASE type \in {"uint32", "length"} -> n \in Unsigned(Word)
      [] type \in {"sint32", "int32", "enum", "fixed32", "sfixed32"} -> n \in Signed(Word)
      [] type = "uint64" -> n \in Unsigned(2 * Word)
      [] type \in {"sint64", "int64", "fixed64", "sfixed64"} -> n \in Signed(2 * Word)
      [] type = "tag" -> n \in Unsigned(Word + 3)
      [] type = "bool" -> n \in {0, 1}

Accepted == (term[1] = "int" /\ Gets(term[2])) \/ (type = "bool" /\ term \in {True, False})
Val == IF term = True THEN 1 ELSE IF term = False THEN 0 ELSE term[2]

Packed(val) ==
    CASE type \in {"uint32", "length"} -> PackUint32(val)
      [] type \in {"int32", "enum"} -> IF val < 0 THEN PackNegative(val) ELSE PackUint32(val)
      [] type = "sint32" -> PackUint32(ZigZag(val, Word))
      [] type = "uint64" -> PackUint64(val)
      [] type = "int64" -> PackUint64(Cut(val, 2 * Word))
      [] type = "sint64" -> PackUint64(ZigZag(val, 2 * Word))
      [] type \in {"fixed32", "sfixed32"} -> Copied(val, Word)
      [] type \in {"fixed64", "sfixed64"} -> Copied(val, 2 * Word)
      [] type = "tag" -> PackTag(val)
      [] type = "bool" -> <<val>>

\* Mutant: a field that is not zero is omitted as well.
OmittedAlways == omits

\* A default of proto3 is not written; pack_field takes its tag back.
Omitted == omits /\ type \notin Headers /\ Val = 0

Pack ==
    /\ phase = "pack" /\ Accepted
    /\ IF Omitted THEN phase' = "absent" /\ UNCHANGED wire ELSE phase' = "unpack" /\ wire' = Packed(Val)
    /\ UNCHANGED <<type, omits, term, rest, next, got>>

Refuse ==
    /\ phase = "pack" /\ ~Accepted
    /\ phase' = "refused"
    /\ UNCHANGED <<type, omits, term, wire, rest, next, got>>

-----------------------------------------------------------------------------
(* unpack_* *)

Data == wire \o rest

\* Bytes of the varint at the front, 0 when it is not over within max.
VarintLen(max) ==
    LET ends == {k \in 1 .. max : k <= Len(Data) /\ Data[k] < More} IN IF ends = {} THEN 0 ELSE Min(ends)
Sum(k, w) == Cut(FoldSet(LAMBDA i, sum : sum + Cut(Data[i], Group) * 2^(Group * (i - 1)), 0, 1 .. k), w)

\* A reader scans some bytes, all of next or none, for the unsigned value u.
Varint == LET k == VarintLen(VarintMax) IN [next |-> k, u |-> Sum(k, 2 * Word)]
Fixed(w) ==
    LET n == w \div (Group + 1)
    IN  IF Len(Data) < n THEN [next |-> 0, u |-> 0]
        ELSE [next |-> n, u |-> FoldSet(LAMBDA i, sum : sum + Data[i] * 2^((Group + 1) * (i - 1)), 0, 1 .. n)]

Scanned ==
    CASE type \in {"fixed32", "sfixed32"} -> Fixed(Word)
      [] type \in {"fixed64", "sfixed64"} -> Fixed(2 * Word)
      [] OTHER -> Varint

UnZigZag(u, w) == AsSigned(IF u % 2 = 1 THEN 2^w - 1 - u \div 2 ELSE u \div 2, w)

\* The term made of what was scanned.
TermOf(u) ==
    CASE type = "uint32" -> Num(Cut(u, Word))
      [] type \in {"uint64", "fixed32", "fixed64"} -> Num(u)
      [] type \in {"int32", "enum", "sfixed32"} -> Num(AsSigned(u, Word))
      [] type \in {"int64", "sfixed64"} -> Num(AsSigned(u, 2 * Word))
      [] type = "sint32" -> Num(UnZigZag(Cut(u, Word), Word))
      [] type = "sint64" -> Num(UnZigZag(u, 2 * Word))
      [] type = "bool" -> IF Cut(u, Word) # 0 THEN True ELSE False

\* What a reader leaves: the new dec->p, 0 when it raises, and the term.
Raised == [next |-> 0, got |-> None]

\* unpack_tag: five bytes, the bits above a word are dropped.
UnpackTag ==
    LET k == VarintLen(WordMax)
        tag == Sum(k, Word)
    IN  IF k = 0 \/ tag \div 8 = 0 \/ tag % 8 > 5 THEN Raised ELSE [next |-> k, got |-> Num(tag)]

\* Mutant: the spare bits of the fifth byte are not looked at.
UnpackLengthLax ==
    LET k == VarintLen(WordMax) IN IF k = 0 THEN Raised ELSE [next |-> k, got |-> Num(Sum(k, Word))]

\* unpack_length: the same, where bits above a word are malformed.
UnpackLength ==
    LET k == VarintLen(WordMax)
        over == Len(Data) >= WordMax /\ Cut(Data[WordMax], Group) >= 2^Spare
    IN  IF k = 0 \/ (k = WordMax /\ over) THEN Raised ELSE [next |-> k, got |-> Num(Sum(k, Word))]

Read ==
    CASE type = "tag" -> UnpackTag
      [] type = "length" -> UnpackLength
      [] OTHER -> IF Scanned.next = 0 THEN Raised ELSE [next |-> Scanned.next, got |-> TermOf(Scanned.u)]

Unpack ==
    /\ phase = "unpack"
    /\ next' = Read.next
    /\ got' = Read.got
    /\ phase' = IF Read.next = 0 THEN "rejected" ELSE "read"
    /\ UNCHANGED <<type, omits, term, wire, rest>>

\* fill_default.  The first value of a proto3 enum is its zero.
FillDefault ==
    /\ phase = "absent"
    /\ got' = IF type = "bool" THEN False ELSE Num(0)
    /\ phase' = "read"
    /\ UNCHANGED <<type, omits, term, wire, rest, next>>

Next == Pack \/ Refuse \/ Unpack \/ FillDefault
Spec == Init /\ [][Next]_vars
=============================================================================
