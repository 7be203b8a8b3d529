-------------------------- MODULE EpScalarReference --------------------------
(***************************************************************************)
(* What the protobuf encoding says of integers, and that packing and       *)
(* unpacking keep to it.                                                   *)
(***************************************************************************)
EXTENDS EpScalar

Varints == {"uint32", "sint32", "int32", "enum", "uint64", "sint64", "int64", "bool"}
WidthOf(t) == IF t \in DoubleWords THEN 2 * Word ELSE Word

\* The terms a field of the type ranges over.  A tag has a field number and
\* one of the six wire types.
InRange ==
    CASE type = "bool" -> term \in {True, False, Num(0), Num(1)}
      [] type = "tag" -> term[1] = "int" /\ term[2] \in 8 .. 2^Word - 1 /\ term[2] % 8 <= 5
      [] type \in {"uint32", "uint64", "fixed32", "fixed64", "length"} ->
            term[1] = "int" /\ term[2] \in Unsigned(WidthOf(type))
      [] OTHER -> term[1] = "int" /\ term[2] \in Signed(WidthOf(type))

Canonical(t) == IF t = Num(0) /\ type = "bool" THEN False ELSE IF t = Num(1) /\ type = "bool" THEN True ELSE t

\* The varints there are: at most ten bytes of which only the last is below
\* More.  Its number is that of its groups, the lowest first.
IsVarint(bytes, max) ==
    /\ bytes # <<>> /\ Len(bytes) <= max
    /\ \A i \in DOMAIN bytes : bytes[i] < More <=> i = Len(bytes)
Number(bytes) ==
    FoldSet(LAMBDA i, n : n + (IF i = Len(bytes) THEN bytes[i] ELSE bytes[i] - More) * More^(i - 1),
            0, DOMAIN bytes)

\* The integer of a number: zigzag counts 0, -1, 1, -2, ..., the other signed
\* types are two's complement, and 32-bit types take the low word.
Meaning(n) ==
    LET low == n % 2^WidthOf(type)
    IN  CASE type = "bool" -> IF n % 4^Word = 0 THEN False ELSE True
          [] type \in {"sint32", "sint64"} -> Num(IF low % 2 = 0 THEN low \div 2 ELSE -((low + 1) \div 2))
          [] type \in {"int32", "int64", "enum", "sfixed32", "sfixed64"} /\ 2 * low >= 2^WidthOf(type) ->
                Num(low - 2^WidthOf(type))
          [] OTHER -> Num(low)

\* The field at the front of Data, as a prefix of it; none when malformed.
Field ==
    LET First(k) == SubSeq(Data, 1, k)
        size == WidthOf(type) \div (Group + 1)
        Varint32(k) == IsVarint(First(k), WordMax)
    IN  {k \in 1 .. Len(Data) :
            CASE type \in Varints -> IsVarint(First(k), VarintMax)
              [] type = "length" -> Varint32(k) /\ Number(First(k)) < 2^Word
              [] type = "tag" -> Varint32(k) /\ Number(First(k)) % 2^Word >= 8 /\ Number(First(k)) % 8 <= 5
              [] OTHER -> k = size}
NumberAt(k) ==
    IF type \in Varints \cup Headers THEN Number(SubSeq(Data, 1, k))
    ELSE FoldSet(LAMBDA i, n : n + Data[i] * (2 * More)^(i - 1), 0, 1 .. k)

-----------------------------------------------------------------------------
(* Properties *)

Bytes == 0 .. 2 * More - 1

\* Every byte is one, also after every shift, mask and addition.
TypeOK ==
    /\ type \in Words \cup DoubleWords \cup Headers \cup {"bool"}
    /\ \A i \in DOMAIN wire : wire[i] \in Bytes
    /\ next \in 0 .. Len(Data)
    /\ phase \in {"pack", "unpack", "absent", "read", "refused", "rejected"}

\* A value of the type's range that is accepted reads back as itself, also
\* when it was left out for being the default and whatever stands behind it.
ReadsBack ==
    /\ term # None /\ phase = "read" /\ InRange => got = Canonical(term) /\ next = Len(wire)
    /\ term # None /\ phase = "rejected" => ~InRange

\* A varint is the one sequence of bytes other libraries write for the value:
\* sign-extended to two words, without a byte too many, and never longer than
\* the room enc_ensure_default reserves.
WritesCanonically ==
    phase = "unpack" /\ term # None /\ type \in Varints \cup {"length"} =>
        /\ IsVarint(wire, VarintMax)
        /\ Len(wire) > 1 => Last(wire) # 0
        /\ LET n == Number(wire)
           IN  IF type \in {"int32", "enum", "int64"} THEN n = term[2] % 4^Word ELSE Meaning(n) = Canonical(term)

\* Exactly the values of the type's range are accepted.
AcceptsItsRange ==
    /\ phase = "refused" => ~InRange
    /\ phase \in {"unpack", "absent", "read"} /\ term # None => InRange

\* Left out are fixed32 and fixed64, which are packed as signed integers, and
\* pack_tag, which takes whatever number a definition has.
AcceptsOtherRanges == type \notin {"fixed32", "fixed64", "tag"} => AcceptsItsRange

\* Whatever bytes arrive, of overlong, truncated and too wide varints too, the
\* reader takes exactly the field and gives its value, or rejects what is none.
ReadsAsProtobuf ==
    /\ phase = "read" /\ term = None => next \in Field /\ got = Meaning(NumberAt(next))
    /\ phase = "rejected" /\ term = None => Field = {}

\* The same, but for a bool, which is cut to a word before it is looked at.
ReadsOthersAsProtobuf == type # "bool" => ReadsAsProtobuf
=============================================================================
