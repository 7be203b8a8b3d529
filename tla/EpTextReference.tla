--------------------------- MODULE EpTextReference ---------------------------
(***************************************************************************)
(* What a term means as text and which text bytes are, by the definition   *)
(* of UTF-8, and that fields of strings and bytes keep to both.            *)
(***************************************************************************)
EXTENDS EpText

\* UTF-8: a lead byte that gives the length in unary, then groups of six bits.
Lead == <<0, 192, 224, 240>>
Utf8Length(c) == CASE c < 2^7 -> 1 [] c \in 2^7 .. 2^11 - 1 -> 2 [] c \in 2^11 .. 2^16 - 1 -> 3 [] OTHER -> 4
Utf8Of(c) ==
    LET n == Utf8Length(c)
    IN  [i \in 1 .. n |-> IF i = 1 THEN Lead[n] + (c \div 64^(n - 1)) ELSE 128 + ((c \div 64^(n - i)) % 64)]

\* A list is characters and lists and binaries that hold text, however deep; a
\* tail that is a binary is taken in lists of bytes only.
RECURSIVE IsCharacters(_), Payload(_)
IsCharacters(t) ==
    \/ t[1] = "bin"
    \/ t[1] = "list" /\ \A i \in DOMAIN t[2] :
          IF t[2][i][1] = "int" THEN t[2][i][2] \in 0 .. 1114111 ELSE IsCharacters(t[2][i])
IsText(t) == IsCharacters(t) \/ (IsList(t) /\ IsIo(t))
Payload(t) ==
    CASE t[1] = "int" -> Utf8Of(t[2])
      [] t[1] = "bin" -> t[2]
      [] OTHER -> FlattenSeq([i \in DOMAIN t[2] |-> Payload(t[2][i])]) \o TailOf(t)[2]

Content == IF Type = "string" /\ WithUtf8 THEN Payload(term) ELSE IoBytes(term)
Writable == IF Type = "string" /\ WithUtf8 THEN IsText(term) ELSE IsIo(term)

Leads(c) == CASE c < 128 -> 1 [] c \in 192 .. 223 -> 2 [] c \in 224 .. 239 -> 3 [] c \in 240 .. 247 -> 4 [] OTHER -> 0

\* The characters of a UTF-8 text, none when it is malformed.
RECURSIVE Characters(_)
Characters(bytes) ==
    LET n == Leads(bytes[1])
        char == FoldSet(LAMBDA i, c : c + ((IF i = 1 THEN bytes[1] - Lead[n] ELSE bytes[i] % 64) * 64^(n - i)), 0, 1 .. n)
        after == Characters(SubSeq(bytes, n + 1, Len(bytes)))
    IN  IF bytes = <<>> THEN {<<>>}
        ELSE IF n = 0 \/ n > Len(bytes) \/ \E i \in 2 .. n : bytes[i] \div 64 # 2 THEN {}
        ELSE IF SubSeq(bytes, 1, n) # Utf8Of(char) THEN {}
        ELSE {<<char>> \o cs : cs \in after}

\* Where the term is not the simple case of the properties below.
RECURSIVE SubTerms(_)
SubTerms(t) == {t} \cup IF IsList(t) THEN UNION {SubTerms(t[2][i]) : i \in DOMAIN t[2]} \cup {TailOf(t)} ELSE {}
Holds(t, Test(_)) == \E u \in SubTerms(t) : Test(u)
Noncharacter(t) == t[1] = "int" /\ t[2] \in {65534, 65535}
HighBinary(t) == t[1] = "bin" /\ \E i \in DOMAIN t[2] : t[2][i] > 127
Nested(t) == IsList(t) /\ IsIo(t) /\ Holds(t, HighBinary)
Odd == Type = "string" /\ WithUtf8 /\ (Holds(term, Noncharacter) \/ Nested(term))

-----------------------------------------------------------------------------
(* Properties *)

\* Every variable keeps its type, and a byte that is computed is one.
TypeOK ==
    /\ \A i \in DOMAIN out : out[i] \in 0 .. 255
    /\ \A i \in DOMAIN wire : wire[i] \in 0 .. 255
    /\ free \in Int /\ p \in Nat /\ end \in Nat
    /\ phase \in {"pack", "list", "close", "unpack", "chars", "absent", "read", "refused", "rejected"}

\* No writer uses more room than it has reserved, and the length fits the gap.
RoomReserved == free >= 0 /\ Len(Prefix(Len(out))) <= GapSize

\* Whatever the string holds, the reader stays in it and leaves p at its end,
\* where the next field begins.
StaysInString ==
    /\ phase \in {"chars", "read", "rejected"} => p <= end /\ end <= Len(Data)
    /\ phase = "read" => p = end /\ (term # None => p = Len(wire))

\* What is text is written as that text, and nothing else is accepted.  Left
\* out is the empty text of a defaulty proto3 field, and always.
WritesText ==
    /\ phase = "unpack" /\ term # None => Writable /\ wire = Prefixed(Content) /\ (Omits => Content # <<>>)
    /\ phase = "absent" => Writable /\ Content = <<>> /\ Omits
    /\ phase = "refused" => ~Writable

\* Left out are U+FFFE and U+FFFF, which are written as one byte each, and
\* binaries of non-ASCII text in a list that is Latin-1 otherwise, which are
\* encoded a second time.
WritesPlainText == term # None => Odd \/ WritesText

\* A string reads as its bytes, as its characters, or (without with_utf8) as
\* the list of its bytes, and is rejected only when it is not UTF-8 or cut off.
ReadsText ==
    LET at == LengthAt(Data, 0, Len(Data))
        payload == Bytes(Data, at.next, at.after - at.next)
        Chars(cs) == <<"list", [i \in DOMAIN cs |-> <<"int", cs[i]>>]>>
        listed == Type = "string" /\ StringAsList
    IN  /\ phase = "read" /\ wire # <<>> =>
            /\ at.next # Fail
            /\ ~listed => got = <<"bin", payload>>
            /\ listed /\ ~WithUtf8 => got = Chars(payload)
            /\ listed /\ WithUtf8 => \A cs \in Characters(payload) : got = Chars(cs)
        /\ phase = "rejected" => at.next = Fail \/ (listed /\ WithUtf8 /\ Characters(payload) = {})

\* Where char is signed and with_utf8 is off, bytes above 127 are read as
\* negative numbers.
ReadsPlainText == (signed /\ ~WithUtf8 /\ \E i \in DOMAIN Data : Data[i] > 127) \/ ReadsText
=============================================================================
