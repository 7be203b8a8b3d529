----------------------------- MODULE MCEpValue -----------------------------
(* Values of every type for TLC, integers and floats in miniature. *)
EXTENDS EpValue, Integers, Sequences

\* Words of eight bits, groups of three: every value of one word, and of two
\* around every power of two.
MCTypes == {"uint32", "sint32", "int32", "enum", "fixed32", "sfixed32", "uint64", "sint64", "int64", "fixed64", "sfixed64",
            "bool", "tag", "length"}
Powers == {s * 2^k + d : s \in {-1, 1}, k \in 0 .. 17, d \in -2 .. 2}
N(n) == <<"int", n>>
MCIntTerms == {N(n) : n \in (-2^8 - 2 .. 2^11) \cup Powers} \cup {<<"true">>, <<"false">>, <<"other">>}

Strings(set, n) == [1 .. n -> set]
MCIntWires ==
    UNION {Strings(0 .. 15, n) : n \in 0 .. 3} \cup UNION {Strings({1, 8, 15}, n) : n \in 4 .. 7}
    \cup {bytes \o <<last>> : bytes \in Strings({8, 9, 15}, 5), last \in 0 .. 7}
MCIntRests == {<<>>, <<9>>}

-----------------------------------------------------------------------------
\* Every number of two small formats.  As in the real ones, integers of both
\* widths have more bits than a mantissa, so that they are rounded, and a
\* double has numbers too great and too small for a float.
Of(float, double) == [t \in {"float", "double"} |-> IF t = "float" THEN float ELSE double]
MCExponent == Of(3, 4)
MCMantissa == Of(1, 4)
MCIntWidth == Of(4, 8)
FiniteDoubles == {b \in 0 .. 2^9 - 1 : b % 2^8 < 15 * 2^4}
MCFloatTerms ==
    {<<"float", b>> : b \in FiniteDoubles} \cup {N(n) : n \in -150 .. 150}
    \cup {<<"infinity">>, <<"-infinity">>, <<"nan">>, <<"other">>}

-----------------------------------------------------------------------------
\* Texts around every boundary of UTF-8, lists of every shape around them, and
\* foreign strings cut and broken in every place.
MCFields == {"string", "bytes"} \X BOOLEAN
MCOptions == BOOLEAN \X BOOLEAN
Upto(set, n) == UNION {[1 .. k -> set] : k \in 0 .. n}

B(bytes) == <<"bin", bytes>>
L(terms) == <<"list", terms>>
Other == <<"other">>

CharTerms == {N(n) : n \in {-1, 0, 65, 127, 128, 255, 256, 2047, 2048, 55296, 65533, 65536, 1114111, 1114112}}
Noncharacters == {N(65534), N(65535)}
PlainElements == {N(65), N(233), N(8364), B(<<>>), B(<<98, 99>>), Other, L(<<>>), L(<<N(66)>>), L(<<N(300), B(<<97>>)>>),
                  L(<<L(<<N(128512)>>)>>), <<"improper", <<N(65)>>, B(<<98>>)>>, <<"improper", <<N(65)>>, Other>>}
HighBinaries == {B(<<195, 169>>), L(<<B(<<195, 169>>)>>), <<"improper", <<N(65)>>, B(<<195, 169>>)>>}
Long == L([i \in 1 .. 130 |-> N(IF i = 7 THEN 8364 ELSE 65)])

PlainTerms == {L(cs) : cs \in Upto(CharTerms, 2)} \cup {L(ts) : ts \in Upto(PlainElements, 2)} \cup PlainElements \cup {Long}
NoncharacterTerms == {L(cs) : cs \in Upto(CharTerms \cup Noncharacters, 2)}
NestedTerms == {L(ts) : ts \in Upto(HighBinaries \cup {N(65), N(300)}, 2)}
MCTextTerms == PlainTerms \cup NoncharacterTerms \cup NestedTerms \cup HighBinaries

Pieces == {65, 169, 195, 226, 240}
MCTextWires == {<<Len(bytes) + d>> \o bytes : d \in {0, 1}, bytes \in Upto(Pieces, 4)} \cup {<<1, 248>>}
           \cup {<<Len(bytes) + 1, c>> \o bytes : c \in {193, 223, 224, 239, 244, 247}, bytes \in Upto({127, 128, 191}, 3)}
MCTextRests == {<<>>, <<130, 65>>}
=============================================================================
