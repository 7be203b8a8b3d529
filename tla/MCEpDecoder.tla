---------------------------- MODULE MCEpDecoder ----------------------------
(***************************************************************************)
(* Binaries for checking EpDecoder against the recursive reading.  A call  *)
(* may be any; MCInit enumerates those below, and sets of them have a      *)
(* parameter, a length, so that TLC builds none it does not need.          *)
(***************************************************************************)
EXTENDS EpDecodeReference, MCSchema

\* Defined here, TLC evaluates it once.
MCMessages == CodecMessages

PrefixesOf(S) == UNION {{SubSeq(w, 1, k) : k \in 0 .. Len(w)} : w \in S}

-----------------------------------------------------------------------------
(* Message m: nesting, repetition, a map *)

\* Every binary up to length n over tags, lengths and values that mean
\* something here.
ShortBinaries(n) == Strings({0, 1, 2, T(1, VARINT), T(2, LENGTH), T(3, LENGTH), T(4, LENGTH), T(5, LENGTH)}, n)

\* Longer, well-formed ones: every order of n fields, at top level or in one
\* of the two kinds of sub-message, before or after another such group.
Pieces == {<<8, 1>>, <<16, 3>>, Len1(2, <<1, 2>>), Len1(4, <<8, 1, 16, 5>>), Len1(4, <<8, 1>>)}
Nested(n) == Joined(Pieces, n) \cup {Len1(f, w) : f \in {3, 5}, w \in Joined(Pieces, n)}

-----------------------------------------------------------------------------
(* Message p: map entries whose value is a message, or missing *)

Pages == {Len1(1, k \o v) : k \in {<<>>, <<8, 1>>, <<8, 2>>}, v \in {Len1(2, <<16, 7>>), Len1(2, Len1(1, <<18, 0>>))}}
         \cup {Len1(1, <<8, 1>>), Len1(1, <<18, 0, 18, 2, 16, 5>>), <<16, 3>>}

-----------------------------------------------------------------------------
(* Message f: every wire type, known and unknown, whole and cut short *)

Four == <<1, 2, 3, 4>>
Values == [wt \in {VARINT, BITS64, LENGTH, BITS32} |->
    CASE wt = VARINT -> {<<1>>, <<129, 1>>, <<129, 128, 0>>,
                         <<128, 128, 128, 128, 128, 128, 128, 128, 128, 128, 1>>}
      [] wt = BITS64 -> {Four \o Four}
      [] wt = LENGTH -> {<<0>>, <<1, 7>>, <<129, 0, 7>>, <<128, 128, 128, 128, 16>>}
      [] wt = BITS32 -> {Four}]
\* A value behind each tag, also behind a tag of another wire type.
Formats == UNION {{<<T(fnum, wt)>> \o v : fnum \in {1, 2, 3, 4, 7}, v \in Values[wt]} :
                    wt \in {VARINT, BITS64, BITS32}}
           \cup {<<T(fnum, LENGTH)>> \o v : fnum \in {1, 2, 3, 7}, v \in Values[LENGTH]}
           \cup {Group(fnum, w) : fnum \in {1, 7}, w \in {<<>>, <<8, 1>>, Group(6, <<>>),
                                                           Group(6, Group(5, <<8, 1>>)), <<T(6, EGROUP)>>}}
           \cup {<<136, 128, 128, 128, 0, 1>>, <<136, 128, 128, 128, 128, 0, 1>>, <<0, 1>>, <<14>>}
FormatBinaries(n) == UNION {
    PrefixesOf({v \o w : v \in {<<>>, <<T(1, BITS32)>> \o Four}, w \in Formats}), Joined(Formats, n)}

-----------------------------------------------------------------------------
(* Message h: groups, nested, merged, unterminated and wrongly terminated *)

GroupPieces == {<<8, 1>>, <<24, 1>>, <<24, 2>>, Group(2, <<8, 2>>), Group(2, <<24, 3>>), Group(7, <<8, 1>>)}
GroupStrings(n) ==
    Strings({1, T(1, VARINT), T(2, SGROUP), T(2, EGROUP), T(3, SGROUP), T(3, EGROUP)}, n)

-----------------------------------------------------------------------------
(* Message o: oneofs, and calls that follow failed calls *)

\* y comes last: what happens when a message alternative follows another
\* alternative is in MCEpDecoderGaps.
X == {Len1(4, <<>>)} \cup {Len1(1, w) : w \in {<<8, 1>>, Len1(2, <<8, 2>>), <<>>}}
Bodies(n) == Joined(X, n) \cup {w \o <<16, 1>> : w \in Joined(X, n - 1)}

CutShort(n) == PrefixesOf({<<T(3, LENGTH), 4>> \o b : b \in Bodies(n)} \cup Bodies(n))
Whole(n) == {Len1(3, b) \o Len1(4, <<>>) : b \in Bodies(n)}

-----------------------------------------------------------------------------

One(n, w) == todo = <<[name |-> n, bin |-> w]>>
Two(n, v, w) == todo = <<[name |-> n, bin |-> v], [name |-> n, bin |-> w]>>

MCInit ==
    /\ \/ \E w \in ShortBinaries(5) : One("m", w)
       \/ \E v, w \in Nested(2) : One("m", v \o w)
       \/ \E v \in Joined(Pages, 2), w \in Joined(Pages, 1) : One("p", v \o w)
       \/ \E v, w \in Joined(Pages, 1) : One("p", Len1(1, <<8, 1>> \o Len1(2, v)) \o w)
       \/ \E w \in FormatBinaries(2) : One("f", w)
       \/ \E w \in GroupStrings(5) : One("h", w)
       \/ \E f, g \in {2, 3}, v \in Joined(GroupPieces, 2), w \in Joined(GroupPieces, 1) :
              One("h", Group(f, v) \o Group(g, w))
       \/ \E w \in Bodies(2) : One("o", w)
       \/ \E v \in Joined(X, 1) : \E b, c \in Bodies(2) : One("o", v \o Len1(3, b) \o c)
       \/ \E v \in CutShort(2), w \in Whole(2) : Two("o", v, w)
    /\ Init
MCSpec == MCInit /\ [][Next]_vars
=============================================================================
