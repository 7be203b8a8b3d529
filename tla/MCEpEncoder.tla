---------------------------- MODULE MCEpEncoder ----------------------------
(***************************************************************************)
(* Messages for checking EpEncoder: all fields present and absent, nested  *)
(* in every way the schema allows, and some that do not fit.               *)
(***************************************************************************)
EXTENDS EpEncodeReference, MCSchema

\* Defined here, TLC evaluates it once.
MCMessages == CodecMessages

Msg(name, elements) == Tuple(<<Atom(name)>> \o elements)
Entry(k, v) == Tuple(<<Num(k), Num(v)>>)
Item(kind, fnum, t) == Tuple(<<Atom(kind), Num(fnum), t>>)
Lists(S, n) == {List(s) : s \in Strings(S, n)}

\* Message m: scalars, messages, entries, and one whose length takes two bytes.
M(a, l, s, e, r) == Msg("m", <<a, List(l), s, List(e), List(r)>>)
Flat == {M(a, l, Undef, <<>>, <<>>) : a \in {Undef, Num(300)}, l \in {<<>>, <<Num(1)>>}}
Improper == {M(Undef, <<Num(1), Stray>>, Undef, <<>>, <<>>), M(Undef, <<>>, Undef, <<Entry(1, 2), Stray>>, <<>>)}
            \cup {M(Undef, <<>>, s, <<>>, <<v, Stray>>) : s \in {Undef} \cup Flat, v \in Flat}
Long == M(Undef, [i \in 1 .. 26 |-> Num(2^27)], Undef, <<>>, <<>>)
Deeper == {Long} \cup {M(Undef, <<>>, s, e, r) :
    s \in {Undef} \cup Flat, e \in {<<>>, <<Entry(1, 2)>>}, r \in Strings(Flat, 1)}
Nested == {M(a, <<>>, s, <<>>, r) : a \in {Undef, Num(1)}, s \in {Undef} \cup Deeper, r \in Strings({Long}, 1)}
Pairs == {M(Undef, <<>>, Undef, <<Entry(1, 300), Tuple(<<Undef, Num(2)>>)>>, both) : both \in Deeper \X Deeper}

\* Message p: map entries whose value is a message.
Page(k, v) == Tuple(<<k, v>>)
P(pages, a) == Msg("p", <<List(pages), a>>)
Plain == {P(<<>>, a) : a \in {Undef, Num(300)}}
PagesOf(S) == {<<>>} \cup {<<Page(k, v)>> : k \in {Undef, Num(1)}, v \in S}
              \cup {<<Page(k, v), Page(Num(300), w)>> : k \in {Undef, Num(1)}, v, w \in S}
Books == {P(pages, Num(1)) : pages \in PagesOf(Plain \cup {P(<<Page(Num(1), v)>>, Undef) : v \in Plain})}

\* Message f: every scalar type and occurrence, packed runs, unknown items.
Four == <<1, 2, 3, 4>>
Items == {Item("varint", 9, Num(300)), Item("bits32", 9, Bin(Four)), Item("bits64", 16, Bin(Four \o Four)),
          Item("bytes", 9, Bin(<<>>)), Item("bytes", 9, Bin([i \in 1 .. 40 |-> i])),
          Item("group", 9, List(<<Item("varint", 1, Num(1)), Item("group", 16, List(<<Item("bits32", 1, Bin(Four))>>))>>))}
NoItems == Item("group", 9, List(<<>>))
BadItems == {Item("varint", 9, Bin(Four)), Item("junk", 9, Num(1)), Tuple(<<Atom("varint"), Undef, Num(1)>>), Num(1), Stray,
             Tuple(<<Atom("varint"), Num(9)>>), Item("group", 9, Num(1)),
             Item("group", 9, List(<<Item("bits32", 1, Num(1))>>)), Item("group", 9, List(<<Item("varint", 1, Num(1)), Stray>>))}
Singles == {Msg("f", <<a, b, c, d, List(<<>>)>>) :
    a \in {Undef, Num(1), Bin(Four), Zero("bits32")}, b \in {Undef, Bin(Four \o Four)},
    c \in {Undef, Num(1), Bin(<<>>), Bin(<<7>>), Bin([i \in 1 .. 40 |-> i])}, d \in Lists({Num(300)}, 1)}
Runs == {Msg("f", <<Bin(Four), Undef, c, d, u>>) :
    c \in {Undef, Num(1), Bin(<<>>), Bin(<<7>>), Bin([i \in 1 .. 40 |-> i])},
    d \in {Undef, List(<<Num(1), Bin(<<>>)>>), List(<<Num(1), Stray>>)} \cup Lists({Num(0), Num(300)}, 2),
    u \in {Undef} \cup {List(<<i>>) : i \in Items \cup BadItems}}
Unknowns == {Msg("f", <<Bin(Four), Undef, Undef, List(<<>>), u>>) : u \in Lists(Items, 2)}

\* Message h: groups, once, repeated and nested.
G(a, g, l, u) == Msg("g", <<a, g, List(l), List(u)>>)
Inner == {G(a, Undef, l, u) : a \in {Undef, Num(300)}, l \in {<<>>, <<Num(1)>>}, u \in {<<>>, <<Item("varint", 9, Num(1))>>}}
Outer == Inner \cup {G(Num(1), g, <<>>, <<>>) : g \in Inner}
Groups == {Msg("h", <<a, g, List(h)>>) :
    a \in {Undef}, g \in {Undef, Num(1)} \cup Outer, h \in Strings(Inner, 1)}
  \cup {Msg("h", <<Num(1), Undef, List(h)>>) : h \in Strings(Outer, 1) \cup Strings(Inner, 2) \cup {<<v, Stray>> : v \in Inner}}

\* Message o: oneofs.
X(s) == Msg("x", <<Num(1), s, Undef>>)
O(choice, r, q) == Msg("o", <<choice, List(r), q>>)
Variants == {Undef, Num(1)} \cup {Tuple(<<Atom(n), t>>) : n \in {"x", "y", "z"}, t \in {Undef, Num(0), Num(300), X(Undef), X(X(Undef))}}
Oneofs == {O(c, r, q) : c \in Variants, r \in Strings({O(d, <<>>, X(Undef)) : d \in Variants}, 1), q \in {Undef, X(Undef)}}

\* One message that may fill the buffer, with something to write after it.
Filling == {Msg("f", <<Bin(Four), Undef, Undef, List(<<>>), List(<<Item("bytes", 9, Bin([k \in 1 .. n |-> k])), i>>)>>) :
    n \in 1 .. 12, i \in Items}

Strangers == {Msg("m", <<>>), Msg("unheard", <<>>), Msg("entry", <<Num(1), Num(2)>>)}

\* Messages that fail half-way down, for other calls to follow.
Failed == {M(Undef, <<>>, M(Num(1), <<>>, Undef, <<>>, <<Undef>>), <<>>, <<>>),
           Msg("h", <<Undef, Undef, List(<<G(Undef, Num(1), <<>>, <<>>)>>)>>)}

\* Unknown fields as the decoder keeps them, an empty group among them.
Kept == {Msg("f", <<Bin(Four), Undef, Undef, List(<<>>), List(<<NoItems>>)>>)}

\* TLC evaluates a constant's value at each use, but Messages once.
Messages == UNION {Failed, Improper, Nested, Pairs, Books, Singles, Runs, Unknowns, Groups, Oneofs, Strangers, Filling, Kept}
MCMessage == Messages

\* All that a set of terms is made of, and how deep a term nests.
Made(t) == t[1] \in {"list", "tuple"}
RECURSIVE Parts(_), Nesting(_)
Parts(S) ==
    IF S = {} THEN {}
    ELSE {t : t \in S \cup Parts({v : v \in UNION {ToSet(t[2]) : t \in {u \in S : Made(u)}}})}
Nesting(t) == IF Made(t) THEN 1 + Max({0} \cup {Nesting(t[2][i]) : i \in DOMAIN t[2]}) ELSE 0
Terms == Parts(Messages)
MCTerm == Terms

MCInit ==
    /\ \/ \E m \in MCMessage \ Kept : todo = <<m>>
       \/ \E m \in Failed, n \in Pairs \cup Groups : todo = <<m, n>>
    /\ Init
MCSpec == MCInit /\ [][Next]_vars

EmptyGroupInit ==
    /\ \E m \in Kept : todo = <<m>>
    /\ Init
EmptyGroupSpec == EmptyGroupInit /\ [][Next]_vars

AllocInit ==
    /\ \E m \in Filling : todo = <<m>>
    /\ Init
AllocSpec == AllocInit /\ [][Next]_vars
=============================================================================
