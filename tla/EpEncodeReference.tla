------------------------- MODULE EpEncodeReference -------------------------
(***************************************************************************)
(* What encode() promises: it accepts the messages that fit the schema,    *)
(* and what it writes means, to the recursive reading of the wire format,  *)
(* the message it was given.                                               *)
(***************************************************************************)
EXTENDS EpEncoder, EpReference

RECURSIVE Fitting(_, _), FittingValue(_, _), FittingItem(_)

\* The tuple elements t fit the slots of node n.
Fitting(n, t) ==
    /\ Len(t) = Size(n)
    /\ \A i \in DOMAIN t :
        LET f == Schema[n].slots[i]
            alternatives == {g \in Schema[n].fields : g.oneof /\ g.rnum = i + 1}
        IN  CASE f.type = "unknown" -> IsList(t[i]) /\ \A j \in DOMAIN t[i][2] : FittingItem(t[i][2][j])
              [] f.occ = "repeated" /\ f.type # "unknown" ->
                   IsList(t[i]) /\ \A j \in DOMAIN t[i][2] : FittingValue(f, t[i][2][j])
              [] OTHER ->
            \/ t[i] = Undef /\ f.occ # "required"
            \/ f.type = "oneof" /\ IsTuple(t[i]) /\ Len(t[i][2]) = 2
               /\ \E g \in alternatives : t[i][2][1] = Atom(g.name) /\ FittingValue(g, t[i][2][2])
            \/ f.type # "oneof" /\ FittingValue(f, t[i])

FittingValue(f, t) ==
    CASE f.type \in Scalar -> IsOf(f.type, t)
      [] f.type = "map" -> IsTuple(t) /\ Fitting(f.sub, t[2])
      [] OTHER -> /\ IsTuple(t) /\ t[2] # <<>> /\ t[2][1] = Atom(f.sub)
                  /\ Fitting(f.sub, Tail(t[2]))

FittingItem(t) ==
    /\ IsTuple(t) /\ Len(t[2]) = 3 /\ t[2][2][1] = "int"
    /\ \/ \E type \in Scalar : t[2][1] = Atom(type) /\ IsOf(type, t[2][3])
       \/ /\ t[2][1] = Atom("group") /\ IsList(t[2][3])
          /\ \A i \in DOMAIN t[2][3][2] : FittingItem(t[2][3][2][i])

RECURSIVE Meant(_, _), MeantValue(_, _)

\* The tuple a reader gets for the elements t of node n: what is undefined
\* becomes what the reader puts for a field that is not there.
Meant(n, t) ==
    [i \in DOMAIN t |->
        LET f == Schema[n].slots[i]
            chosen == CHOOSE g \in Schema[n].fields :
                          g.oneof /\ g.rnum = i + 1 /\ t[i][2][1] = Atom(g.name)
        IN  CASE f.type = "unknown" -> t[i]
              [] f.type # "unknown" /\ t[i] = Undef -> Default(n, f)
              [] OTHER ->
            CASE f.type = "oneof" -> Tuple(<<t[i][2][1], MeantValue(chosen, t[i][2][2])>>)
              [] f.occ = "repeated" -> List([j \in DOMAIN t[i][2] |-> MeantValue(f, t[i][2][j])])
              [] OTHER -> MeantValue(f, t[i])]

MeantValue(f, t) ==
    CASE f.type \in Scalar -> t
      [] f.type = "map" -> Tuple(Meant(f.sub, t[2]))
      [] OTHER -> Tuple(<<Head(t[2])>> \o Meant(f.sub, Tail(t[2])))

Root == message[2][1][2]
Output == SubSeq(enc.mem, 1, enc.p)

\* A message that fits its definition is encoded, and reading the bytes back
\* gives the message: lengths, groups, packed runs and omitted values all came
\* out right, in whatever order the buffer grew under them.  Any other message
\* raises, and so may one that an allocation was denied to.
EncodesFaithfully ==
    LET fits == Root \in Node /\ Schema[Root].kind # "map" /\ Fitting(Root, Tail(message[2]))
    IN  /\ status = "done" =>
            /\ fits
            /\ Reference(Root, Output) = Tuple(<<Atom(Root)>> \o Meant(Root, Tail(message[2])))
        /\ status = "error" => enc.reason \in {"alloc", "alloc_binary"} \/ ~fits
=============================================================================
