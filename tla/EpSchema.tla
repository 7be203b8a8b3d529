------------------------------ MODULE EpSchema ------------------------------
(***************************************************************************)
(* The message definitions that encoder and decoder share, as parse_node   *)
(* and prelink_nodes of c_src/ep_node.c leave them.                        *)
(***************************************************************************)
EXTENDS EpWire

CONSTANT Schema     \* node name -> [kind, slots, fields]; see SchemaAssumption

Node == DOMAIN Schema
NodeKind == {"msg", "map", "group"}
Type == Scalar \cup NodeKind \cup {"oneof", "unknown", "none"}
Occurrence == {"required", "optional", "defaulty", "repeated"}
NoNode == "none"
Field == [name : STRING, fnum : Nat, rnum : Nat, type : Type, occ : Occurrence,
          sub : Node \cup {NoNode}, oneof : BOOLEAN, packed : BOOLEAN]

\* slots are node->fields, one per tuple element after the name, in order;
\* fields are node->v_fields, where each alternative of a oneof is a field.
\* rnum is the tuple element, counted from 1, that a field's value goes to.
ASSUME SchemaAssumption ==
    /\ NoNode \notin Node
    /\ \A n \in Node :
        /\ Schema[n].kind \in NodeKind
        /\ Schema[n].slots \in Seq(Field)
        /\ Schema[n].fields \subseteq Field
        /\ \A f \in Schema[n].fields :
            /\ f.fnum > 0 /\ f.rnum \in 2 .. Len(Schema[n].slots) + 1
            /\ f.type \in Scalar \cup NodeKind
            /\ f.type \in NodeKind => f.sub \in Node
            /\ f.packed => f.type \in Packable
        /\ \A f, g \in Schema[n].fields : f.fnum = g.fnum => f = g
        /\ \A i \in DOMAIN Schema[n].slots :
            LET f == Schema[n].slots[i]
            IN  IF f.type = "oneof" THEN f.occ # "repeated"
                ELSE f \in Schema[n].fields \/ f.type = "unknown"

\* A definition list refers to messages as messages and to groups as groups,
\* and a map's entry is a node of its own.  link_sub_node finds nodes by their
\* name alone and takes it as given.
ASSUME KindAssumption ==
    \A n \in Node : \A f \in Schema[n].fields :
        f.type \in NodeKind => Schema[f.sub].kind = f.type

Size(n) == Len(Schema[n].slots)

Undef == Atom("undefined")
IsList(t) == t # NoTerm /\ t[1] = "list"
IsTuple(t) == t # NoTerm /\ t[1] = "tuple"

NoField == [name |-> "none", fnum |-> 0, rnum |-> 0, type |-> "none",
            occ |-> "optional", sub |-> NoNode, oneof |-> FALSE, packed |-> FALSE]

FieldOf(n, fnum) ==
    IF \E f \in Schema[n].fields : f.fnum = fnum
    THEN CHOOSE f \in Schema[n].fields : f.fnum = fnum
    ELSE NoField

\* rnum of the '$unknown' element of node n, 0 when it has none.
UnknownSlot(n) ==
    LET k == SelectInSeq(Schema[n].slots, LAMBDA f : f.type = "unknown")
    IN  IF k = 0 THEN 0 ELSE k + 1

Zero(type) == CASE type = "varint" -> Num(0)
                [] type = "bits64" -> Bin([i \in 1 .. 8 |-> 0])
                [] type = "bits32" -> Bin([i \in 1 .. 4 |-> 0])
                [] type = "bytes" -> Bin(<<>>)
                [] OTHER -> Undef

\* What a tuple element is without a field on the wire; occurrence defaulty
\* stands for the one of proto3.
Default(n, f) ==
    CASE f.occ = "repeated" -> List(<<>>)
      [] f.occ \in {"required", "defaulty"} \/ Schema[n].kind = "map" -> Zero(f.type)
      [] OTHER -> Undef

Filled(n) ==
    <<Atom(n)>> \o [i \in 1 .. Size(n) |-> Default(n, Schema[n].slots[i])]

\* A packable repeated field is read packed whatever the schema says of it.
IsPacked(f, wt) == f.occ = "repeated" /\ f.type \in Packable /\ wt = LENGTH

\* An element that must be there is not; a map entry has no such.
MissingRequired(n, arr) ==
    /\ Schema[n].kind # "map"
    /\ \E i \in 2 .. Len(arr) :
        LET slot == Schema[n].slots[i - 1]
        IN  slot.occ = "required" /\ slot.type \notin {"oneof", "unknown"} /\ arr[i] = Undef
=============================================================================
