----------------------------- MODULE EpPresize -----------------------------
(***************************************************************************)
(* stack_ensure_all of ep_node.c: the walk over the nodes of a schema that *)
(* finds how deep encode and decode can nest, on the stack of slot 0, and  *)
(* stack_ensure_size, which brings the other slots up to it; and the codec *)
(* that later nests on one of these stacks, growing it where it must.      *)
(***************************************************************************)
EXTENDS Naturals, Sequences

CONSTANTS
    Node, Enum,    \* nodes, and the enums among them
    LastSlot,      \* state->lock_n - 1
    InitSize,      \* spots of a stack that load() makes
    MaxDepth       \* bound: how deep a message nests

Slot == 0 .. LastSlot
\* What the walk reads of a field: one sub-node, a list of them, the node of
\* a oneof, or nothing for a scalar.
Kind == {"one", "many", "oneof", "scalar"}
Field == Kind \X Node

ASSUME PresizeAssumption ==
    /\ Enum \subseteq Node
    /\ LastSlot \in Nat
    /\ InitSize \in Nat \ {0}
    /\ MaxDepth \in Nat

VARIABLES
    fields,   \* node -> its fields, in the order of node->fields
    names,    \* cache->names
    phase,    \* "walk", then "resize", then "serve"; "failed" where _realloc did
    i,        \* the root the walk is at, then the slot
    path,     \* spots from the first to the current
    size,     \* slot -> its spots
    busy      \* slot whose codec is at work

schema == <<fields, names>>
vars == <<schema, phase, i, path, size, busy>>

Spot == [type : {"tuple", "list"}, node : Node, pos : Nat]
Tuple(n) == [type |-> "tuple", node |-> n, pos |-> 0]
List(n) == [type |-> "list", node |-> n, pos |-> 0]

Init ==
    /\ fields \in [Node -> Seq(Field)]
    /\ names \in Seq(Node)
    /\ phase = "walk" /\ i = 1 /\ path = <<>>
    /\ size = [s \in Slot |-> InitSize]
    /\ busy = 0

Top == path[Len(path)]

\* Mutants: the position is not moved, or moved past the field behind.
AtOnce(pos) == path
AtPast(pos) == [path EXCEPT ![Len(path)] = [Top EXCEPT !.pos = pos + 1]]

At(pos) == [path EXCEPT ![Len(path)] = [Top EXCEPT !.pos = pos]]
Fields == fields[Top.node]

\* Mutant: spots are counted from 1 here.
EnsureLate(s, depth) ==
    IF depth > size[s] + 1 THEN [size EXCEPT ![s] = 2 * @] ELSE size

\* stack_ensure: the stack is doubled when the new spot is past its end.
Ensure(s, depth) ==
    IF depth > size[s] THEN [size EXCEPT ![s] = 2 * @] ELSE size

\* The spot is entered, unless _realloc fails.
Push(s, new) ==
    \/ path' = new /\ size' = Ensure(s, Len(new)) /\ UNCHANGED phase
    \/ Len(new) > size[s] /\ phase' = "failed" /\ UNCHANGED <<path, size>>

-----------------------------------------------------------------------------
(* The walk *)

Walking(type) == phase = "walk" /\ path # <<>> /\ Top.type = type

StartRoot ==
    /\ phase = "walk" /\ path = <<>> /\ i <= Len(names)
    /\ path' = <<Tuple(names[i])>>
    /\ i' = i + 1
    /\ UNCHANGED <<schema, phase, size, busy>>

\* The fields of an enum are no ep_field_t.
SkipEnum ==
    /\ Walking("tuple") /\ Top.node \in Enum /\ Top.pos < Len(Fields)
    /\ path' = At(Len(Fields))
    /\ UNCHANGED <<schema, phase, i, size, busy>>

LeaveTuple ==
    /\ Walking("tuple") /\ Top.pos = Len(Fields)
    /\ path' = SubSeq(path, 1, Len(path) - 1)
    /\ UNCHANGED <<schema, phase, i, size, busy>>

\* Mutant: only the spot itself is looked at, not the way that led to it.
OnPathTop(n) == n = Top.node

\* spot_path_contains_node.
OnPath(n) == \E k \in DOMAIN path : path[k].node = n

\* Mutant: the messages of a oneof are forgotten.
DescendsBeside(j) == Fields[j][1] \in {"one", "many"} /\ ~OnPath(Fields[j][2])

\* A field that the walk goes down.
Descends(j) == Fields[j][1] # "scalar" /\ ~OnPath(Fields[j][2])
Ahead == {j \in Top.pos + 1 .. Len(Fields) : Descends(j)}

Below(field) == IF field[1] = "many" THEN List(field[2]) ELSE Tuple(field[2])

GoDown ==
    /\ Walking("tuple") /\ Top.node \notin Enum
    /\ \E j \in Ahead :
        /\ \A k \in Ahead : j <= k
        /\ Push(0, Append(At(j), Below(Fields[j])))
    /\ UNCHANGED <<schema, i, busy>>

NothingBelow ==
    /\ Walking("tuple") /\ Top.node \notin Enum
    /\ Top.pos < Len(Fields) /\ Ahead = {}
    /\ path' = At(Len(Fields))
    /\ UNCHANGED <<schema, phase, i, size, busy>>

EnterElement ==
    /\ Walking("list") /\ Top.pos = 0
    /\ Push(0, Append(At(1), Tuple(Top.node)))
    /\ UNCHANGED <<schema, i, busy>>

LeaveList ==
    /\ Walking("list") /\ Top.pos > 0
    /\ path' = SubSeq(path, 1, Len(path) - 1)
    /\ UNCHANGED <<schema, phase, i, size, busy>>

EndWalk ==
    /\ phase = "walk" /\ path = <<>> /\ i > Len(names)
    /\ phase' = "resize" /\ i' = 1
    /\ UNCHANGED <<schema, path, size, busy>>

\* stack_ensure_size, for one slot after the other.
Resize ==
    /\ phase = "resize" /\ i <= LastSlot
    /\ \/ /\ size' = [size EXCEPT ![i] = IF @ >= size[0] THEN @ ELSE size[0]]
          /\ i' = i + 1
          /\ UNCHANGED phase
       \/ size[i] < size[0] /\ phase' = "failed" /\ UNCHANGED <<i, size>>
    /\ UNCHANGED <<schema, path, busy>>

Serve ==
    /\ phase = "resize" /\ i > LastSlot
    /\ phase' = "serve"
    /\ UNCHANGED <<schema, i, path, size, busy>>

-----------------------------------------------------------------------------
(* encode and decode *)

Root ==
    /\ phase = "serve" /\ path = <<>>
    /\ \E n \in {names[k] : k \in DOMAIN names} \ Enum, s \in Slot :
        path' = <<Tuple(n)>> /\ busy' = s
    /\ UNCHANGED <<schema, phase, i, size>>

\* The spots of a codec: the alternatives of a oneof are fields of the
\* message, which take no spot for the oneof, and decode none for the list.
Reaches ==
    LET own == {Fields[j] : j \in DOMAIN Fields}
        oneofs == {f \in own : f[1] = "oneof"}
        alternatives == UNION {{fields[f[2]][j] : j \in DOMAIN fields[f[2]]} : f \in oneofs}
    IN  {f \in (own \ oneofs) \cup alternatives : f[1] # "scalar"}

Nest ==
    /\ phase = "serve" /\ path # <<>> /\ Len(path) < MaxDepth
    /\ IF Top.type = "list"
       THEN Push(busy, Append(path, Tuple(Top.node)))
       ELSE \E f \in Reaches :
                \/ Push(busy, Append(path, Below(f)))
                \/ f[1] = "many" /\ Push(busy, Append(path, Tuple(f[2])))
    /\ UNCHANGED <<schema, i, busy>>

Unnest ==
    /\ phase = "serve" /\ path # <<>>
    /\ path' = SubSeq(path, 1, Len(path) - 1)
    /\ UNCHANGED <<schema, phase, i, size, busy>>

-----------------------------------------------------------------------------

Load ==
    \/ StartRoot \/ SkipEnum \/ LeaveTuple \/ GoDown \/ NothingBelow
    \/ EnterElement \/ LeaveList \/ EndWalk \/ Resize \/ Serve
Next == Load \/ Root \/ Nest \/ Unnest

\* The loading process holds the write lock, and nothing stops it.
Spec == Init /\ [][Next]_vars /\ WF_vars(Load)

-----------------------------------------------------------------------------
(* Properties *)

\* Every variable keeps its type, and no spot is past the last field.
TypeOK ==
    /\ fields \in [Node -> Seq(Field)] /\ names \in Seq(Node)
    /\ phase \in {"walk", "resize", "serve", "failed"}
    /\ i \in Nat \ {0} /\ path \in Seq(Spot)
    /\ \A k \in DOMAIN path : path[k].type = "tuple" => path[k].pos <= Len(fields[path[k].node])
    /\ size \in [Slot -> Nat \ {0}] /\ busy \in Slot

\* The walk never comes to a node that it is inside of: a list and its
\* element, above each other, are the only spots with the same node.
PathSimple ==
    phase = "walk" => \A j, k \in DOMAIN path :
        j < k /\ path[j].node = path[k].node => k = j + 1 /\ path[j].type = "list"

\* No spot is written past the end of its stack.
InsideStack == phase # "failed" => Len(path) <= size[IF phase = "serve" THEN busy ELSE 0]

\* After a load, every slot has the spots for any message that is not
\* recursive: no codec reallocates its stack unless a node is inside itself.
Recursive ==
    \E j, k \in DOMAIN path : j < k /\ path[j].type = "tuple" /\ path[j].node = path[k].node
PresizedForAll == [][phase = "serve" /\ size' # size => Recursive']_vars

\* Whatever refers to whatever, the walk comes to an end.
WalkEnds == <>(phase # "walk")
=============================================================================
