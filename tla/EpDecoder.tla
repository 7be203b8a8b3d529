----------------------------- MODULE EpDecoder -----------------------------
(***************************************************************************)
(* decode() of c_src/ep_decoder.c: the loop that turns one binary into a   *)
(* tuple without recursion, on the stack of spots that a scratch slot      *)
(* keeps from call to call.  One action is one turn of the loop: a spot    *)
(* whose end is reached is popped and delivered to the one below, anything *)
(* else starts with a tag.  Calls follow each other on the same stack, and *)
(* what a finished or failed call leaves there is what the next one finds. *)
(***************************************************************************)
EXTENDS EpSchema

\* One call of decode/3: any message, any binary.
Call == [name : Node, bin : Seq(0 .. 255)]

VARIABLES
    wire,     \* dec->bin
    p,        \* dec->p, as an offset into wire
    end,      \* dec->end
    stack,    \* stack->spots; never shrinks
    sp,       \* the spot in use, 0 when none is
    status,   \* "idle" before the first call, "run", "done", "error", or
              \* "denied" when an allocation failed
    result,   \* dec->result
    todo      \* the calls still to be made, one after the other on this stack

vars == <<wire, p, end, stack, sp, status, result, todo>>

-----------------------------------------------------------------------------
(* Terms, fields and spots *)

Junk == <<"junk">>       \* an element of t_arr nobody wrote in this message
Cons1(x, t) == List(<<x>> \o t[2])

\* t_arr when a node is set on it and nothing is written.
Resized(arr, n) ==
    [i \in 1 .. Size(n) + 1 |-> IF i <= Len(arr) THEN arr[i] ELSE Junk]

ZeroSpot == [node |-> NoNode, arr |-> <<>>, field |-> NoField, pos |-> 0,
             stop |-> 0, group |-> NoField, saved |-> 0]

Top == stack[sp]
\* Element i of the spot, as the list a repeated field finds or makes there.
ListAt(i) == IF IsList(Top.arr[i]) THEN Top.arr[i] ELSE List(<<>>)
\* The stack with room for a spot above sp (stack_ensure): doubled when full.
Full == sp = Len(stack)
Grown == IF Full THEN stack \o [i \in DOMAIN stack |-> ZeroSpot] ELSE stack
SetTop(i, t) == stack' = [stack EXCEPT ![sp].arr[i] = t]

-----------------------------------------------------------------------------
(* Calls *)

Init ==
    /\ wire = <<>> /\ p = 0 /\ end = 0
    /\ stack = <<ZeroSpot>> /\ sp = 0
    /\ status = "idle" /\ result = NoTerm
    /\ todo \in Seq(Call)

Cleared(spot) == [spot EXCEPT !.field = NoField, !.group = NoField, !.saved = 0]
Started(spot, call) == [Cleared(spot) EXCEPT !.node = call.name, !.arr = Filled(call.name),
                                             !.pos = 0, !.stop = Len(call.bin)]

\* raise_exception: the call is over, the stack stays as it is.
Raise == status' = "error" /\ UNCHANGED <<wire, p, end, sp, result, todo>>

\* The same for want of memory.
Deny == status' = "denied" /\ UNCHANGED <<wire, p, end, sp, result, todo>>

\* fill_default allocates each empty binary: what it leaves when one is denied.
HalfFilled(spot, n) ==
    {[spot EXCEPT !.node = n,
                  !.arr = [i \in 1 .. Size(n) + 1 |->
                              IF i < k THEN Filled(n)[i] ELSE Resized(spot.arr, n)[i]]] :
        k \in {i \in DOMAIN Filled(n) : Filled(n)[i] = Zero("bytes")}}

\* Mutant: only the spot the call starts on is cleared.
BeginKeepsSpots ==
    /\ status # "run" /\ todo # <<>>
    /\ LET call == Head(todo)
       IN  /\ wire' = call.bin /\ p' = 0 /\ end' = Len(call.bin)
           /\ stack' = [stack EXCEPT ![1] = Started(@, call)]
    /\ sp' = 1
    /\ status' = "run" /\ result' = NoTerm /\ todo' = Tail(todo)

\* decode_2 has found the message; decode clears every spot of the stack.  The
\* first is wide enough for any message since the load.
Begin ==
    /\ status # "run" /\ todo # <<>>
    /\ LET call == Head(todo)
           CallOn(first) == stack' = [i \in 1 .. Len(stack) |->
                                         IF i > 1 THEN Cleared(stack[i]) ELSE first]
       IN  /\ wire' = call.bin /\ p' = 0 /\ end' = Len(call.bin)
           /\ \/ status' = "run" /\ CallOn(Started(stack[1], call))
              \/ /\ status' = "denied"
                 /\ \E first \in HalfFilled(Cleared(stack[1]), call.name) : CallOn(first)
    /\ sp' = 1
    /\ result' = NoTerm /\ todo' = Tail(todo)

-----------------------------------------------------------------------------
(* Delivering a finished spot *)

Put(arr, i, t) == IF i <= Len(arr) THEN [arr EXCEPT ![i] = t] ELSE arr
Get(arr, i) == IF i <= Len(arr) THEN arr[i] ELSE Junk

\* Tuples of the same message, of which merge_group_values makes a new one.
Alike(a, b) == IsTuple(a) /\ IsTuple(b) /\ Len(a[2]) = Len(b[2]) /\ a[2][1] = b[2][1]

\* merge_group_values: element by element along the slots of node n.  The
\* recursion over terms is a recursive function over paths into them.
Merge(prev, newer, n) ==
    LET Term(t, path) == FoldLeft(LAMBDA x, i : x[2][i], t, path)
        NodeOf(path) == FoldLeft(LAMBDA m, i : Schema[m].slots[i - 1].sub, n, path)
        merged[path \in Seq(Nat)] ==
            LET a == Term(prev, path)
                b == Term(newer, path)
                slot(i) == Schema[NodeOf(path)].slots[i - 1]
                Element(i) ==
                    CASE slot(i).occ = "repeated" /\ IsList(b[2][i]) -> List(a[2][i][2] \o b[2][i][2])
                      [] slot(i).occ = "repeated" /\ ~IsList(b[2][i]) -> a[2][i]
                      [] slot(i).occ # "repeated" /\ b[2][i] = Undef -> a[2][i]
                      [] OTHER ->
                    IF slot(i).type \in {"msg", "group"} /\ a[2][i] # Undef
                    THEN merged[Append(path, i)] ELSE b[2][i]
            IN  IF Alike(a, b)
                THEN Tuple([i \in 1 .. Len(a[2]) |-> IF i = 1 THEN a[2][1] ELSE Element(i)])
                ELSE b
    IN  merged[<<>>]

\* assign_group_value
AssignGroup(spot, term) ==
    LET f == spot.field
        old == Get(spot.arr, f.rnum)
    IN  Put(spot.arr, f.rnum,
            CASE f.occ = "repeated" -> Cons1(term, old)
              [] f.occ # "repeated" /\ old # Undef -> Merge(old, term, f.sub)
              [] OTHER -> term)

\* The lists of a finished message, built by prepending, are turned around;
\* a map entry has none.
Reversed(n, arr) ==
    [i \in 1 .. Len(arr) |->
        IF i > 1 /\ Schema[n].kind # "map" /\ Schema[n].slots[i - 1].occ = "repeated" /\ IsList(arr[i])
        THEN List(Reverse(arr[i][2])) ELSE arr[i]]

\* The term a spot becomes.
Value(spot, arr) ==
    CASE spot.field.oneof -> Tuple(<<Atom(spot.field.name), Tuple(arr)>>)
      [] ~spot.field.oneof /\ Schema[spot.node].kind = "map" -> Tuple(Tail(arr))
      [] OTHER -> Tuple(arr)

\* A map entry whose value is a message must have one.
BadEntry(spot, arr) ==
    /\ spot.field.type = "map" /\ IsList(spot.arr[spot.pos])
    /\ Schema[spot.field.sub].slots[2].type = "msg" /\ arr[3] = Undef

\* The elements of the spot below, once arr, as term, is handed to it: a
\* group's value is merged, a list grows, but a map keeps one entry per key.
Deliver(spot, arr, term) ==
    LET old == spot.arr[spot.pos]
        dup == SelectInSeq(old[2], LAMBDA entry : entry[2][1] = arr[2])
    IN  CASE spot.field.type = "group" -> AssignGroup(spot, term)
          [] spot.field.type # "group" /\ ~IsList(old) -> Put(spot.arr, spot.pos, term)
          [] OTHER ->
        IF spot.field.type = "map" /\ dup > 0
        THEN [spot.arr EXCEPT ![spot.pos][2][dup][2][2] = arr[3]]
        ELSE Put(spot.arr, spot.pos, Cons1(term, old))

Finished == Reversed(Top.node, Top.arr)
Popped == [Cleared(Top) EXCEPT !.arr = Finished, !.pos = 0]

\* Where reading resumes: behind the end tag when the spot is a group.
Resume ==
    LET tag == TagAt(wire, p, Top.saved)
    IN  IF Top.group = NoField THEN p
        ELSE IF tag.wt = EGROUP /\ tag.fnum = Top.group.fnum THEN tag.next ELSE Fail

AtEnd == status = "run" /\ p = end
Unfit ==
    \/ MissingRequired(Top.node, Finished)
    \/ Top.group # NoField /\ Resume = Fail
    \/ sp > 1 /\ stack[sp - 1].field.type # "group" /\ BadEntry(stack[sp - 1], Finished)

PopRaise ==
    /\ AtEnd /\ Unfit
    /\ Raise /\ UNCHANGED stack

\* Mutant: the loop is not left once the message is complete.
PopRootRunsOn ==
    /\ AtEnd /\ ~Unfit /\ sp = 1
    /\ stack' = [stack EXCEPT ![1] = Popped]
    /\ sp' = 0
    /\ result' = Value(Top, Finished)
    /\ UNCHANGED <<wire, p, end, status, todo>>

PopRoot ==
    /\ AtEnd /\ ~Unfit /\ sp = 1
    /\ stack' = [stack EXCEPT ![1] = Popped]
    /\ sp' = 0
    /\ result' = Value(Top, Finished)
    /\ status' = "done"
    /\ UNCHANGED <<wire, p, end, todo>>

\* Mutant: the end of the enclosing message is not restored.
PopInnerKeepsEnd ==
    /\ AtEnd /\ ~Unfit /\ sp > 1
    /\ stack' = [stack EXCEPT ![sp] = Popped,
                              ![sp - 1].arr = Deliver(stack[sp - 1], Finished, Value(Top, Finished))]
    /\ sp' = sp - 1
    /\ p' = Resume
    /\ end' = IF Top.group = NoField THEN end ELSE stack[sp - 1].stop
    /\ UNCHANGED <<wire, status, result, todo>>

\* A group is about to be merged with what its element holds.
Merging ==
    LET below == stack[sp - 1]
    IN  /\ below.field.type = "group" /\ below.field.occ # "repeated"
        /\ Alike(Get(below.arr, below.field.rnum), Value(Top, Finished))

\* The merge is denied its new tuple.
PopDenied ==
    /\ AtEnd /\ ~Unfit /\ sp > 1 /\ Merging
    /\ stack' = [stack EXCEPT ![sp] = Popped]
    /\ Deny

PopInner ==
    /\ AtEnd /\ ~Unfit /\ sp > 1
    /\ stack' = [stack EXCEPT ![sp] = Popped,
                              ![sp - 1].arr = Deliver(stack[sp - 1], Finished, Value(Top, Finished))]
    /\ sp' = sp - 1
    /\ p' = Resume
    /\ end' = stack[sp - 1].stop
    /\ UNCHANGED <<wire, status, result, todo>>

-----------------------------------------------------------------------------
(* Reading a field *)

AtTag == status = "run" /\ p # end
Tag == TagAt(wire, p, end)

\* The turn ends with the reader at next, or raises when that is Fail.
Continue(next) ==
    IF next = Fail THEN Raise
    ELSE p' = next /\ UNCHANGED <<wire, end, sp, status, result, todo>>

BadTag ==
    /\ AtTag /\ Tag.next = Fail
    /\ Raise /\ UNCHANGED stack

Unknown ==
    /\ AtTag
    /\ LET tag == Tag
           f == FieldOf(Top.node, tag.fnum)
           slot == UnknownSlot(Top.node)
           item == CollectUnknown(wire, tag.next, end, tag.fnum, tag.wt)
           skipped == SkipUnknown(wire, tag.next, end, tag.fnum, tag.wt)
       IN  /\ tag.next # Fail /\ f = NoField
           /\ \/ /\ slot = 0
                 /\ Continue(skipped) /\ UNCHANGED stack
              \/ /\ slot # 0
                 /\ Continue(item.next)
                 /\ IF item.next = Fail THEN UNCHANGED stack
                    ELSE SetTop(slot, Cons1(item.term, ListAt(slot)))

\* A binary, alone or in a group, is copied when it is kept.
UnknownDenied ==
    /\ AtTag
    /\ LET tag == Tag
       IN  /\ tag.next # Fail /\ FieldOf(Top.node, tag.fnum) = NoField
           /\ UnknownSlot(Top.node) # 0 /\ tag.wt \in {LENGTH, SGROUP}
           /\ CollectUnknown(wire, tag.next, end, tag.fnum, tag.wt).next # Fail
    /\ Deny /\ UNCHANGED stack

\* A packable repeated field is accepted packed whatever the schema says.
Packed ==
    /\ AtTag
    /\ LET tag == Tag
           f == FieldOf(Top.node, tag.fnum)
           run == UnpackPacked(wire, f.type, tag.next, end)
       IN  /\ tag.next # Fail /\ IsPacked(f, tag.wt)
           /\ Continue(run.next)
           /\ IF run.next = Fail THEN UNCHANGED stack
              ELSE SetTop(f.rnum, List(Reverse(run.terms) \o ListAt(f.rnum)[2]))

ScalarField ==
    /\ AtTag
    /\ LET tag == Tag
           f == FieldOf(Top.node, tag.fnum)
           value == UnpackField(wire, f, tag.next, end, tag.wt)
           term == CASE f.occ = "repeated" -> Cons1(value.term, ListAt(f.rnum))
                     [] f.oneof -> Tuple(<<Atom(f.name), value.term>>)
                     [] OTHER -> value.term
       IN  /\ tag.next # Fail /\ f.type \in Scalar /\ ~IsPacked(f, tag.wt)
           /\ Continue(value.next)
           /\ IF value.next = Fail \/ value.term = NoTerm THEN UNCHANGED stack
              ELSE SetTop(f.rnum, term)

BadNesting ==
    /\ AtTag
    /\ LET tag == Tag
           f == FieldOf(Top.node, tag.fnum)
       IN  /\ tag.next # Fail /\ f.type \in NodeKind
           /\ tag.wt # IF f.type = "group" THEN SGROUP ELSE LENGTH
    /\ Raise /\ UNCHANGED stack

\* What a sub-message starts from: defaults, or the value of the same oneof
\* alternative read before.  When another alternative is set, t_arr is left
\* as it was.
StartsAfresh(f) == f.occ = "repeated" \/ ~f.oneof \/ ~IsTuple(Top.arr[f.rnum])
StartArr(f, child) ==
    LET old == Top.arr[f.rnum]
        again == /\ old[2][1] = Atom(f.name) /\ IsTuple(old[2][2])
                 /\ Len(old[2][2][2]) = Size(f.sub) + 1
    IN  CASE StartsAfresh(f) -> Filled(f.sub)
          [] OTHER -> IF again THEN old[2][2][2] ELSE Resized(child.arr, f.sub)

\* What a spot may be left as when node f.sub cannot be set on it, for want of
\* a longer t_arr (it may be longer than arr already), or of its defaults.
Unentered(spot, f) ==
    (IF Len(spot.arr) > Size(f.sub) THEN {} ELSE {spot})
    \cup (IF StartsAfresh(f) THEN HalfFilled(spot, f.sub) ELSE {})

\* Mutant: the spot below is not told where the value goes.
PushMessageNoPos ==
    /\ AtTag
    /\ LET tag == Tag
           f == FieldOf(Top.node, tag.fnum)
           len == LengthAt(wire, tag.next, end)
           onParent == f.occ = "repeated" /\ ~Top.field.oneof
           parent == [Top EXCEPT !.field = IF onParent THEN f ELSE @]
           child == [Grown[sp + 1] EXCEPT !.field = IF onParent THEN @ ELSE f,
                         !.stop = len.after, !.node = f.sub,
                         !.arr = StartArr(f, Grown[sp + 1])]
       IN  /\ tag.next # Fail /\ f.type \in {"msg", "map"} /\ tag.wt = LENGTH
           /\ stack' = [Grown EXCEPT ![sp] = parent, ![sp + 1] = child]
           /\ \/ len.next = Fail /\ Raise
              \/ /\ len.next # Fail
                 /\ sp' = sp + 1 /\ p' = len.next /\ end' = len.after
                 /\ UNCHANGED <<wire, status, result, todo>>

\* A message or map entry becomes a spot of its own.  Its field is noted on
\* the spot below when it is repeated, unless a oneof needs that place.
PushMessage ==
    /\ AtTag
    /\ LET tag == Tag
           f == FieldOf(Top.node, tag.fnum)
           len == LengthAt(wire, tag.next, end)
           onParent == f.occ = "repeated" /\ ~Top.field.oneof
           parent == [Top EXCEPT !.pos = f.rnum, !.field = IF onParent THEN f ELSE @,
                         !.arr[f.rnum] = IF f.occ = "repeated" THEN ListAt(f.rnum) ELSE @]
           child == [Grown[sp + 1] EXCEPT !.field = IF onParent THEN @ ELSE f]
           entered == [child EXCEPT !.stop = len.after, !.node = f.sub,
                                    !.arr = StartArr(f, child)]
       IN  /\ tag.next # Fail /\ f.type \in {"msg", "map"} /\ tag.wt = LENGTH
           /\ \/ /\ Full
                 /\ stack' = [stack EXCEPT ![sp] = parent]
                 /\ Deny
              \/ /\ len.next = Fail
                 /\ stack' = [Grown EXCEPT ![sp] = parent, ![sp + 1] = child]
                 /\ Raise
              \/ /\ len.next # Fail
                 /\ \E left \in Unentered([child EXCEPT !.stop = len.after], f) :
                        stack' = [Grown EXCEPT ![sp] = parent, ![sp + 1] = left]
                 /\ Deny
              \/ /\ len.next # Fail
                 /\ stack' = [Grown EXCEPT ![sp] = parent, ![sp + 1] = entered]
                 /\ sp' = sp + 1 /\ p' = len.next /\ end' = len.after
                 /\ UNCHANGED <<wire, status, result, todo>>

\* Mutant: looking for the end tag leaves the reader before the start tag.
PushGroupRewinds ==
    /\ AtTag
    /\ LET tag == Tag
           f == FieldOf(Top.node, tag.fnum)
           group == GroupBounds(wire, tag.next, end, f.fnum)
           parent == [Top EXCEPT !.pos = f.rnum, !.field = f]
           child == [Grown[sp + 1] EXCEPT !.saved = end, !.stop = group.tag, !.group = f, !.field = f,
                                          !.pos = 0, !.node = f.sub, !.arr = Filled(f.sub)]
       IN  /\ tag.next # Fail /\ f.type = "group" /\ tag.wt = SGROUP
           /\ stack' = [Grown EXCEPT ![sp] = parent, ![sp + 1] = child]
           /\ \/ group.tag = Fail /\ Raise
              \/ /\ group.tag # Fail
                 /\ sp' = sp + 1 /\ end' = group.tag
                 /\ UNCHANGED <<wire, p, status, result, todo>>

\* begin_group_decode: the end tag is found first and bounds the group.
PushGroup ==
    /\ AtTag
    /\ LET tag == Tag
           f == FieldOf(Top.node, tag.fnum)
           group == GroupBounds(wire, tag.next, end, f.fnum)
           parent == [Top EXCEPT !.pos = f.rnum, !.field = f]
           child == [Grown[sp + 1] EXCEPT !.saved = end]
           bounded == [child EXCEPT !.stop = group.tag, !.group = f, !.field = f, !.pos = 0]
           entered == [bounded EXCEPT !.node = f.sub, !.arr = Filled(f.sub)]
       IN  /\ tag.next # Fail /\ f.type = "group" /\ tag.wt = SGROUP
           /\ \/ /\ Full
                 /\ stack' = [stack EXCEPT ![sp] = parent]
                 /\ Deny
              \/ /\ group.tag = Fail
                 /\ stack' = [Grown EXCEPT ![sp] = parent, ![sp + 1] = child]
                 /\ Raise
              \/ /\ group.tag # Fail
                 /\ \E left \in Unentered(bounded, f) :
                        stack' = [Grown EXCEPT ![sp] = parent, ![sp + 1] = left]
                 /\ Deny
              \/ /\ group.tag # Fail
                 /\ stack' = [Grown EXCEPT ![sp] = parent, ![sp + 1] = entered]
                 /\ sp' = sp + 1 /\ p' = tag.next /\ end' = group.tag
                 /\ UNCHANGED <<wire, status, result, todo>>

Turn == \/ PopRaise \/ PopRoot \/ PopInner \/ PopDenied
        \/ BadTag \/ BadNesting \/ Unknown \/ UnknownDenied \/ Packed \/ ScalarField \/ PushMessage \/ PushGroup

\* All is decoded; a call in progress is never stuck here.
Rest == status # "run" /\ todo = <<>> /\ UNCHANGED vars

Next == Begin \/ Turn \/ Rest

Spec == Init /\ [][Next]_vars

-----------------------------------------------------------------------------
(* Properties *)

Spot == [node : Node \cup {NoNode}, field : Field \cup {NoField}, group : Field \cup {NoField},
         pos : Nat, stop : Nat, saved : Nat]

\* The type invariant; the elements of t_arr are terms of any shape.
TypeOK ==
    /\ wire \in Seq(0 .. 255) /\ todo \in Seq(Call)
    /\ p \in Nat /\ end \in Nat
    /\ \A i \in DOMAIN stack :
        [k \in DOMAIN stack[i] \ {"arr"} |-> stack[i][k]] \in Spot
    /\ sp \in 0 .. Len(stack)
    /\ status \in {"idle", "run", "done", "error", "denied"}
    /\ status = "run" => sp > 0 /\ \A i \in 1 .. sp : stack[i].node # NoNode

\* Every reader stops at dec->end, and the ends nest: whatever lengths and
\* group tags the binary holds, the reader is inside the innermost message,
\* that inside the next, and the outermost inside the binary
\* (ep_decoder.c:1397, 1454, 1049; a pop restores the end at 1318).
EndsNested ==
    status = "run" =>
        /\ p <= end /\ end = Top.stop
        /\ stack[1].stop = Len(wire)
        /\ \A i \in 2 .. sp :
            /\ stack[i].stop <= stack[i - 1].stop
            /\ stack[i].group # NoField =>
                stack[i].saved = stack[i - 1].stop /\ stack[i].stop < stack[i].saved

\* A finished spot is handed to element pos of the one below: that element's
\* slot must be the one whose type is the finished node, or the oneof it is
\* an alternative of (ep_decoder.c:1387, 1437, 1043 set it, 1278-1320 use it).
SpotsLinked ==
    status = "run" =>
        \A i \in 2 .. sp :
            LET parent == stack[i - 1]
            IN  \E f \in Schema[parent.node].fields :
                    f.rnum = parent.pos /\ f.sub = stack[i].node /\ f.type \in NodeKind

\* No turn goes back or round in circles: it ends the call, reads on, or hands
\* a finished spot down at the place where it is.  Every call ends, after at
\* most one turn per byte and per spot.
ReaderAdvances ==
    [][status = "run" /\ status' = "run" => p' > p \/ (p' = p /\ sp' < sp)]_vars
=============================================================================
