----------------------------- MODULE EpEncoder -----------------------------
(***************************************************************************)
(* encode() of c_src/ep_encoder.c: the loop that writes one message into   *)
(* the growing buffer of a scratch slot, without recursion, on the stack   *)
(* of spots.  A length is not known before the payload is written, so a    *)
(* gap is left for it, and the payload moved back when the length is in.   *)
(* One action is one field, one list element, or the end of a spot.        *)
(***************************************************************************)
EXTENDS EpSchema

CONSTANTS
    Message,    \* the terms that encode/1 is called with
    Term,       \* these and what they are made of
    Depth(_),   \* how deep a term nests
    EncInit,    \* ENC_INIT_SIZE
    Failing     \* which realloc of a call may fail; 0 is none

ASSUME BufferAssumption == EncInit \in Nat \ {0} /\ Failing \subseteq Nat

\* Every term is a number, a binary, an atom, or made of terms less deep.
ASSUME TermAssumption ==
    /\ Message \subseteq Term
    /\ \A t \in Term :
        /\ t # NoTerm /\ Depth(t) \in Nat
        /\ t[1] = "int" => t[2] \in Nat
        /\ t[1] = "bin" => t[2] \in Seq(0 .. 255)
        /\ t[1] \in {"list", "tuple"} =>
            t[2] \in Seq(Term) /\ \A i \in DOMAIN t[2] : Depth(t[2][i]) < Depth(t)

VARIABLES
    message,  \* the term of the call in progress
    enc,      \* tdata->enc; see Buffer
    stack,    \* stack->spots; never shrinks
    sp,       \* the spot in use, 0 when none is
    status,   \* "idle" before the first call, "run", "done" or "error"
    todo      \* the messages still to be encoded, on the same slot

vars == <<message, enc, stack, sp, status, todo>>

-----------------------------------------------------------------------------
(* The buffer *)

Gap == 10    \* MAX_UINT64_ENCODED_SIZE

\* Offsets stand for pointers.  A chain of writes stops at the first one that
\* clears ok; a reason once set is an exception the call ends with.
Buffer == [mem    : Seq(0 .. 255),   \* what was ever written, whether it fits or not
           p      : Nat,             \* enc->p
           end    : Nat,             \* enc->end
           cap    : Nat,             \* how many bytes are allocated
           size   : Nat,             \* enc->size, how many it says are
           left   : Nat,             \* reallocs up to the one that fails, 0 when none does
           strayed : BOOLEAN,        \* whether a byte was ever written behind cap
           ok     : BOOLEAN,
           reason : {"none", "alloc", "alloc_binary", "bad_term"}]

Stopped(e, reason) == IF e.ok THEN [e EXCEPT !.ok = FALSE, !.reason = reason] ELSE e
Refuse(e) == Stopped(e, "bad_term")
Require(e, cond) == IF cond THEN e ELSE Refuse(e)

Room(e, n) == e.p + n <= e.end

\* Mutant: the size is doubled once, however much is needed.
DoubledOnce(size, need) == 2 * size

\* The size asked for next: doubled until it is enough.
Doubled(size, need) ==
    LET double[s \in Nat \ {0}] == IF s >= need THEN s ELSE double[2 * s]
    IN  double[2 * size]

\* enc_reserve: the new size is noted before the realloc that may fail.
Reserve(e, n) ==
    LET tried == [e EXCEPT !.size = Doubled(@, e.p + n), !.left = IF @ = 0 THEN 0 ELSE @ - 1]
    IN  CASE ~e.ok \/ Room(e, n) -> e
          [] e.ok /\ ~Room(e, n) /\ e.left = 1 ->
               [tried EXCEPT !.ok = FALSE, !.reason = "alloc_binary"]
          [] OTHER -> [tried EXCEPT !.cap = tried.size, !.end = tried.size]

Written(mem, at, bytes) ==
    [i \in 1 .. Max({Len(mem), at + Len(bytes)}) |->
        CASE i > at /\ i <= at + Len(bytes) -> bytes[i - at]
          [] i <= at /\ i > Len(mem) -> 0
          [] OTHER -> mem[i]]

Put(e, at, bytes) ==
    [e EXCEPT !.mem = Written(@, at, bytes), !.strayed = @ \/ at + Len(bytes) > e.cap]

Emit(e, bytes) ==
    IF e.ok THEN [Put(e, e.p, bytes) EXCEPT !.p = @ + Len(bytes)] ELSE e

Varint(n) ==
    LET bytes[k \in Nat] ==
            IF k < 128 THEN <<k>> ELSE <<128 + (k % 128)>> \o bytes[k \div 128]
    IN  bytes[n]

PackTag(e, fnum) == Emit(Reserve(e, Gap), Varint(8 * fnum))

\* pack_tag, and the wire type put into its first byte.  Nobody looks at what
\* pack_tag returns: when it could not reserve its bytes, it has written none,
\* and the writing goes on at what would have been the tag's place.
Tagged(e, fnum, wt) ==
    LET tag == PackTag(e, fnum)
        first == IF e.p < Len(tag.mem) THEN tag.mem[e.p + 1] ELSE 0
    IN  IF ~e.ok THEN e
        ELSE [Put(tag, e.p, <<8 * (first \div 8) + wt>>) EXCEPT !.ok = TRUE]

\* Mutant: nothing is left free for the length.
OpenedFlush(e) == Reserve(e, Gap)

\* The gap for a length.
Opened(e) ==
    LET r == Reserve(e, Gap)
    IN  IF r.ok THEN [r EXCEPT !.p = @ + Gap] ELSE r

\* The length goes where the gap at offset at begins, the payload behind it.
Patched(e, at) ==
    LET payload == SubSeq(e.mem, at + Gap + 1, e.p)
    IN  IF e.ok THEN Emit([e EXCEPT !.p = at], Varint(Len(payload)) \o payload) ELSE e

-----------------------------------------------------------------------------
(* Scalars, packed runs, unknown fields *)

IsOf(type, t) ==
    CASE type = "varint" -> t[1] = "int"
      [] type = "bits64" -> t[1] = "bin" /\ Len(t[2]) = 8
      [] type = "bits32" -> t[1] = "bin" /\ Len(t[2]) = 4
      [] type = "bytes"  -> t[1] = "bin"
      [] OTHER -> FALSE

\* pack_uint32 .. pack_bytes: proto3 leaves its default value out.
PackValue(e, f, t) ==
    LET Fixed == Emit(Reserve(e, Len(t[2])), t[2])
    IN  CASE ~IsOf(f.type, t) -> Refuse(e)
          [] IsOf(f.type, t) /\ f.occ = "defaulty" /\ t = Zero(f.type) -> e
          [] OTHER ->
        CASE f.type = "varint" -> Emit(Reserve(e, Gap), Varint(t[2]))
          [] f.type \in {"bits64", "bits32"} -> Fixed
          [] f.type = "bytes" ->
               IF t[2] = <<>> THEN Emit(Reserve(e, 1), <<0>>)
               ELSE Emit(Reserve(e, Gap + Len(t[2])), Varint(Len(t[2])) \o t[2])

\* Mutant: the tag of a value that was left out stays.
PackFieldKeepsTag(e, f, t) == PackValue(Tagged(e, f.fnum, WireType[f.type]), f, t)

\* pack_field: the tag is taken back when no value followed it.
PackField(e, f, t) ==
    LET tag == Tagged(e, f.fnum, WireType[f.type])
        value == PackValue(tag, f, t)
    IN  IF value.ok /\ value.p = tag.p THEN [value EXCEPT !.p = e.p] ELSE value

PackRun(e, f, terms) ==
    LET tag == Tagged(e, f.fnum, LENGTH)
    IN  Patched(FoldLeft(LAMBDA x, t : PackValue(x, f, t), Opened(tag), terms), tag.p)

\* What stands at the end of a list whose tail is not [].
Stray == <<"stray">>

IsItem(t) == IsTuple(t) /\ Len(t[2]) = 3 /\ t[2][2][1] = "int"

\* pack_unknown_item walks a tree of items; these are its leaves in order, a
\* group being a start and an end around its own, and what is refused Stray.
\* Behind the last item of a group the tail is looked at; a group without items
\* has set none, and what the variable holds then may pass for [] or not.
Leaves(items, pass) ==
    LET leaves[item \in Term] ==
            LET content == item[2][3]
                Inner == IF content = List(<<>>) THEN IF pass THEN <<>> ELSE <<Stray>>
                         ELSE FlattenSeq([i \in DOMAIN content[2] |-> leaves[content[2][i]]])
            IN  CASE ~IsItem(item) -> <<Stray>>
                  [] IsItem(item) /\ ~(item[2][1] = Atom("group") /\ IsList(content)) -> <<item>>
                  [] OTHER -> <<<<"start", item[2][2][2]>>>> \o Inner \o <<<<"end", item[2][2][2]>>>>
    IN  FlattenSeq([i \in DOMAIN items |-> leaves[items[i]]])

\* The payload of a length-delimited item is reserved after its length is in.
PackLeaf(e, leaf) ==
    LET Known == leaf[1] = "tuple" /\ \E type \in Scalar : leaf[2][1] = Atom(type)
        type == leaf[2][1][2]
        t == leaf[2][3]
        tag == Tagged(e, leaf[2][2][2], WireType[type])
    IN  CASE leaf = Stray -> Refuse(e)
          [] leaf[1] = "start" -> Tagged(e, leaf[2], SGROUP)
          [] leaf[1] = "end" -> Tagged(e, leaf[2], EGROUP)
          [] leaf[1] = "tuple" /\ ~Known -> Refuse(PackTag(e, leaf[2][2][2]))
          [] OTHER ->
        CASE ~IsOf(type, t) -> Refuse(tag)
          [] IsOf(type, t) /\ type = "varint" -> Emit(Reserve(tag, Gap), Varint(t[2]))
          [] IsOf(type, t) /\ type = "bytes" ->
               LET length == Emit(tag, Varint(Len(t[2]))) IN Emit(Reserve(length, Len(t[2])), t[2])
          [] OTHER -> Emit(Reserve(tag, Len(t[2])), t[2])

PackUnknown(e, t, pass) ==
    IF IsList(t) THEN FoldLeft(PackLeaf, e, Leaves(t[2], pass)) ELSE Refuse(e)

-----------------------------------------------------------------------------
(* Calls *)

ZeroSpot == [kind |-> "tuple", node |-> NoNode, field |-> NoField, array |-> <<>>,
             pos |-> 0, list |-> <<>>, need |-> FALSE, at |-> 0]

Top == stack[sp]
\* The stack with room for a spot above sp (stack_ensure): doubled when full.
Full == sp = Len(stack)
Grown == IF Full THEN stack \o [i \in DOMAIN stack |-> ZeroSpot] ELSE stack

Init ==
    /\ message = NoTerm
    /\ enc = [mem |-> <<>>, p |-> 0, end |-> EncInit, cap |-> EncInit, size |-> EncInit,
              left |-> 0, strayed |-> FALSE, ok |-> TRUE, reason |-> "none"]
    /\ stack = <<ZeroSpot>> /\ sp = 0
    /\ status = "idle"
    /\ todo \in Seq(Message)

\* A call raises, and leaves what it wrote in the buffer.
Raise(e) == status' = "error" /\ enc' = e /\ UNCHANGED <<message, stack, sp, todo>>

\* The turn goes on with the buffer e, unless a check or a realloc failed.
\* What a failed turn put on a spot is overwritten before it is read.
Proceed(e, spots, top) ==
    IF e.ok THEN /\ enc' = e /\ stack' = spots /\ sp' = top
                 /\ UNCHANGED <<message, status, todo>>
    ELSE Raise(e)

\* The stack is full and cannot be doubled; the tag is in e.
Denied(e) == Full /\ Raise(Stopped(e, "alloc"))

\* The tuple of a message: its name and one element per slot.
Named(n, t) == IsTuple(t) /\ Len(t[2]) = Size(n) + 1 /\ t[2][1] = Atom(n)

\* encode_1 trusts enc->size for the end of the buffer.
Begin ==
    /\ status # "run" /\ todo # <<>>
    /\ message' = Head(todo) /\ todo' = Tail(todo)
    /\ \E k \in Failing :
        LET e == [enc EXCEPT !.p = 0, !.end = enc.size, !.left = k, !.ok = TRUE, !.reason = "none"]
            Clear(spot) == [spot EXCEPT !.field = NoField, !.need = FALSE]
            known == {n \in Node : Schema[n].kind # "map" /\ Named(n, Head(todo))}
        IN  IF known = {}
            THEN status' = "error" /\ enc' = Refuse(e) /\ UNCHANGED <<stack, sp>>
            ELSE /\ status' = "run" /\ enc' = e /\ sp' = 1
                 /\ stack' = [i \in 1 .. Len(stack) |->
                      IF i > 1 THEN Clear(stack[i])
                      ELSE [Clear(stack[1]) EXCEPT !.kind = "tuple", !.pos = 0,
                               !.node = CHOOSE n \in known : TRUE, !.array = Tail(Head(todo)[2])]]

-----------------------------------------------------------------------------
(* A tuple, one field a turn *)

InTuple == status = "run" /\ Top.kind = "tuple"
AtField == InTuple /\ Top.pos < Size(Top.node)
AtEnd == InTuple /\ Top.pos = Size(Top.node)

Slot == Schema[Top.node].slots[Top.pos + 1]
Elem == Top.array[Top.pos + 1]
Advanced == [stack EXCEPT ![sp].pos = @ + 1]

Absent ==
    /\ Elem = Undef
    /\ Slot.occ \in {"optional", "defaulty"} \/ Slot.type = "oneof"
Present == AtField /\ Slot.type # "unknown" /\ ~Absent

Omit ==
    /\ AtField /\ Slot.type # "unknown" /\ Absent
    /\ Proceed(enc, Advanced, sp)

UnknownFields ==
    /\ AtField /\ Slot.type = "unknown"
    /\ \E pass \in BOOLEAN : Proceed(PackUnknown(enc, Elem, pass), Advanced, sp)

\* The elements of a list, to be written one by one or as a run.
ListField(pack(_, _, _)) ==
    Proceed(CASE ~IsList(Elem) -> Refuse(enc)
              [] IsList(Elem) /\ Elem[2] = <<>> -> enc
              [] OTHER -> pack(enc, Slot, Elem[2]), Advanced, sp)

PackedField ==
    /\ Present /\ Slot.occ = "repeated" /\ Slot.packed
    /\ ListField(PackRun)

PackEach(e, f, terms) ==
    FoldLeft(LAMBDA x, t : IF t = Stray THEN Refuse(x) ELSE PackField(x, f, t), e, terms)

RepeatedField ==
    /\ Present /\ Slot.occ = "repeated" /\ ~Slot.packed /\ Slot.type \notin NodeKind
    /\ ListField(PackEach)

\* A list of messages, entries or groups becomes a spot of its own.
PushList ==
    /\ Present /\ Slot.occ = "repeated" /\ Slot.type \in NodeKind
    /\ IF IsList(Elem) /\ Elem[2] # <<>>
       THEN \/ Denied(enc)
            \/ Proceed(enc,
                       [Grown EXCEPT ![sp].pos = @ + 1, ![sp + 1].kind = "list", ![sp + 1].field = Slot,
                                     ![sp + 1].node = Slot.sub, ![sp + 1].list = Elem[2]],
                       sp + 1)
       ELSE Proceed(Require(enc, IsList(Elem)), Advanced, sp)

\* The field that a single element is written as: the slot's own, or the
\* alternative of the oneof that the element names.
Alternatives ==
    {f \in Schema[Top.node].fields :
        /\ f.oneof /\ f.rnum = Top.pos + 2
        /\ IsTuple(Elem) /\ Len(Elem[2]) = 2 /\ Elem[2][1] = Atom(f.name)}
Chosen ==
    IF Slot.type # "oneof" THEN Slot
    ELSE IF Alternatives = {} THEN NoField ELSE CHOOSE f \in Alternatives : TRUE
Given == IF Slot.type = "oneof" THEN Elem[2][2] ELSE Elem

Single == Present /\ Slot.occ # "repeated"

BadOneof ==
    /\ Single /\ Chosen = NoField
    /\ Raise(Refuse(enc))

ScalarField ==
    /\ Single /\ Chosen.type \in Scalar
    /\ Proceed(PackField(enc, Chosen, Given), Advanced, sp)

\* The spot for a sub-message; a map entry's tuple has no name.
Suits(f, t) ==
    IF f.type = "map" THEN IsTuple(t) /\ Len(t[2]) = Size(f.sub) ELSE Named(f.sub, t)
Occupied(spot, f, t) ==
    [spot EXCEPT !.kind = "tuple", !.node = f.sub, !.pos = 0,
                 !.array = IF f.type = "map" THEN t[2] ELSE Tail(t[2])]

\* begin_group_encode, on the stack spots.
PushedGroup(spots, f, t) ==
    LET tag == Tagged(enc, f.fnum, SGROUP)
    IN  \/ Denied(tag)
        \/ Proceed(Require(tag, Suits(f, t)),
                   [spots EXCEPT ![sp + 1] = [Occupied(@, f, t) EXCEPT !.field = f, !.need = FALSE]],
                   sp + 1)

\* A message or entry, its tag and gap written to e, the gap at offset at.
PushedMessage(e, at, spots, f, t) ==
    Proceed(e, [spots EXCEPT ![sp + 1] = [Occupied(@, f, t) EXCEPT !.need = TRUE, !.at = at]], sp + 1)

PushGroup ==
    /\ Single /\ Chosen.type = "group"
    /\ PushedGroup([Grown EXCEPT ![sp].pos = @ + 1], Chosen, Given)

PushMessage ==
    /\ Single /\ Chosen.type \in {"msg", "map"}
    /\ LET tag == Tagged(enc, Chosen.fnum, LENGTH)
           checked == Require(tag, Suits(Chosen, Given))
       IN  \/ Denied(tag)
           \/ PushedMessage(Opened(checked), tag.p, [Grown EXCEPT ![sp].pos = @ + 1], Chosen, Given)

-----------------------------------------------------------------------------
(* A list, one element a turn *)

InList == status = "run" /\ Top.kind = "list"
AtElement == InList /\ Top.list # <<>> /\ Head(Top.list) # Stray
Shortened == [Grown EXCEPT ![sp].list = Tail(@)]

\* Mutant: the list stays at the element just entered.
ListGroupAgain ==
    /\ AtElement /\ Top.field.type = "group"
    /\ PushedGroup(Grown, Top.field, Head(Top.list))

ListGroup ==
    /\ AtElement /\ Top.field.type = "group"
    /\ PushedGroup(Shortened, Top.field, Head(Top.list))

ListMessage ==
    /\ AtElement /\ Top.field.type # "group"
    /\ LET tag == Tagged(enc, Top.field.fnum, LENGTH)
           opened == Require(Opened(tag), Suits(Top.field, Head(Top.list)))
       IN  \/ Denied(tag)
           \/ PushedMessage(opened, tag.p, Shortened, Top.field, Head(Top.list))

ListStrays ==
    /\ InList /\ Top.list # <<>> /\ Head(Top.list) = Stray
    /\ Raise(Refuse(enc))

ListEnd ==
    /\ InList /\ Top.list = <<>>
    /\ Proceed(enc, stack, sp - 1)

-----------------------------------------------------------------------------
(* The end of a tuple *)

\* A message's length is put in front of it.
CloseMessage ==
    /\ AtEnd /\ Top.need
    /\ Proceed(Patched(enc, Top.at), [stack EXCEPT ![sp].need = FALSE, ![sp].pos = 0], sp - 1)

IsGroup == Top.field.type = "group" /\ Schema[Top.node].kind = "group"

CloseGroup ==
    /\ AtEnd /\ ~Top.need /\ IsGroup
    /\ Proceed(Tagged(enc, Top.field.fnum, EGROUP),
               [stack EXCEPT ![sp].field = NoField, ![sp].pos = 0], sp - 1)

\* Mutant: the loop goes on below the first spot.
CloseRootRunsOn ==
    /\ AtEnd /\ ~Top.need /\ ~IsGroup
    /\ stack' = [stack EXCEPT ![sp].pos = 0]
    /\ sp' = sp - 1
    /\ UNCHANGED <<message, enc, status, todo>>

\* The binary that the call would return cannot be allocated.
CloseDenied ==
    /\ AtEnd /\ ~Top.need /\ ~IsGroup /\ sp = 1
    /\ Raise(Stopped(enc, "alloc_binary"))

\* The loop ends below the first spot.  The call returns the bytes before p,
\* unless an exception was raised that nobody saw.
CloseRoot ==
    /\ AtEnd /\ ~Top.need /\ ~IsGroup
    /\ stack' = [stack EXCEPT ![sp].pos = 0]
    /\ sp' = sp - 1
    /\ status' = CASE sp > 1 -> status
                   [] sp = 1 /\ enc.reason = "none" -> "done"
                   [] OTHER -> "error"
    /\ UNCHANGED <<message, enc, todo>>

Turn == \/ Omit \/ UnknownFields \/ PackedField \/ RepeatedField \/ PushList
        \/ BadOneof \/ ScalarField \/ PushGroup \/ PushMessage
        \/ ListGroup \/ ListMessage \/ ListStrays \/ ListEnd
        \/ CloseMessage \/ CloseGroup \/ CloseRoot \/ CloseDenied

\* All is encoded; a call in progress is never stuck here.
Rest == status # "run" /\ todo = <<>> /\ UNCHANGED vars

Next == Begin \/ Turn \/ Rest

Spec == Init /\ [][Next]_vars

-----------------------------------------------------------------------------
(* Properties *)

Spot == [kind : {"tuple", "list"}, node : Node \cup {NoNode}, field : Field \cup {NoField},
         pos : Nat, need : BOOLEAN, at : Nat]

\* The type invariant; arrays and lists hold terms of any shape.
TypeOK ==
    /\ message = NoTerm \/ message \in Message
    /\ todo \in Seq(Message)
    /\ enc \in Buffer
    /\ \A i \in DOMAIN stack : [k \in DOMAIN ZeroSpot \ {"array", "list"} |-> stack[i][k]] \in Spot
    /\ sp \in 0 .. Len(stack)
    /\ status \in {"idle", "run", "done", "error"}
    /\ status = "run" => sp > 0 /\ enc.ok

\* The gaps left for lengths nest like the messages they belong to, and the
\* writer is behind the innermost: moving a payload back into its gap when a
\* message closes takes nothing along of the messages around it.  The root,
\* groups and lists have none (ep_encoder.c:998-1005, 1132-1135, 1171-1174).
GapsNest ==
    LET open == {i \in 1 .. sp : stack[i].need}
    IN  status = "run" => \A i \in open :
            /\ stack[i].kind = "tuple" /\ Schema[stack[i].node].kind # "group"
            /\ stack[i].at + Gap <= enc.p
            /\ \A j \in open : i < j => stack[i].at + Gap < stack[j].at

\* "enc_ensure returns NULL on allocation failure; callers must not write
\* then" (ep_encoder.c:45): no byte is written behind the allocated buffer.
WritesInBounds == ~enc.strayed

\* No turn goes round in circles: it ends the call or a spot, or leaves the
\* spot it was on one field or element further.
TurnConsumes ==
    [][status = "run" /\ status' = "run" =>
        \/ sp' < sp
        \/ /\ sp' \in {sp, sp + 1}
           /\ \/ stack'[sp].pos > stack[sp].pos
              \/ Len(stack'[sp].list) < Len(stack[sp].list)]_vars
=============================================================================
