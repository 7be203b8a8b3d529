------------------------------- MODULE EpWire -------------------------------
(***************************************************************************)
(* How c_src/ep_decoder.c reads the protobuf wire format: tags, lengths,   *)
(* scalars, packed runs, and the skipping of what the schema does not      *)
(* know.  A wire w is a sequence of bytes, a position q the number of      *)
(* bytes before it; every reader stays below e and returns the position    *)
(* after what it read, or Fail.  Each read follows a tag, so Fail = 0 is   *)
(* no position a reader can return.                                        *)
(*                                                                         *)
(* Values are abstracted to what moves the decoder: a varint is its number *)
(* (wires of the runs keep it below 2^28, where every integer type agrees) *)
(* and fixed-width and length-delimited payloads are their bytes.          *)
(***************************************************************************)
EXTENDS Naturals, Sequences, FiniteSetsExt, SequencesExt

CONSTANT MaxGroupDepth   \* EP_MAX_GROUP_DEPTH, 100 in the code

ASSUME DepthAssumption == MaxGroupDepth \in Nat

VARINT == 0
BITS64 == 1
LENGTH == 2
SGROUP == 3
EGROUP == 4
BITS32 == 5

Fail == 0
Scalar == {"varint", "bits64", "bytes", "bits32"}
WireType == [type \in Scalar |->
    CASE type = "varint" -> VARINT
      [] type = "bits64" -> BITS64
      [] type = "bytes"  -> LENGTH
      [] type = "bits32" -> BITS32]
Packable == {"varint", "bits64", "bits32"}

Byte(w, i) == w[i + 1]
Bytes(w, q, n) == SubSeq(w, q + 1, q + n)

\* How many bytes the varint at q takes, 0 when it is not over within max
\* bytes or before e.
VarLen(w, q, e, max) ==
    LET last == {k \in 1 .. max : q + k <= e /\ Byte(w, q + k - 1) < 128}
    IN  IF last = {} THEN 0 ELSE Min(last)

\* The k bytes of a varint at q, seven bits each, the first one lowest: what
\* those from the i-th on are worth.
VarRest(w, q, k, rest, i) ==
    IF i = k THEN 0 ELSE (Byte(w, q + i) % 128) + 128 * rest[i + 1]
VarVal(w, q, k) ==
    LET rest[i \in 0 .. k] == VarRest(w, q, k, rest, i)
    IN  rest[0]

\* A tag is a varint32: its fifth byte keeps four bits.
TagFnum(w, q, k) ==
    IF k < 5 THEN VarVal(w, q, k) \div 8
    ELSE VarVal(w, q, 4) \div 8 + (Byte(w, q + 4) % 16) * 2^25

TagAt(w, q, e) ==
    LET Tag(k, wt, fnum) ==
            IF k = 0 \/ wt > BITS32 \/ fnum = 0
            THEN [fnum |-> 0, wt |-> 0, next |-> Fail]
            ELSE [fnum |-> fnum, wt |-> wt, next |-> q + k]
        TagOf(k) == Tag(k, Byte(w, q) % 8, TagFnum(w, q, k))
    IN  TagOf(VarLen(w, q, e, 5))

\* A length prefix above 2^21 is longer than any wire here; Huge stands for it.
Huge == 128^3
\* unpack_length and the bounds test every user of it makes: the payload is
\* between next and after, which is not behind e.
LengthAt(w, q, e) ==
    LET Size(k) == IF \E i \in 3 .. k - 1 : Byte(w, q + i) % 128 # 0 THEN Huge
                   ELSE VarVal(w, q, Min({k, 3}))
        Payload(k, after) ==
            IF k = 0 \/ (k = 5 /\ Byte(w, q + 4) > 15) \/ after > e
            THEN [next |-> Fail, after |-> Fail]
            ELSE [next |-> q + k, after |-> after]
        PayloadAfter(k) == Payload(k, q + k + Size(k))
    IN  PayloadAfter(VarLen(w, q, e, 5))

Atom(name) == <<"atom", name>>
Num(n) == <<"int", n>>
Bin(bytes) == <<"bin", bytes>>
Tuple(elements) == <<"tuple", elements>>
List(elements) == <<"list", elements>>
NoTerm == <<>>

\* unpack_uint32 .. unpack_bytes: one value of a scalar type.
ReadScalar(w, type, q, e) ==
    LET Value(term, next) == [term |-> term, next |-> next]
        Varint(k) == IF k = 0 THEN Value(NoTerm, Fail) ELSE Value(Num(VarVal(w, q, k)), q + k)
        Fixed(n) == IF q + n > e THEN Value(NoTerm, Fail) ELSE Value(Bin(Bytes(w, q, n)), q + n)
        Payload(len) ==
            IF len.next = Fail THEN Value(NoTerm, Fail)
            ELSE Value(Bin(Bytes(w, len.next, len.after - len.next)), len.after)
    IN  CASE type = "varint" -> Varint(VarLen(w, q, e, 10))
          [] type = "bits64" -> Fixed(8)
          [] type = "bits32" -> Fixed(4)
          [] type = "bytes"  -> Payload(LengthAt(w, q, e))

\* skip_field: groups are not its business, and both group types fail.
SkipField(w, q, e, wt) ==
    LET Varint(k) == IF k = 0 THEN Fail ELSE q + k
    IN  CASE wt = VARINT -> Varint(VarLen(w, q, e, 10))
          [] wt = BITS64 /\ q + 8 <= e -> q + 8
          [] wt = BITS32 /\ q + 4 <= e -> q + 4
          [] wt = LENGTH -> LengthAt(w, q, e).after
          [] OTHER -> Fail

NoGroup == [tag |-> Fail, next |-> Fail]

\* skip_group and group_content_bounds: one field of the content of a group,
\* at[1] where it starts and at[2] the field numbers of the groups entered and
\* not left.  More than max of them is an error, and so is an end tag that does
\* not close the innermost one.
GroupStep(w, e, max, scan, at) ==
    LET q == at[1]
        open == at[2]
        Over(after) == IF after = Fail THEN NoGroup ELSE scan[<<after, open>>]
        Past(tag) ==
            CASE tag.next = Fail -> NoGroup
              [] tag.wt = SGROUP -> scan[<<tag.next, Append(open, tag.fnum)>>]
              [] tag.wt = EGROUP /\ tag.fnum = Last(open) ->
                   IF Len(open) = 1 THEN [tag |-> q, next |-> tag.next]
                                    ELSE scan[<<tag.next, Front(open)>>]
              [] OTHER -> Over(SkipField(w, tag.next, e, tag.wt))
    IN  IF Len(open) > max \/ q >= e THEN NoGroup ELSE Past(TagAt(w, q, e))

\* From the content of group fnum at q, where its end tag starts and ends.
GroupEnd(w, q, e, fnum, max) ==
    LET scan[at \in Nat \X Seq(Nat)] == GroupStep(w, e, max, scan, at)
    IN  scan[<<q, <<fnum>>>>]

\* The two callers count differently: the group being skipped is one of the
\* MaxGroupDepth, the group being decoded or collected is not.
SkipGroup(w, q, e, fnum) == GroupEnd(w, q, e, fnum, MaxGroupDepth).next
GroupBounds(w, q, e, fnum) == GroupEnd(w, q, e, fnum, MaxGroupDepth + 1)

SkipUnknown(w, q, e, fnum, wt) ==
    IF wt = SGROUP THEN SkipGroup(w, q, e, fnum) ELSE SkipField(w, q, e, wt)

\* unpack_field: a value of the wrong wire type is skipped and gives no term.
UnpackField(w, field, q, e, wt) ==
    IF wt = WireType[field.type]
    THEN ReadScalar(w, field.type, q, e)
    ELSE [term |-> NoTerm, next |-> SkipUnknown(w, q, e, field.fnum, wt)]

\* unpack_element_packed: the elements are read against the end e of the
\* enclosing message, not against the end of the run.
PackedStep(w, type, e, stop, elements, at) ==
    LET Before(term, rest) == [terms |-> <<term>> \o rest.terms, next |-> rest.next]
        Element(x) == IF x.next = Fail THEN [terms |-> <<>>, next |-> Fail]
                      ELSE Before(x.term, elements[x.next])
    IN  IF at >= stop THEN [terms |-> <<>>, next |-> at]
        ELSE Element(ReadScalar(w, type, at, e))
UnpackPacked(w, type, q, e) ==
    LET Run(len) ==
            LET elements[at \in Nat] == PackedStep(w, type, e, len.after, elements, at)
            IN  IF len.next = Fail THEN [terms |-> <<>>, next |-> Fail] ELSE elements[len.next]
    IN  Run(LengthAt(w, q, e))

\* collect_unknown_*: the value of an unknown field as a tuple, its group
\* contents collected to the same depth limit.  at: what is collected ("one"
\* field, or "all" up to e), from where, below which end, the field's tag, and
\* the depth.
CollectStep(w, collect, at) ==
    LET Failed == [term |-> NoTerm, next |-> Fail]
        Item(kind, fnum, term) == Tuple(<<Atom(kind), Num(fnum), term>>)
        Kind == [wt \in {VARINT, BITS64, LENGTH, BITS32} |->
                    CHOOSE type \in Scalar : WireType[type] = wt]
        Collected(kind, fnum, value, next) ==
            IF value.next = Fail THEN Failed ELSE [term |-> Item(kind, fnum, value.term), next |-> next]
        q == at[2]  e == at[3]  fnum == at[4]  wt == at[5]  depth == at[6]
        Field(value) == Collected(Kind[wt], fnum, value, value.next)
        Group(bounds) ==
            IF depth > MaxGroupDepth \/ bounds.tag = Fail THEN Failed
            ELSE Collected("group", fnum, collect[<<"all", q, bounds.tag, 0, 0, depth>>], bounds.next)
        Before(term, rest) ==
            IF rest.next = Fail THEN Failed
            ELSE [term |-> List(<<term>> \o rest.term[2]), next |-> rest.next]
        First(head) ==
            IF head.next = Fail THEN Failed
            ELSE Before(head.term, collect[<<"all", head.next, e, 0, 0, depth>>])
        Past(tag) ==
            IF tag.next = Fail THEN Failed
            ELSE First(collect[<<"one", tag.next, e, tag.fnum, tag.wt, depth + 1>>])
    IN  CASE at[1] = "one" /\ wt \in DOMAIN Kind -> Field(ReadScalar(w, Kind[wt], q, e))
          [] at[1] = "one" /\ wt = SGROUP -> Group(GroupBounds(w, q, e, fnum))
          [] at[1] = "one" /\ wt = EGROUP -> Failed
          [] at[1] = "all" -> IF q >= e THEN [term |-> List(<<>>), next |-> q]
                              ELSE Past(TagAt(w, q, e))
CollectUnknown(w, q, e, fnum, wt) ==
    LET collect[at \in {"one", "all"} \X Nat \X (0 .. Len(w)) \X Nat \X (0 .. BITS32) \X Nat] ==
            CollectStep(w, collect, at)
    IN  collect[<<"one", q, e, fnum, wt, 1>>]
=============================================================================
