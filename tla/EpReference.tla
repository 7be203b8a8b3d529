---------------------------- MODULE EpReference ----------------------------
(***************************************************************************)
(* What a binary means, written the way the wire format is defined: a      *)
(* message is its fields one after the other, each sub-message decoded by  *)
(* the same rule.  No stack, no positions to restore.  The decoder must    *)
(* agree with it on every binary, and what the encoder writes must mean    *)
(* the message it was given.                                               *)
(***************************************************************************)
EXTENDS EpSchema

\* A decoded tuple, or Bad when the binary is malformed.
Bad == <<"bad">>

\* Element i of arr with a further value of repeated field at its end.
Added(arr, i, term) == [arr EXCEPT ![i] = List(Append(@[2], term))]

\* A map keeps one pair per key, in order of first appearance.
Entered(arr, i, pair) ==
    LET dup == SelectInSeq(arr[i][2], LAMBDA entry : entry[2][1] = pair[2][1])
    IN  IF dup = 0 THEN Added(arr, i, pair) ELSE [arr EXCEPT ![i][2][dup] = pair]

\* arr with the unknown field behind tag, kept where the message keeps them.
WithUnknown(w, n, arr, tag, e) ==
    LET Kept(unknown) ==
            IF unknown.next = Fail THEN Bad ELSE Added(arr, UnknownSlot(n), unknown.term)
    IN  IF SkipUnknown(w, tag.next, e, tag.fnum, tag.wt) = Fail THEN Bad
        ELSE IF UnknownSlot(n) = 0 THEN arr
        ELSE Kept(CollectUnknown(w, tag.next, e, tag.fnum, tag.wt))

\* arr with the packed run behind tag.
WithRun(w, f, arr, tag, e) ==
    LET Appended(run) ==
            IF run.next = Fail \/ run.next # LengthAt(w, tag.next, e).after THEN Bad
            ELSE [arr EXCEPT ![f.rnum] = List(@[2] \o run.terms)]
    IN  Appended(UnpackPacked(w, f.type, tag.next, e))

\* arr with the single value of scalar field f behind tag.
WithScalar(w, f, arr, tag, e) ==
    LET Stored(scalar) ==
            CASE scalar.next = Fail -> Bad
              [] scalar.next # Fail /\ scalar.term = NoTerm -> arr
              [] OTHER -> IF f.occ = "repeated" THEN Added(arr, f.rnum, scalar.term)
                          ELSE [arr EXCEPT ![f.rnum] =
                                  IF f.oneof THEN Tuple(<<Atom(f.name), scalar.term>>) ELSE scalar.term]
    IN  Stored(UnpackField(w, f, tag.next, e, tag.wt))

\* What a sub-message is read on top of: a repeated or plain one starts
\* afresh, a group or a oneof alternative seen again is continued.
Begun(f, old) ==
    CASE f.oneof /\ IsTuple(old) /\ old[2][1] = Atom(f.name) -> old[2][2][2]
      [] ~f.oneof /\ f.type = "group" /\ f.occ # "repeated" /\ IsTuple(old) -> old[2]
      [] OTHER -> Filled(f.sub)

\* arr with the elements sub of a sub-message in field f.
WithSub(f, arr, sub) ==
    IF sub = Bad THEN Bad ELSE
    CASE f.type = "map" -> IF Schema[f.sub].slots[2].type = "msg" /\ sub[3] = Undef THEN Bad
                           ELSE Entered(arr, f.rnum, Tuple(Tail(sub)))
      [] f.type # "map" /\ f.occ = "repeated" -> Added(arr, f.rnum, Tuple(sub))
      [] OTHER -> [arr EXCEPT ![f.rnum] =
                      IF f.oneof THEN Tuple(<<Atom(f.name), Tuple(sub)>>) ELSE Tuple(sub)]

\* Where the field behind tag ends, Fail when it is cut short.
AfterField(w, f, tag, e) ==
    CASE f = NoField \/ f.type \in Scalar -> SkipUnknown(w, tag.next, e, tag.fnum, tag.wt)
      [] f.type = "group" -> GroupBounds(w, tag.next, e, f.fnum).next
      [] f.type \in {"msg", "map"} -> LengthAt(w, tag.next, e).after

RECURSIVE Fields(_, _, _, _, _)

\* The message of node n between q and e, read on top of the elements arr.
Fields(w, n, arr, q, e) ==
    LET Between(f, first, last) ==
            IF first = Fail \/ last = Fail THEN Bad
            ELSE WithSub(f, arr, Fields(w, f.sub, Begun(f, arr[f.rnum]), first, last))
        With(tag, f) ==
            CASE f = NoField -> WithUnknown(w, n, arr, tag, e)
              [] IsPacked(f, tag.wt) -> WithRun(w, f, arr, tag, e)
              [] f.type \in Scalar /\ ~IsPacked(f, tag.wt) -> WithScalar(w, f, arr, tag, e)
              [] f.type = "group" /\ tag.wt = SGROUP ->
                   Between(f, tag.next, GroupBounds(w, tag.next, e, f.fnum).tag)
              [] f.type \in {"msg", "map"} /\ tag.wt = LENGTH ->
                   Between(f, LengthAt(w, tag.next, e).next, LengthAt(w, tag.next, e).after)
              [] OTHER -> Bad
        Rest(next, after) == IF next = Bad THEN Bad ELSE Fields(w, n, next, after, e)
        PastField(tag, f) == Rest(With(tag, f), AfterField(w, f, tag, e))
        Past(tag) == IF tag.next = Fail THEN Bad ELSE PastField(tag, FieldOf(n, tag.fnum))
    IN  CASE q # e -> Past(TagAt(w, q, e))
          [] q = e -> IF MissingRequired(n, arr) THEN Bad ELSE arr

Reference(n, w) ==
    LET arr == Fields(w, n, Filled(n), 0, Len(w))
    IN  IF arr = Bad THEN Bad ELSE Tuple(arr)
=============================================================================
