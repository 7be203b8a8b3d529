------------------------------ MODULE MCSchema ------------------------------
(***************************************************************************)
(* The message definitions of the codec runs.  Recursive messages keep     *)
(* them small: every field can appear at every depth.                      *)
(***************************************************************************)
EXTENDS EpSchema

\* A message as a table: its kind and the rows <<name, fnum, rnum, type, occ,
\* sub>> of its fields, where occ may also be "packed" or "oneof".
Table ==
    [\* nesting: itself, once and repeated, and a map
     m |-> <<"msg", {<<"a", 1, 2, "varint", "optional", "none">>,
                     <<"l", 2, 3, "varint", "repeated", "none">>,
                     <<"s", 3, 4, "msg", "optional", "m">>,
                     <<"e", 4, 5, "map", "repeated", "entry">>,
                     <<"r", 5, 6, "msg", "repeated", "m">>}>>,
     entry |-> <<"map", {<<"k", 1, 2, "varint", "optional", "none">>,
                         <<"v", 2, 3, "varint", "optional", "none">>}>>,

     \* a map of messages, one of them the message itself
     p |-> <<"msg", {<<"e", 1, 2, "map", "repeated", "pages">>,
                     <<"a", 2, 3, "varint", "optional", "none">>}>>,
     pages |-> <<"map", {<<"k", 1, 2, "varint", "optional", "none">>,
                         <<"v", 2, 3, "msg", "optional", "p">>}>>,

     \* every scalar type and occurrence, packed and not, and unknown fields
     f |-> <<"msg", {<<"a", 1, 2, "bits32", "required", "none">>,
                     <<"b", 2, 3, "bits64", "optional", "none">>,
                     <<"c", 3, 4, "bytes", "defaulty", "none">>,
                     <<"d", 4, 5, "varint", "packed", "none">>,
                     <<"unknown", 0, 6, "unknown", "repeated", "none">>}>>,

     \* groups
     h |-> <<"msg", {<<"a", 1, 2, "varint", "optional", "none">>,
                     <<"g", 2, 3, "group", "optional", "g">>,
                     <<"h", 3, 4, "group", "repeated", "g">>}>>,
     g |-> <<"group", {<<"a", 1, 2, "varint", "optional", "none">>,
                       <<"g", 2, 3, "group", "optional", "g">>,
                       <<"l", 3, 4, "varint", "repeated", "none">>,
                       <<"unknown", 0, 5, "unknown", "repeated", "none">>}>>,

     \* a oneof beside a required message
     o |-> <<"msg", {<<"x", 1, 2, "msg", "oneof", "x">>,
                     <<"y", 2, 2, "varint", "oneof", "none">>,
                     <<"r", 3, 3, "msg", "repeated", "o">>,
                     <<"q", 4, 4, "msg", "required", "x">>}>>,
     x |-> <<"msg", {<<"a", 1, 2, "varint", "optional", "none">>,
                     <<"s", 2, 3, "msg", "optional", "x">>,
                     <<"c", 3, 4, "bytes", "defaulty", "none">>}>>,

     \* combinations that decode() and its documentation disagree about
     c |-> <<"msg", {<<"g", 1, 2, "group", "optional", "k">>,
                     <<"s", 2, 3, "msg", "optional", "s">>,
                     <<"x", 3, 4, "msg", "oneof", "s">>,
                     <<"y", 4, 4, "msg", "oneof", "t">>,
                     <<"l", 5, 5, "varint", "repeated", "none">>}>>,
     s |-> <<"msg", {<<"a", 1, 2, "varint", "optional", "none">>,
                     <<"l", 2, 3, "varint", "repeated", "none">>,
                     <<"e", 3, 4, "map", "repeated", "entry">>}>>,
     t |-> <<"msg", {<<"a", 1, 2, "varint", "optional", "none">>,
                     <<"g", 2, 3, "group", "optional", "k">>}>>,
     k |-> <<"group", {<<"a", 1, 2, "varint", "optional", "none">>,
                       <<"s", 2, 3, "msg", "optional", "s">>,
                       <<"e", 3, 4, "map", "repeated", "entry">>}>>]

FieldAt(row) ==
    [name |-> row[1], fnum |-> row[2], rnum |-> row[3], type |-> row[4],
     occ |-> CASE row[5] = "packed" -> "repeated" [] row[5] = "oneof" -> "optional" [] OTHER -> row[5],
     sub |-> row[6], oneof |-> row[5] = "oneof", packed |-> row[5] = "packed"]

\* What stands in the slot of a oneof, whose alternatives are the fields.
Choice(rnum) == FieldAt(<<"choice", 0, rnum, "oneof", "optional", NoNode>>)
SlotAt(fields, rnum) ==
    IF \E f \in fields : f.rnum = rnum /\ f.oneof THEN Choice(rnum)
    ELSE CHOOSE f \in fields : f.rnum = rnum
NodeAt(kind, fields) ==
    [kind |-> kind,
     slots |-> [i \in 1 .. Max({f.rnum : f \in fields}) - 1 |-> SlotAt(fields, i + 1)],
     fields |-> {f \in fields : f.type # "unknown"}]

CodecMessages ==
    [n \in DOMAIN Table |-> NodeAt(Table[n][1], {FieldAt(row) : row \in Table[n][2]})]

\* Sequences over a set, up to length n, as they are and joined.
Strings(alphabet, n) == UNION {[1 .. k -> alphabet] : k \in 0 .. n}
Joined(pieces, n) == {FlattenSeq(s) : s \in Strings(pieces, n)}

\* Tag bytes, one sub-message around a payload, and a group around one.
T(fnum, wt) == 8 * fnum + wt
Len1(fnum, payload) == <<T(fnum, LENGTH), Len(payload)>> \o payload
Group(fnum, content) == <<T(fnum, SGROUP)>> \o content \o <<T(fnum, EGROUP)>>

=============================================================================
