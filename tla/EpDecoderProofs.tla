-------------------------- MODULE EpDecoderProofs --------------------------
(***************************************************************************)
(* Proofs about the decode loop: for every schema, every binary and every  *)
(* sequence of calls on one stack, the ends nest, each spot is linked to   *)
(* the element it is for, and every turn of the loop makes progress.       *)
(***************************************************************************)
EXTENDS EpDecoder, EpWireProofs

-----------------------------------------------------------------------------
(* The inductive invariant *)

SpotKey == {"node", "arr", "field", "group", "pos", "stop", "saved"}

SpotOK(s) ==
    /\ DOMAIN s = SpotKey
    /\ s.node \in Node \cup {NoNode}
    /\ s.field \in Field \cup {NoField} /\ s.group \in Field \cup {NoField}
    /\ s.pos \in Nat /\ s.stop \in Nat /\ s.saved \in Nat

\* A sequence of spots; their elements may be anything.
Spots(st) ==
    /\ Len(st) \in Nat \ {0}
    /\ st = [i \in 1 .. Len(st) |-> st[i]]
    /\ \A i \in 1 .. Len(st) : SpotOK(st[i])

\* Spot s is read inside the spot below it, for the element that one names.
Within(below, s) ==
    /\ s.stop <= below.stop
    /\ s.group # NoField => s.saved = below.stop /\ s.stop < s.saved
    /\ \E f \in Schema[below.node].fields :
        f.rnum = below.pos /\ f.sub = s.node /\ f.type \in NodeKind

\* The first n spots are in use.  The others belong to no group: a spot that
\* is left, or that an earlier call died in, would pass its group on to the
\* next sub-message that is put there.
Nested(st, n, w) ==
    /\ n \in 1 .. Len(st)
    /\ st[1].stop = Len(w)
    /\ \A i \in 1 .. n : st[i].node \in Node /\ st[i].stop <= Len(w)
    /\ \A i \in 2 .. n : Within(st[i - 1], st[i])
    /\ \A i \in n + 1 .. Len(st) : st[i].group = NoField

DInv ==
    /\ wire \in Seq(0 .. 255) /\ todo \in Seq(Call)
    /\ p \in Nat /\ end \in Nat /\ sp \in 0 .. Len(stack)
    /\ status \in {"idle", "run", "done", "error", "denied"}
    /\ Spots(stack)
    /\ status = "run" => Nested(stack, sp, wire) /\ end = stack[sp].stop /\ p <= end

-----------------------------------------------------------------------------
(* The stack *)

LEMMA LengthOfFunction ==
    ASSUME NEW n \in Nat, NEW s, s = [i \in 1 .. n |-> s[i]]
    PROVE  Len(s) = n
<1> DEFINE S == {s[i] : i \in 1 .. n}
<1>1. s \in Seq(S)
  OBVIOUS
<1>2. Len(s) \in Nat /\ DOMAIN s = 1 .. Len(s)
  <2> HIDE DEF S
  <2> QED BY <1>1, LenProperties
<1>3. DOMAIN s = 1 .. n
  OBVIOUS
<1>4. \A m \in Nat : 1 .. m = 1 .. n => m = n
  <2> TAKE m \in Nat
  <2>1. (m \in 1 .. m <=> m # 0) /\ (n \in 1 .. n <=> n # 0)
    OBVIOUS
  <2> QED BY <2>1
<1> QED BY <1>2, <1>3, <1>4

\* Spots that differ in their elements only.
SameSpot(s, t) ==
    /\ DOMAIN s = DOMAIN t
    /\ s.node = t.node /\ s.field = t.field /\ s.group = t.group
    /\ s.pos = t.pos /\ s.stop = t.stop /\ s.saved = t.saved
SameSpots(st, new) ==
    /\ Len(new) = Len(st)
    /\ new = [i \in 1 .. Len(st) |-> new[i]]
    /\ \A i \in 1 .. Len(st) : SameSpot(st[i], new[i])

LEMMA SameSpotsKeep ==
    ASSUME NEW st, Spots(st), NEW new, SameSpots(st, new)
    PROVE  /\ Spots(new)
           /\ \A n, w : Nested(st, n, w) => Nested(new, n, w)
<1>1. Spots(new)
  BY DEF Spots, SameSpots, SameSpot, SpotOK
<1>2. ASSUME NEW n, NEW w, Nested(st, n, w) PROVE Nested(new, n, w)
  <2>1. n \in 1 .. Len(new) /\ Len(new) = Len(st) /\ Len(st) \in Nat
    BY <1>2 DEF Nested, SameSpots, Spots
  <2>2. \A i \in 1 .. Len(st) : SameSpot(st[i], new[i])
    BY DEF SameSpots
  <2>3. new[1].stop = Len(w)
    BY <1>2, <2>1, <2>2 DEF Nested, SameSpot
  <2>4. \A i \in 1 .. n : new[i].node \in Node /\ new[i].stop <= Len(w)
    BY <1>2, <2>1, <2>2 DEF Nested, SameSpot
  <2>5. \A i \in 2 .. n : Within(new[i - 1], new[i])
    <3> TAKE i \in 2 .. n
    <3>1. i \in 1 .. Len(st) /\ i - 1 \in 1 .. Len(st)
      BY <2>1
    <3>2. Within(st[i - 1], st[i]) /\ SameSpot(st[i - 1], new[i - 1]) /\ SameSpot(st[i], new[i])
      BY <1>2, <2>2, <3>1 DEF Nested
    <3> QED BY <3>2 DEF Within, SameSpot
  <2>6. \A i \in n + 1 .. Len(new) : new[i].group = NoField
    <3> TAKE i \in n + 1 .. Len(new)
    <3>1. i \in 1 .. Len(st) /\ i \in n + 1 .. Len(st)
      BY <2>1
    <3> QED BY <1>2, <2>2, <3>1 DEF Nested, SameSpot
  <2> QED BY <2>1, <2>3, <2>4, <2>5, <2>6 DEF Nested
<1> QED BY <1>1, <1>2

\* stack_ensure makes room and keeps what is there.
LEMMA GrownSpots ==
    ASSUME Spots(stack)
    PROVE  /\ Spots(Grown) /\ Len(stack) <= Len(Grown)
           /\ sp \in 1 .. Len(stack) => sp < Len(Grown)
           /\ \A i \in 1 .. Len(stack) : Grown[i] = stack[i]
           /\ \A i \in Len(stack) + 1 .. Len(Grown) : Grown[i] = ZeroSpot
<1>1. CASE ~Full
  BY <1>1 DEF Grown, Spots, Full
<1>2. CASE Full
  <2> DEFINE S == {stack[i] : i \in 1 .. Len(stack)} \cup {ZeroSpot}
             more == [i \in 1 .. Len(stack) |-> ZeroSpot]
  <2>1. stack \in Seq(S) /\ more \in Seq(S) /\ Len(stack) \in Nat \ {0}
    BY DEF Spots
  <2>2. Len(more) = Len(stack) /\ DOMAIN stack = 1 .. Len(stack)
    BY DEF Spots
  <2>3. Grown = stack \o more
    BY <1>2, <2>2 DEF Grown
  <2> HIDE DEF S, more
  <2>4. /\ Grown \in Seq(S) /\ Len(Grown) = Len(stack) + Len(stack)
        /\ \A i \in 1 .. Len(stack) + Len(stack) :
            Grown[i] = IF i <= Len(stack) THEN stack[i] ELSE more[i - Len(stack)]
    <3> DEFINE both == stack \o more
    <3>1. /\ both \in Seq(S) /\ Len(both) = Len(stack) + Len(more)
          /\ \A i \in 1 .. Len(stack) + Len(more) :
              both[i] = IF i <= Len(stack) THEN stack[i] ELSE more[i - Len(stack)]
      BY <2>1, ConcatProperties
    <3> HIDE DEF both
    <3> QED BY <2>2, <2>3, <3>1 DEF both
  <2>5. Grown = [i \in 1 .. Len(Grown) |-> Grown[i]]
    BY <2>4, LenProperties
  <2>6. \A i \in Len(stack) + 1 .. Len(Grown) : Grown[i] = ZeroSpot
    BY <2>1, <2>4 DEF more
  <2>7. \A i \in 1 .. Len(stack) : Grown[i] = stack[i]
    BY <2>1, <2>4
  <2>8. SpotOK(ZeroSpot)
    BY DEF SpotOK, ZeroSpot, SpotKey
  <2>9. Spots(Grown)
    BY <2>1, <2>4, <2>5, <2>6, <2>7, <2>8 DEF Spots
  <2> QED BY <1>2, <2>1, <2>4, <2>6, <2>7, <2>9 DEF Full
<1> QED BY <1>1, <1>2

\* Writing an element of the spot in use.
LEMMA SetTopKeeps ==
    ASSUME Spots(stack), sp \in 1 .. Len(stack), NEW i, NEW t, SetTop(i, t)
    PROVE  SameSpots(stack, stack')
<1>1. \A s : SpotOK(s) => SameSpot(s, [s EXCEPT !.arr[i] = t])
  BY DEF SpotOK, SameSpot, SpotKey
<1>2. \A s : SameSpot(s, s)
  BY DEF SameSpot
<1>3. stack' = [stack EXCEPT ![sp] = [@ EXCEPT !.arr[i] = t]]
  BY DEF SetTop
<1>4. DOMAIN stack = 1 .. Len(stack) /\ Len(stack) \in Nat
  BY DEF Spots
<1>5. DOMAIN stack' = 1 .. Len(stack)
  BY <1>3, <1>4
<1>6. stack' = [j \in 1 .. Len(stack) |-> stack'[j]]
  BY <1>3, <1>4, <1>5
<1>7. Len(stack') = Len(stack)
  BY <1>4, <1>5, <1>6, LengthOfFunction
<1>8. \A j \in 1 .. Len(stack) : SameSpot(stack[j], stack'[j])
  <2> TAKE j \in 1 .. Len(stack)
  <2>1. stack'[j] = IF j = sp THEN [stack[j] EXCEPT !.arr[i] = t] ELSE stack[j]
    BY <1>3, <1>4
  <2> QED BY <1>1, <1>2, <2>1 DEF Spots
<1> QED BY <1>6, <1>7, <1>8 DEF SameSpots

-----------------------------------------------------------------------------
(* Fields *)

LEMMA FieldOfNode ==
    ASSUME NEW n \in Node, NEW fnum
    PROVE  LET f == FieldOf(n, fnum)
           IN  \/ f = NoField
               \/ /\ f \in Schema[n].fields /\ f \in Field /\ f.fnum \in Nat /\ f.rnum \in Nat
                  /\ f.type \in Scalar \cup NodeKind
                  /\ f.type \in NodeKind => f.sub \in Node
<1> DEFINE f == FieldOf(n, fnum)
<1>1. CASE \E g \in Schema[n].fields : g.fnum = fnum
  <2>1. f \in Schema[n].fields
    BY <1>1 DEF FieldOf
  <2>2. f \in Field /\ f.type \in Scalar \cup NodeKind /\ (f.type \in NodeKind => f.sub \in Node)
    BY <2>1, SchemaAssumption
  <2>3. f.fnum \in Nat /\ f.rnum \in Nat
    BY <2>2 DEF Field
  <2> QED BY <2>1, <2>2, <2>3
<1>2. CASE ~\E g \in Schema[n].fields : g.fnum = fnum
  BY <1>2 DEF FieldOf
<1> QED BY <1>1, <1>2

LEMMA NoFieldType == NoField.type \notin Scalar \cup NodeKind /\ NoField.occ # "repeated"
BY DEF NoField, Scalar, NodeKind

LEMMA DecoderAtTag ==
    ASSUME DInv, AtTag
    PROVE  /\ Wire(wire, end) /\ sp \in 1 .. Len(stack) /\ Top.node \in Node /\ p < end
           /\ Tag.fnum \in Nat /\ Tag.wt \in 0 .. 5
           /\ \/ Tag.next = Fail
              \/ Tag.next \in Nat /\ p < Tag.next /\ Tag.next <= end
<1>1. Nested(stack, sp, wire) /\ end = stack[sp].stop /\ p <= end /\ p # end
  BY DEF DInv, AtTag
<1>2. sp \in 1 .. Len(stack) /\ stack[sp].node \in Node /\ stack[sp].stop <= Len(wire)
  BY <1>1 DEF Nested, DInv
<1>3. Wire(wire, end)
  BY <1>1, <1>2 DEF Wire, DInv
<1>4. p \in Nat /\ end \in Nat
  BY DEF DInv
<1> QED BY <1>1, <1>2, <1>3, <1>4, TagAtBounds DEF Tag, Top

-----------------------------------------------------------------------------
(* Putting spots on the stack and taking them away *)

Replaced(st, i, s, new) ==
    /\ Spots(new) /\ Len(new) = Len(st)
    /\ new[i] = s
    /\ \A j \in 1 .. Len(st) : j # i => new[j] = st[j]

LEMMA SpotsExcept ==
    ASSUME NEW st, Spots(st), NEW i \in 1 .. Len(st), NEW s, SpotOK(s)
    PROVE  Replaced(st, i, s, [st EXCEPT ![i] = s])
<1> DEFINE new == [st EXCEPT ![i] = s]
<1>1. DOMAIN st = 1 .. Len(st) /\ Len(st) \in Nat \ {0}
  BY DEF Spots
<1>2. new = [j \in 1 .. Len(st) |-> new[j]]
  BY <1>1
<1>3. Len(new) = Len(st)
  BY <1>1, <1>2, LengthOfFunction
<1>4. new[i] = s /\ \A j \in 1 .. Len(st) : j # i => new[j] = st[j]
  BY <1>1
<1>5. \A j \in 1 .. Len(st) : SpotOK(new[j])
  BY <1>4 DEF Spots
<1> QED BY <1>1, <1>2, <1>3, <1>4, <1>5 DEF Spots, Replaced

\* Two spots are put on the grown stack, one for that in use and one above it.
Entered(parent, child, new) ==
    /\ Spots(new) /\ sp + 1 <= Len(new) /\ Len(stack) <= Len(new)
    /\ new[sp] = parent /\ new[sp + 1] = child
    /\ \A j \in 1 .. sp - 1 : new[j] = stack[j]
    /\ \A j \in sp + 2 .. Len(new) : IF j <= Len(stack) THEN new[j] = stack[j]
                                                        ELSE new[j] = ZeroSpot

LEMMA PutTwo ==
    ASSUME Spots(stack), sp \in 1 .. Len(stack),
           NEW parent, SpotOK(parent), NEW child, SpotOK(child)
    PROVE  Entered(parent, child, [Grown EXCEPT ![sp] = parent, ![sp + 1] = child])
<1> DEFINE one == [Grown EXCEPT ![sp] = parent]
           new == [one EXCEPT ![sp + 1] = child]
<1>1. /\ Spots(Grown) /\ Len(stack) <= Len(Grown) /\ sp < Len(Grown)
      /\ \A i \in 1 .. Len(stack) : Grown[i] = stack[i]
      /\ \A i \in Len(stack) + 1 .. Len(Grown) : Grown[i] = ZeroSpot
  BY GrownSpots
<1>2. Len(Grown) \in Nat /\ Len(stack) \in Nat /\ sp \in 1 .. Len(Grown) /\ sp + 1 \in 1 .. Len(Grown)
  BY <1>1 DEF Spots
<1>3. Replaced(Grown, sp, parent, one)
  BY <1>1, <1>2, SpotsExcept
<1>4. Spots(one) /\ sp + 1 \in 1 .. Len(one)
  BY <1>2, <1>3 DEF Replaced
<1>5. Replaced(one, sp + 1, child, new)
  <2> HIDE DEF one
  <2> QED BY <1>4, SpotsExcept
<1> HIDE DEF one, new
<1>6. \A j \in 1 .. sp - 1 : new[j] = stack[j]
  BY <1>1, <1>2, <1>3, <1>5 DEF Replaced
<1>7. ASSUME NEW j \in sp + 2 .. Len(new)
      PROVE  IF j <= Len(stack) THEN new[j] = stack[j] ELSE new[j] = ZeroSpot
  <2>1. new[j] = Grown[j] /\ j \in 1 .. Len(Grown)
    BY <1>2, <1>3, <1>5 DEF Replaced
  <2> QED BY <1>1, <1>2, <2>1
<1>8. new[sp] = parent /\ new[sp + 1] = child
  BY <1>2, <1>3, <1>5 DEF Replaced
<1>9. Entered(parent, child, new)
  BY <1>1, <1>2, <1>3, <1>5, <1>6, <1>7, <1>8 DEF Replaced, Entered
<1> QED BY <1>9 DEF one, new

\* A spot that is entered inside the one in use.
LEMMA PushKeeps ==
    ASSUME Spots(stack), Nested(stack, sp, wire), wire \in Seq(0 .. 255),
           NEW parent, SpotOK(parent), NEW child, SpotOK(child),
           parent.node = Top.node, parent.stop = Top.stop,
           parent.group = Top.group, parent.saved = Top.saved,
           Within(parent, child), child.node \in Node,
           NEW new, Entered(parent, child, new)
    PROVE  Nested(new, sp + 1, wire)
<1>1. sp \in 1 .. Len(stack) /\ Len(stack) \in Nat
  BY DEF Nested, Spots
<1>2. /\ Spots(new) /\ sp + 1 <= Len(new) /\ Len(stack) <= Len(new)
      /\ new[sp] = parent /\ new[sp + 1] = child
      /\ \A j \in 1 .. sp - 1 : new[j] = stack[j]
      /\ \A j \in sp + 2 .. Len(new) : IF j <= Len(stack) THEN new[j] = stack[j]
                                                          ELSE new[j] = ZeroSpot
  BY DEF Entered
<1>3. sp + 1 \in 1 .. Len(new) /\ Len(new) \in Nat /\ sp \in Nat
  BY <1>1, <1>2 DEF Spots
<1>4. /\ stack[sp].node \in Node /\ stack[sp].stop <= Len(wire)
      /\ stack[1].stop = Len(wire) /\ stack[sp].stop \in Nat /\ child.stop \in Nat
  BY <1>1 DEF Nested, Spots, SpotOK
<1>5. new[1].stop = Len(wire)
  BY <1>1, <1>2, <1>4 DEF Top
<1>6. ASSUME NEW i \in 1 .. sp + 1 PROVE new[i].node \in Node /\ new[i].stop <= Len(wire)
  <2>1. CASE i = sp + 1
    BY <1>2, <1>4, <2>1 DEF Within, Top
  <2>2. CASE i = sp
    BY <1>2, <1>4, <2>2 DEF Top
  <2>3. CASE i \in 1 .. sp - 1
    <3>1. new[i] = stack[i] /\ i \in 1 .. sp
      BY <1>1, <1>2, <2>3
    <3> QED BY <3>1 DEF Nested
  <2> QED BY <1>3, <2>1, <2>2, <2>3
<1>7. ASSUME NEW i \in 2 .. sp + 1 PROVE Within(new[i - 1], new[i])
  <2>1. CASE i = sp + 1
    BY <1>2, <1>3, <2>1
  <2>2. CASE i = sp
    <3>1. Within(stack[i - 1], stack[i]) /\ new[i - 1] = stack[i - 1]
      BY <1>1, <1>2, <2>2 DEF Nested
    <3> QED BY <1>2, <2>2, <3>1 DEF Within, Top
  <2>3. CASE i \in 2 .. sp - 1
    <3>1. Within(stack[i - 1], stack[i]) /\ new[i - 1] = stack[i - 1] /\ new[i] = stack[i]
      BY <1>1, <1>2, <2>3 DEF Nested
    <3> QED BY <3>1
  <2> QED BY <1>3, <2>1, <2>2, <2>3
<1>8. ASSUME NEW i \in sp + 1 + 1 .. Len(new) PROVE new[i].group = NoField
  <2>1. i \in sp + 2 .. Len(new)
    BY <1>3
  <2>2. CASE i <= Len(stack)
    <3>1. new[i] = stack[i] /\ i \in sp + 1 .. Len(stack)
      BY <1>1, <1>2, <2>1, <2>2
    <3> QED BY <3>1 DEF Nested
  <2>3. CASE ~(i <= Len(stack))
    <3>1. new[i] = ZeroSpot
      BY <1>2, <2>1, <2>3
    <3> QED BY <3>1 DEF ZeroSpot
  <2> QED BY <2>2, <2>3
<1> QED BY <1>2, <1>3, <1>5, <1>6, <1>7, <1>8 DEF Nested

\* The spot in use is left: what was read there goes into the elements of the
\* one below, which is in use again.
LEMMA PopKeeps ==
    ASSUME Spots(stack), Nested(stack, sp, wire), sp > 1, NEW arr, NEW new,
           new = [stack EXCEPT ![sp] = Popped, ![sp - 1].arr = arr]
    PROVE  Spots(new) /\ Nested(new, sp - 1, wire) /\ new[sp - 1].stop = stack[sp - 1].stop
<1>1. /\ sp \in 2 .. Len(stack) /\ Len(stack) \in Nat /\ DOMAIN stack = 1 .. Len(stack)
      /\ sp \in 1 .. Len(stack) /\ sp - 1 \in 1 .. Len(stack)
  BY DEF Nested, Spots
<1> DEFINE below == [stack[sp - 1] EXCEPT !.arr = arr]
           one == [stack EXCEPT ![sp] = Popped]
<1>2. SpotOK(stack[sp]) /\ SpotOK(stack[sp - 1])
  BY <1>1 DEF Spots
<1>3. SpotOK(Popped) /\ Popped.group = NoField
  BY <1>2 DEF Popped, Cleared, Top, SpotOK, SpotKey
<1>4. SpotOK(below) /\ SameSpot(stack[sp - 1], below)
  BY <1>2 DEF SpotOK, SpotKey, SameSpot
<1>5. Replaced(stack, sp, Popped, one)
  BY <1>1, <1>3, SpotsExcept
<1>6. new = [one EXCEPT ![sp - 1] = below]
  <2>1. one[sp - 1] = stack[sp - 1]
    BY <1>1, <1>5 DEF Replaced
  <2>2. new = [one EXCEPT ![sp - 1] = [one[sp - 1] EXCEPT !.arr = arr]]
    OBVIOUS
  <2> HIDE DEF one
  <2> QED BY <2>1, <2>2
<1>7. Spots(one) /\ sp - 1 \in 1 .. Len(one)
  BY <1>1, <1>5 DEF Replaced
<1> HIDE DEF one, below
<1>8. Replaced(one, sp - 1, below, new)
  <2>1. Replaced(one, sp - 1, below, [one EXCEPT ![sp - 1] = below])
    BY <1>4, <1>7, SpotsExcept
  <2> QED BY <1>6, <2>1
<1>9. /\ Spots(new) /\ Len(new) = Len(stack)
      /\ new[sp - 1] = below /\ new[sp] = Popped
      /\ \A j \in 1 .. Len(stack) : j # sp /\ j # sp - 1 => new[j] = stack[j]
  BY <1>1, <1>5, <1>8 DEF Replaced
<1>10. \A j \in 1 .. sp - 1 : SameSpot(stack[j], new[j])
  <2> TAKE j \in 1 .. sp - 1
  <2>1. CASE j = sp - 1
    BY <1>4, <1>9, <2>1
  <2>2. CASE j # sp - 1
    <3>1. new[j] = stack[j]
      BY <1>1, <1>9, <2>2
    <3> QED BY <3>1 DEF SameSpot
  <2> QED BY <2>1, <2>2
<1>11. new[1].stop = Len(wire)
  BY <1>1, <1>10 DEF Nested, SameSpot
<1>12. \A i \in 1 .. sp - 1 : new[i].node \in Node /\ new[i].stop <= Len(wire)
  BY <1>1, <1>10 DEF Nested, SameSpot
<1>13. \A i \in 2 .. sp - 1 : Within(new[i - 1], new[i])
  <2> TAKE i \in 2 .. sp - 1
  <2>1. Within(stack[i - 1], stack[i])
    BY <1>1 DEF Nested
  <2>2. SameSpot(stack[i - 1], new[i - 1]) /\ SameSpot(stack[i], new[i])
    BY <1>1, <1>10
  <2> QED BY <2>1, <2>2 DEF Within, SameSpot
<1>14. \A i \in sp - 1 + 1 .. Len(new) : new[i].group = NoField
  <2> TAKE i \in sp - 1 + 1 .. Len(new)
  <2>1. CASE i = sp
    BY <1>3, <1>9, <2>1
  <2>2. CASE i # sp
    <3>1. i \in sp + 1 .. Len(stack) /\ new[i] = stack[i]
      BY <1>1, <1>9, <2>2
    <3> QED BY <3>1 DEF Nested
  <2> QED BY <2>1, <2>2
<1>15. new[sp - 1].stop = stack[sp - 1].stop
  BY <1>1, <1>10 DEF SameSpot
<1>16. sp - 1 \in 1 .. Len(new)
  BY <1>1, <1>9
<1> QED BY <1>9, <1>11, <1>12, <1>13, <1>14, <1>15, <1>16 DEF Nested

-----------------------------------------------------------------------------
(* The steps *)

LEMMA DInitInv == Init => DInv
<1> SUFFICES ASSUME Init PROVE DInv
  OBVIOUS
<1>1. SpotOK(ZeroSpot)
  BY DEF SpotOK, ZeroSpot, SpotKey
<1>2. stack = <<ZeroSpot>>
  BY DEF Init
<1>3. Spots(stack)
  BY <1>1, <1>2 DEF Spots
<1>4. wire \in Seq(0 .. 255)
  BY DEF Init
<1> QED BY <1>2, <1>3, <1>4 DEF Init, DInv

\* A call ends, by an error or for want of memory, and leaves spots behind.
LEMMA CallEnds ==
    ASSUME DInv, status' \in {"error", "denied"}, Spots(stack'), Len(stack) <= Len(stack'),
           UNCHANGED <<wire, p, end, sp, todo>>
    PROVE  DInv'
<1>1. Len(stack) \in Nat /\ Len(stack') \in Nat
  BY DEF DInv, Spots
<1> QED BY <1>1 DEF DInv

\* A turn that only reads, and only changes elements.
LEMMA ReadsOn ==
    ASSUME DInv, AtTag, SameSpots(stack, stack'), NEW next, Ahead(next, p, end),
           Continue(next)
    PROVE  DInv' /\ (status' = "run" => p' > p)
<1>1. Spots(stack') /\ \A n, w : Nested(stack, n, w) => Nested(stack', n, w)
  BY SameSpotsKeep DEF DInv
<1>2. CASE next = Fail
  <2>1. Len(stack) <= Len(stack')
    BY DEF SameSpots, DInv, Spots
  <2> QED BY <1>1, <1>2, <2>1, CallEnds DEF Continue, Raise
<1>3. CASE next # Fail
  <2>1. p' = next /\ UNCHANGED <<wire, end, sp, status, todo>>
    BY <1>3 DEF Continue
  <2>2. next \in Nat /\ p < next /\ next <= end
    BY <1>3 DEF Ahead
  <2>3. status = "run" /\ Nested(stack, sp, wire) /\ end = stack[sp].stop
    BY DEF DInv, AtTag
  <2>4. sp \in 1 .. Len(stack)
    BY <2>3 DEF Nested
  <2>5. stack'[sp].stop = stack[sp].stop /\ Len(stack') = Len(stack)
    BY <2>4 DEF SameSpots, SameSpot
  <2> QED BY <1>1, <2>1, <2>2, <2>3, <2>5 DEF DInv
<1> QED BY <1>2, <1>3

LEMMA SameSpotsReflexive ==
    ASSUME Spots(stack), stack' = stack
    PROVE  SameSpots(stack, stack')
BY DEF Spots, SameSpots, SameSpot

LEMMA FilledIn ==
    ASSUME NEW spot, SpotOK(spot), NEW n \in Node, NEW left \in HalfFilled(spot, n)
    PROVE  SpotOK(left)
BY DEF HalfFilled, SpotOK, SpotKey

LEMMA BeginStep ==
    ASSUME DInv, Begin
    PROVE  DInv'
<1> DEFINE call == Head(todo)
           CallOn(first) == stack' = [i \in 1 .. Len(stack) |->
                                         IF i > 1 THEN Cleared(stack[i]) ELSE first]
<1>1. call \in Call /\ todo' \in Seq(Call)
  BY HeadTailProperties DEF DInv, Begin
<1>2. call.name \in Node /\ call.bin \in Seq(0 .. 255) /\ Len(call.bin) \in Nat
  BY <1>1 DEF Call
<1>3. wire' = call.bin /\ p' = 0 /\ end' = Len(call.bin) /\ sp' = 1
  BY DEF Begin
<1>4. Spots(stack) /\ Len(stack) \in Nat \ {0} /\ 1 \in 1 .. Len(stack)
  BY DEF DInv, Spots
<1>5. \A s : SpotOK(s) => SpotOK(Cleared(s)) /\ Cleared(s).group = NoField
  BY DEF SpotOK, SpotKey, Cleared
<1>6. SpotOK(stack[1])
  BY <1>4 DEF Spots
<1>7. ASSUME NEW first, SpotOK(first), CallOn(first)
      PROVE  /\ Spots(stack') /\ Len(stack') = Len(stack) /\ stack'[1] = first
             /\ \A i \in 2 .. Len(stack) : stack'[i].group = NoField
  <2>1. stack' = [i \in 1 .. Len(stack) |-> stack'[i]]
    BY <1>7
  <2>2. Len(stack') = Len(stack)
    BY <1>4, <2>1, LengthOfFunction
  <2>3. stack'[1] = first /\ \A i \in 2 .. Len(stack) : stack'[i] = Cleared(stack[i])
    BY <1>4, <1>7
  <2>4. \A i \in 1 .. Len(stack) : SpotOK(stack'[i])
    <3> TAKE i \in 1 .. Len(stack)
    <3>1. SpotOK(stack[i])
      BY <1>4 DEF Spots
    <3>2. i = 1 \/ i \in 2 .. Len(stack)
      OBVIOUS
    <3> QED BY <1>5, <1>7, <2>3, <3>1, <3>2
  <2>5. \A i \in 2 .. Len(stack) : SpotOK(stack[i])
    BY <1>4 DEF Spots
  <2> QED BY <1>4, <1>5, <2>1, <2>2, <2>3, <2>4, <2>5 DEF Spots
<1>8. CASE status' = "run" /\ CallOn(Started(stack[1], call))
  <2> DEFINE first == Started(stack[1], call)
  <2>1. /\ SpotOK(first) /\ first.node = call.name /\ first.stop = Len(call.bin)
    BY <1>2, <1>5, <1>6 DEF Started, SpotOK, SpotKey
  <2> HIDE DEF first
  <2>2. /\ Spots(stack') /\ Len(stack') = Len(stack) /\ stack'[1] = first
        /\ \A i \in 2 .. Len(stack) : stack'[i].group = NoField
    BY <1>7, <1>8, <2>1 DEF first
  <2>3. Nested(stack', 1, wire')
    BY <1>2, <1>3, <1>4, <2>1, <2>2 DEF Nested
  <2> QED BY <1>1, <1>2, <1>3, <1>4, <1>8, <2>1, <2>2, <2>3 DEF DInv
<1>9. CASE /\ status' = "denied"
           /\ \E first \in HalfFilled(Cleared(stack[1]), call.name) : CallOn(first)
  <2>1. PICK first \in HalfFilled(Cleared(stack[1]), call.name) : CallOn(first)
    BY <1>9
  <2>2. SpotOK(first)
    BY <1>2, <1>5, <1>6, FilledIn
  <2>3. Spots(stack') /\ Len(stack') = Len(stack)
    BY <1>7, <2>1, <2>2
  <2> QED BY <1>1, <1>2, <1>3, <1>4, <1>9, <2>3 DEF DInv
<1> QED BY <1>8, <1>9 DEF Begin

\* What a turn of the loop does besides keeping the invariant: it ends the
\* call, reads on, or leaves a spot.
Progress == status' = "run" => p' > p \/ (p' = p /\ sp' < sp)

LEMMA DecoderAtEnd ==
    ASSUME DInv, AtEnd
    PROVE  /\ Spots(stack) /\ Nested(stack, sp, wire) /\ sp \in 1 .. Len(stack)
           /\ p = Top.stop /\ SpotOK(Popped)
<1>1. Spots(stack) /\ Nested(stack, sp, wire) /\ p = Top.stop
  BY DEF DInv, AtEnd, Top
<1>2. sp \in 1 .. Len(stack)
  BY <1>1 DEF Nested
<1>3. SpotOK(stack[sp])
  BY <1>1, <1>2 DEF Spots
<1>4. SpotOK(Popped)
  BY <1>3 DEF Popped, Cleared, Top, SpotOK, SpotKey
<1> QED BY <1>1, <1>2, <1>4

LEMMA PopEndsStep ==
    ASSUME DInv, PopRaise \/ PopRoot \/ PopDenied
    PROVE  DInv' /\ Progress
<1>1. CASE PopRaise
  <2>1. Spots(stack') /\ Len(stack) <= Len(stack') /\ status' = "error"
    BY <1>1 DEF PopRaise, Raise, DInv, Spots
  <2> QED BY <1>1, <2>1, CallEnds DEF PopRaise, Raise, Progress
<1>2. CASE PopRoot
  <2>1. Replaced(stack, 1, Popped, [stack EXCEPT ![1] = Popped])
    BY <1>2, DecoderAtEnd, SpotsExcept DEF PopRoot
  <2>2. Spots(stack')
    BY <1>2, <2>1 DEF PopRoot, Replaced
  <2>3. status' = "done" /\ sp' = 0
    BY <1>2 DEF PopRoot
  <2> QED BY <1>2, <2>2, <2>3 DEF PopRoot, DInv, Progress, Spots
<1>3. CASE PopDenied
  <2>1. Replaced(stack, sp, Popped, [stack EXCEPT ![sp] = Popped])
    BY <1>3, DecoderAtEnd, SpotsExcept DEF PopDenied
  <2>2. Spots(stack') /\ Len(stack') = Len(stack) /\ Len(stack) \in Nat
    BY <1>3, <2>1 DEF PopDenied, Replaced, DInv, Spots
  <2> QED BY <1>3, <2>2, CallEnds DEF PopDenied, Deny, Progress
<1> QED BY <1>1, <1>2, <1>3

\* Reading resumes where the spot was, or behind its end tag, and that is still
\* inside the spot below.
LEMMA ResumeBounds ==
    ASSUME DInv, AtEnd, ~Unfit, sp > 1
    PROVE  /\ Resume \in Nat /\ p <= Resume /\ Resume <= stack[sp - 1].stop
<1>1. /\ Spots(stack) /\ Nested(stack, sp, wire) /\ sp \in 2 .. Len(stack)
      /\ p = Top.stop /\ p \in Nat
  BY DecoderAtEnd DEF DInv
<1>2. Within(stack[sp - 1], stack[sp])
  BY <1>1 DEF Nested
<1>3. SpotOK(stack[sp - 1]) /\ SpotOK(stack[sp]) /\ stack[sp - 1].stop <= Len(wire)
  <2>1. sp - 1 \in 1 .. Len(stack) /\ sp \in 1 .. Len(stack) /\ sp - 1 \in 1 .. sp
    BY <1>1
  <2> QED BY <1>1, <2>1 DEF Spots, Nested
<1>4. CASE Top.group = NoField
  BY <1>1, <1>2, <1>4 DEF Resume, Within, Top
<1>5. CASE Top.group # NoField
  <2> DEFINE tag == TagAt(wire, p, Top.saved)
  <2>1. Resume = IF tag.wt = EGROUP /\ tag.fnum = Top.group.fnum THEN tag.next ELSE Fail
    BY <1>5 DEF Resume
  <2>2. Top.saved = stack[sp - 1].stop
    BY <1>2, <1>5 DEF Within, Top
  <2>3. Wire(wire, Top.saved)
    BY <1>3, <2>2 DEF Wire, DInv, SpotOK
  <2>4. tag.next = Fail \/ (tag.next \in Nat /\ p < tag.next /\ tag.next <= Top.saved)
    BY <1>1, <2>3, TagAtBounds
  <2>5. Resume # Fail
    BY <1>5 DEF Unfit
  <2> HIDE DEF tag
  <2> QED BY <1>1, <2>1, <2>2, <2>4, <2>5
<1> QED BY <1>4, <1>5

LEMMA PopInnerStep ==
    ASSUME DInv, PopInner
    PROVE  DInv' /\ Progress
<1>1. AtEnd /\ ~Unfit /\ sp > 1
  BY DEF PopInner
<1>2. /\ Spots(stack) /\ Nested(stack, sp, wire) /\ sp \in 1 .. Len(stack) /\ p \in Nat
      /\ SpotOK(stack[sp - 1])
  <2>1. Spots(stack) /\ Nested(stack, sp, wire) /\ sp \in 1 .. Len(stack) /\ p \in Nat
    BY <1>1, DecoderAtEnd DEF DInv
  <2>2. sp - 1 \in 1 .. Len(stack)
    BY <1>1, <2>1
  <2> QED BY <2>1, <2>2 DEF Spots
<1>3. /\ Spots(stack') /\ Nested(stack', sp - 1, wire)
      /\ stack'[sp - 1].stop = stack[sp - 1].stop
  <2> DEFINE arr == Deliver(stack[sp - 1], Finished, Value(Top, Finished))
  <2>1. stack' = [stack EXCEPT ![sp] = Popped, ![sp - 1].arr = arr]
    BY DEF PopInner
  <2> HIDE DEF arr
  <2> QED BY <1>1, <1>2, <2>1, PopKeeps
<1>4. Resume \in Nat /\ p <= Resume /\ Resume <= stack[sp - 1].stop
  BY <1>1, ResumeBounds
<1>5. /\ sp' = sp - 1 /\ p' = Resume /\ end' = stack[sp - 1].stop
      /\ UNCHANGED <<wire, status, todo>>
  BY DEF PopInner
<1>6. DInv'
  <2>1. sp - 1 \in 0 .. Len(stack')
    BY <1>3 DEF Nested, Spots
  <2> QED BY <1>2, <1>3, <1>4, <1>5, <2>1 DEF DInv, SpotOK
<1>7. Progress
  BY <1>2, <1>4, <1>5 DEF Progress
<1> QED BY <1>6, <1>7

LEMMA BadTagStep ==
    ASSUME DInv, BadTag \/ BadNesting \/ UnknownDenied
    PROVE  DInv' /\ Progress
<1>1. /\ UNCHANGED stack /\ status' \in {"error", "denied"}
      /\ UNCHANGED <<wire, p, end, sp, todo>>
  BY DEF BadTag, BadNesting, UnknownDenied, Raise, Deny
<1>2. Spots(stack') /\ Len(stack) <= Len(stack')
  BY <1>1 DEF DInv, Spots
<1> QED BY <1>1, <1>2, CallEnds DEF Progress

\* A turn that reads one field which is no spot of its own.
LEMMA ReadStep ==
    ASSUME DInv, Unknown \/ Packed \/ ScalarField
    PROVE  DInv' /\ Progress
<1> DEFINE f == FieldOf(Top.node, Tag.fnum)
<1>1. AtTag /\ Tag.next # Fail
  BY DEF Unknown, Packed, ScalarField
<1>2. /\ Wire(wire, end) /\ sp \in 1 .. Len(stack) /\ Top.node \in Node
      /\ Tag.fnum \in Nat /\ Tag.wt \in 0 .. 5
      /\ Tag.next \in Nat /\ p < Tag.next /\ Tag.next <= end
  BY <1>1, DecoderAtTag
<1>3. \A next : Ahead(next, Tag.next, end) => Ahead(next, p, end)
  BY <1>2 DEF Ahead, DInv
<1>4. Spots(stack)
  BY DEF DInv
<1>5. f = NoField \/ (f \in Field /\ f.fnum \in Nat)
  BY <1>2, FieldOfNode
<1>6. ASSUME NEW next, Ahead(next, Tag.next, end), Continue(next), SameSpots(stack, stack')
      PROVE  DInv' /\ Progress
  BY <1>1, <1>3, <1>6, ReadsOn DEF Progress
<1>7. CASE Unknown
  <2> DEFINE item == CollectUnknown(wire, Tag.next, end, Tag.fnum, Tag.wt)
             skipped == SkipUnknown(wire, Tag.next, end, Tag.fnum, Tag.wt)
  <2>1. Ahead(item.next, Tag.next, end) /\ Ahead(skipped, Tag.next, end)
    <3>1. Ahead(item.next, Tag.next, end)
      BY <1>2, CollectUnknownBounds
    <3>2. Tag.wt \in Nat
      BY <1>2
    <3>3. Ahead(skipped, Tag.next, end)
      BY <1>2, <3>2, SkipUnknownBounds
    <3> QED BY <3>1, <3>3
  <2>2. CASE Continue(skipped) /\ UNCHANGED stack
    BY <1>4, <1>6, <2>1, <2>2, SameSpotsReflexive
  <2>3. CASE Continue(item.next) /\ UNCHANGED stack
    BY <1>4, <1>6, <2>1, <2>3, SameSpotsReflexive
  <2>4. CASE Continue(item.next) /\ \E i, t : SetTop(i, t)
    BY <1>2, <1>4, <1>6, <2>1, <2>4, SetTopKeeps
  <2> QED BY <1>7, <2>2, <2>3, <2>4 DEF Unknown
<1>8. CASE Packed
  <2> DEFINE run == UnpackPacked(wire, f.type, Tag.next, end)
  <2>1. f.type \in Scalar
    BY <1>8 DEF Packed, IsPacked, Packable, Scalar
  <2>2. Ahead(run.next, Tag.next, end)
    BY <1>2, <2>1, UnpackPackedBounds
  <2>3. Continue(run.next) /\ (UNCHANGED stack \/ \E i, t : SetTop(i, t))
    BY <1>8 DEF Packed
  <2> QED BY <1>2, <1>4, <1>6, <2>2, <2>3, SetTopKeeps, SameSpotsReflexive
<1>9. CASE ScalarField
  <2> DEFINE value == UnpackField(wire, f, Tag.next, end, Tag.wt)
  <2>1. f.type \in Scalar /\ Continue(value.next) /\ (UNCHANGED stack \/ \E i, t : SetTop(i, t))
    BY <1>9 DEF ScalarField
  <2>2. f.fnum \in Nat
    BY <1>5, <2>1, NoFieldType
  <2>3. Ahead(value.next, Tag.next, end)
    BY <1>2, <2>1, <2>2, UnpackFieldBounds
  <2> QED BY <1>2, <1>4, <1>6, <2>1, <2>3, SetTopKeeps, SameSpotsReflexive
<1> QED BY <1>7, <1>8, <1>9

\* The spot above the one in use belongs to no group, grown or not.
LEMMA SpotAbove ==
    ASSUME Spots(stack), Nested(stack, sp, wire)
    PROVE  SpotOK(Grown[sp + 1]) /\ Grown[sp + 1].group = NoField
<1>1. sp \in 1 .. Len(stack) /\ Len(stack) \in Nat
  BY DEF Nested, Spots
<1>2. /\ Spots(Grown) /\ Len(stack) <= Len(Grown) /\ sp < Len(Grown)
      /\ \A i \in 1 .. Len(stack) : Grown[i] = stack[i]
      /\ \A i \in Len(stack) + 1 .. Len(Grown) : Grown[i] = ZeroSpot
  BY <1>1, GrownSpots
<1>3. sp + 1 \in 1 .. Len(Grown)
  BY <1>1, <1>2 DEF Spots
<1>4. SpotOK(Grown[sp + 1])
  BY <1>2, <1>3 DEF Spots
<1>5. CASE sp + 1 <= Len(stack)
  <2>1. Grown[sp + 1] = stack[sp + 1] /\ sp + 1 \in sp + 1 .. Len(stack)
    BY <1>1, <1>2, <1>5
  <2> QED BY <1>4, <2>1 DEF Nested
<1>6. CASE ~(sp + 1 <= Len(stack))
  <2>1. Grown[sp + 1] = ZeroSpot
    BY <1>1, <1>2, <1>3, <1>6
  <2> QED BY <1>4, <2>1 DEF ZeroSpot
<1> QED BY <1>5, <1>6

\* What a turn that comes to a sub-message or a group may do: run out of memory
\* or into an error with spots written, or enter the new one.
LEMMA EnterStep ==
    ASSUME DInv, AtTag, NEW parent, SpotOK(parent), NEW child, SpotOK(child),
           \/ stack' = [stack EXCEPT ![sp] = parent] /\ Deny
           \/ stack' = [Grown EXCEPT ![sp] = parent, ![sp + 1] = child] /\ (Raise \/ Deny)
           \/ /\ stack' = [Grown EXCEPT ![sp] = parent, ![sp + 1] = child]
              /\ parent.node = Top.node /\ parent.stop = Top.stop
              /\ parent.group = Top.group /\ parent.saved = Top.saved
              /\ Within(parent, child) /\ child.node \in Node
              /\ sp' = sp + 1 /\ p' \in Nat /\ p < p' /\ p' <= child.stop /\ end' = child.stop
              /\ UNCHANGED <<wire, status, todo>>
    PROVE  DInv' /\ Progress
<1>1. /\ Spots(stack) /\ sp \in 1 .. Len(stack) /\ Len(stack) \in Nat
      /\ Nested(stack, sp, wire) /\ status = "run"
  BY DEF DInv, AtTag, Nested, Spots
<1>2. Entered(parent, child, [Grown EXCEPT ![sp] = parent, ![sp + 1] = child])
  BY <1>1, PutTwo
<1>3. CASE stack' = [stack EXCEPT ![sp] = parent] /\ Deny
  <2>1. Replaced(stack, sp, parent, [stack EXCEPT ![sp] = parent])
    BY <1>1, SpotsExcept
  <2>2. Spots(stack') /\ Len(stack) <= Len(stack')
    BY <1>1, <1>3, <2>1 DEF Replaced
  <2> QED BY <1>3, <2>2, CallEnds DEF Deny, Progress
<1>4. CASE /\ stack' = [Grown EXCEPT ![sp] = parent, ![sp + 1] = child]
           /\ Raise \/ Deny
  <2>1. Spots(stack') /\ Len(stack) <= Len(stack')
    BY <1>2, <1>4 DEF Entered
  <2> QED BY <1>4, <2>1, CallEnds DEF Raise, Deny, Progress
<1>5. CASE /\ stack' = [Grown EXCEPT ![sp] = parent, ![sp + 1] = child]
           /\ parent.node = Top.node /\ parent.stop = Top.stop
           /\ parent.group = Top.group /\ parent.saved = Top.saved
           /\ Within(parent, child) /\ child.node \in Node
           /\ sp' = sp + 1 /\ p' \in Nat /\ p < p' /\ p' <= child.stop /\ end' = child.stop
           /\ UNCHANGED <<wire, status, todo>>
  <2>1. Entered(parent, child, stack')
    BY <1>2, <1>5
  <2>2. wire \in Seq(0 .. 255)
    BY DEF DInv
  <2>3. Nested(stack', sp + 1, wire)
    BY <1>1, <1>5, <2>1, <2>2, PushKeeps
  <2>4. /\ Spots(stack') /\ stack'[sp + 1] = child /\ sp + 1 \in 0 .. Len(stack')
        /\ child.stop \in Nat
    <3>1. Spots(stack') /\ stack'[sp + 1] = child /\ sp + 1 <= Len(stack')
      BY <2>1 DEF Entered
    <3>2. Len(stack') \in Nat
      BY <3>1 DEF Spots
    <3> QED BY <1>1, <3>1, <3>2 DEF SpotOK
  <2>5. DInv'
    BY <1>1, <1>5, <2>2, <2>3, <2>4 DEF DInv
  <2>6. p' > p
    BY <1>5 DEF DInv
  <2> QED BY <2>5, <2>6 DEF Progress
<1> QED BY <1>3, <1>4, <1>5

LEMMA PushMessageStep ==
    ASSUME DInv, PushMessage
    PROVE  DInv' /\ Progress
<1> DEFINE f == FieldOf(Top.node, Tag.fnum)
           len == LengthAt(wire, Tag.next, end)
           onParent == f.occ = "repeated" /\ ~Top.field.oneof
           parent == [Top EXCEPT !.pos = f.rnum, !.field = IF onParent THEN f ELSE @,
                         !.arr[f.rnum] = IF f.occ = "repeated" THEN ListAt(f.rnum) ELSE @]
           child == [Grown[sp + 1] EXCEPT !.field = IF onParent THEN @ ELSE f]
           ended == [child EXCEPT !.stop = len.after]
           entered == [child EXCEPT !.stop = len.after, !.node = f.sub,
                                    !.arr = StartArr(f, child)]
<1>1. AtTag /\ Tag.next # Fail /\ f.type \in {"msg", "map"}
  BY DEF PushMessage
<1>2. /\ Wire(wire, end) /\ sp \in 1 .. Len(stack) /\ Top.node \in Node
      /\ Tag.next \in Nat /\ p < Tag.next
  BY <1>1, DecoderAtTag
<1>3. /\ f \in Schema[Top.node].fields /\ f \in Field /\ f.rnum \in Nat
      /\ f.sub \in Node /\ f.type \in NodeKind
  BY <1>1, <1>2, FieldOfNode, NoFieldType DEF NodeKind
<1>4. /\ Spots(stack) /\ Nested(stack, sp, wire) /\ end = Top.stop /\ p \in Nat
      /\ SpotOK(Top)
  BY <1>1, <1>2 DEF DInv, AtTag, Top, Spots
<1>5. SpotOK(Grown[sp + 1]) /\ Grown[sp + 1].group = NoField
  BY <1>4, SpotAbove
<1>6. /\ SpotOK(parent) /\ parent.node = Top.node /\ parent.stop = Top.stop
      /\ parent.group = Top.group /\ parent.saved = Top.saved /\ parent.pos = f.rnum
  <2> HIDE DEF f
  <2> QED BY <1>3, <1>4 DEF SpotOK, SpotKey
<1>7. SpotOK(child) /\ child.group = NoField
  <2> HIDE DEF f
  <2> QED BY <1>3, <1>5 DEF SpotOK, SpotKey
<1>8. \/ len.next = Fail /\ len.after \in Nat
      \/ /\ len.next # Fail /\ len.next \in Nat /\ len.after \in Nat
         /\ Tag.next < len.next /\ len.next <= len.after /\ len.after <= end
  <2>1. \/ len.next = Fail /\ len.after = Fail
        \/ /\ len.next \in Nat /\ len.after \in Nat
           /\ Tag.next < len.next /\ len.next <= len.after /\ len.after <= end
    BY <1>2, LengthAtBounds
  <2> HIDE DEF len
  <2> QED BY <1>2, <2>1 DEF Fail
<1>9. SpotOK(ended)
  <2> HIDE DEF child, len
  <2> QED BY <1>7, <1>8 DEF SpotOK, SpotKey
<1>10. /\ SpotOK(entered) /\ entered.node = f.sub /\ entered.stop = len.after
       /\ entered.group = NoField
  <2> HIDE DEF child, len, f
  <2> QED BY <1>3, <1>7, <1>8 DEF SpotOK, SpotKey
<1>11. CASE stack' = [stack EXCEPT ![sp] = parent] /\ Deny
  <2> HIDE DEF parent, child
  <2> QED BY <1>1, <1>6, <1>7, <1>11, EnterStep
<1>12. CASE stack' = [Grown EXCEPT ![sp] = parent, ![sp + 1] = child] /\ Raise
  <2> HIDE DEF parent, child
  <2> QED BY <1>1, <1>6, <1>7, <1>12, EnterStep
<1>13. CASE /\ \E left \in Unentered(ended, f) :
                   stack' = [Grown EXCEPT ![sp] = parent, ![sp + 1] = left]
            /\ Deny
  <2>1. PICK left \in Unentered(ended, f) :
                 stack' = [Grown EXCEPT ![sp] = parent, ![sp + 1] = left]
    BY <1>13
  <2>2. SpotOK(left)
    <3>1. left = ended \/ left \in HalfFilled(ended, f.sub)
      BY <2>1 DEF Unentered
    <3> HIDE DEF ended, f
    <3> QED BY <1>3, <1>9, <3>1, FilledIn
  <2> HIDE DEF parent
  <2> QED BY <1>1, <1>6, <1>13, <2>1, <2>2, EnterStep
<1>14. CASE /\ len.next # Fail
            /\ stack' = [Grown EXCEPT ![sp] = parent, ![sp + 1] = entered]
            /\ sp' = sp + 1 /\ p' = len.next /\ end' = len.after
            /\ UNCHANGED <<wire, status, result, todo>>
  <2>1. Within(parent, entered)
    <3> HIDE DEF parent, entered, f, len
    <3> QED BY <1>3, <1>4, <1>6, <1>8, <1>10, <1>14 DEF Within
  <2>2. p' \in Nat /\ p < p' /\ p' <= entered.stop /\ end' = entered.stop
    <3> HIDE DEF entered, len
    <3> QED BY <1>2, <1>4, <1>8, <1>10, <1>14
  <2>3. entered.node \in Node
    BY <1>3, <1>10
  <2> HIDE DEF parent, entered, len
  <2> QED BY <1>1, <1>6, <1>10, <1>14, <2>1, <2>2, <2>3, EnterStep
<1>15. \/ stack' = [stack EXCEPT ![sp] = parent] /\ Deny
       \/ stack' = [Grown EXCEPT ![sp] = parent, ![sp + 1] = child] /\ Raise
       \/ /\ \E left \in Unentered(ended, f) :
                 stack' = [Grown EXCEPT ![sp] = parent, ![sp + 1] = left]
          /\ Deny
       \/ /\ len.next # Fail
          /\ stack' = [Grown EXCEPT ![sp] = parent, ![sp + 1] = entered]
          /\ sp' = sp + 1 /\ p' = len.next /\ end' = len.after
          /\ UNCHANGED <<wire, status, result, todo>>
  BY Zenon DEF PushMessage
<1> QED BY <1>11, <1>12, <1>13, <1>14, <1>15

LEMMA PushGroupStep ==
    ASSUME DInv, PushGroup
    PROVE  DInv' /\ Progress
<1> DEFINE f == FieldOf(Top.node, Tag.fnum)
           group == GroupBounds(wire, Tag.next, end, f.fnum)
           parent == [Top EXCEPT !.pos = f.rnum, !.field = f]
           child == [Grown[sp + 1] EXCEPT !.saved = end]
           bounded == [child EXCEPT !.stop = group.tag, !.group = f, !.field = f, !.pos = 0]
           entered == [bounded EXCEPT !.node = f.sub, !.arr = Filled(f.sub)]
<1>1. AtTag /\ Tag.next # Fail /\ f.type = "group"
  BY DEF PushGroup
<1>2. /\ Wire(wire, end) /\ sp \in 1 .. Len(stack) /\ Top.node \in Node
      /\ Tag.next \in Nat /\ p < Tag.next
  BY <1>1, DecoderAtTag
<1>3. /\ f \in Schema[Top.node].fields /\ f \in Field /\ f.rnum \in Nat /\ f.fnum \in Nat
      /\ f.sub \in Node /\ f.type \in NodeKind
  BY <1>1, <1>2, FieldOfNode, NoFieldType DEF NodeKind
<1>4. /\ Spots(stack) /\ Nested(stack, sp, wire) /\ end = Top.stop /\ p \in Nat /\ end \in Nat
      /\ SpotOK(Top)
  BY <1>1, <1>2 DEF DInv, AtTag, Top, Spots
<1>5. SpotOK(Grown[sp + 1])
  BY <1>4, SpotAbove
<1>6. /\ SpotOK(parent) /\ parent.node = Top.node /\ parent.stop = Top.stop
      /\ parent.group = Top.group /\ parent.saved = Top.saved /\ parent.pos = f.rnum
  <2> HIDE DEF f
  <2> QED BY <1>3, <1>4 DEF SpotOK, SpotKey
<1>7. SpotOK(child) /\ child.saved = end
  BY <1>4, <1>5 DEF SpotOK, SpotKey
<1>8. \/ group.tag = Fail
      \/ /\ group.tag # Fail /\ group.tag \in Nat
         /\ Tag.next <= group.tag /\ group.tag < end
  <2>1. group = NoGroup \/ Closed(group, Tag.next, end)
    BY <1>2, <1>3, GroupEndBounds DEF GroupBounds
  <2> HIDE DEF group
  <2> QED BY <1>2, <1>4, <2>1 DEF Closed, NoGroup, Fail
<1>9. group.tag # Fail =>
        /\ SpotOK(bounded) /\ bounded.stop = group.tag /\ bounded.saved = end
  <2> HIDE DEF child, group, f
  <2> QED BY <1>3, <1>7, <1>8 DEF SpotOK, SpotKey
<1>10. group.tag # Fail =>
         /\ SpotOK(entered) /\ entered.node = f.sub /\ entered.stop = group.tag
         /\ entered.saved = end
  <2> HIDE DEF bounded, group, f
  <2> QED BY <1>3, <1>9 DEF SpotOK, SpotKey
<1>11. CASE stack' = [stack EXCEPT ![sp] = parent] /\ Deny
  <2> HIDE DEF parent, child
  <2> QED BY <1>1, <1>6, <1>7, <1>11, EnterStep
<1>12. CASE stack' = [Grown EXCEPT ![sp] = parent, ![sp + 1] = child] /\ Raise
  <2> HIDE DEF parent, child
  <2> QED BY <1>1, <1>6, <1>7, <1>12, EnterStep
<1>13. CASE /\ group.tag # Fail
            /\ \E left \in Unentered(bounded, f) :
                   stack' = [Grown EXCEPT ![sp] = parent, ![sp + 1] = left]
            /\ Deny
  <2>1. PICK left \in Unentered(bounded, f) :
                 stack' = [Grown EXCEPT ![sp] = parent, ![sp + 1] = left]
    BY <1>13
  <2>2. SpotOK(left)
    <3>1. left = bounded \/ left \in HalfFilled(bounded, f.sub)
      BY <2>1 DEF Unentered
    <3> HIDE DEF bounded, f, group
    <3> QED BY <1>3, <1>9, <1>13, <3>1, FilledIn
  <2> HIDE DEF parent
  <2> QED BY <1>1, <1>6, <1>13, <2>1, <2>2, EnterStep
<1>14. CASE /\ group.tag # Fail
            /\ stack' = [Grown EXCEPT ![sp] = parent, ![sp + 1] = entered]
            /\ sp' = sp + 1 /\ p' = Tag.next /\ end' = group.tag
            /\ UNCHANGED <<wire, status, result, todo>>
  <2>1. Within(parent, entered)
    <3> HIDE DEF parent, entered, f, group
    <3> QED BY <1>3, <1>4, <1>6, <1>8, <1>10, <1>14 DEF Within
  <2>2. p' \in Nat /\ p < p' /\ p' <= entered.stop /\ end' = entered.stop
    <3> HIDE DEF entered, group
    <3> QED BY <1>2, <1>4, <1>8, <1>10, <1>14
  <2>3. SpotOK(entered) /\ entered.node \in Node
    BY <1>3, <1>10, <1>14
  <2> HIDE DEF parent, entered, group
  <2> QED BY <1>1, <1>6, <1>14, <2>1, <2>2, <2>3, EnterStep
<1>15. \/ stack' = [stack EXCEPT ![sp] = parent] /\ Deny
       \/ stack' = [Grown EXCEPT ![sp] = parent, ![sp + 1] = child] /\ Raise
       \/ /\ group.tag # Fail
          /\ \E left \in Unentered(bounded, f) :
                 stack' = [Grown EXCEPT ![sp] = parent, ![sp + 1] = left]
          /\ Deny
       \/ /\ group.tag # Fail
          /\ stack' = [Grown EXCEPT ![sp] = parent, ![sp + 1] = entered]
          /\ sp' = sp + 1 /\ p' = Tag.next /\ end' = group.tag
          /\ UNCHANGED <<wire, status, result, todo>>
  BY Zenon DEF PushGroup
<1> QED BY <1>11, <1>12, <1>13, <1>14, <1>15

LEMMA TurnStep ==
    ASSUME DInv, Turn
    PROVE  DInv' /\ Progress
BY PopEndsStep, PopInnerStep, BadTagStep, ReadStep, PushMessageStep, PushGroupStep DEF Turn

LEMMA DecoderStep == DInv /\ [Next]_vars => DInv'
<1> SUFFICES ASSUME DInv, [Next]_vars PROVE DInv'
  OBVIOUS
<1>1. CASE Begin
  BY <1>1, BeginStep
<1>2. CASE Turn
  BY <1>2, TurnStep
<1>3. CASE UNCHANGED vars
  BY <1>3 DEF vars, DInv, Spots, Nested, Within, SpotOK
<1> QED BY <1>1, <1>2, <1>3 DEF Next, Rest

-----------------------------------------------------------------------------
(* What holds in every reachable state *)

LEMMA DecoderInvariance == Spec => []DInv
BY DInitInv, DecoderStep, PTL DEF Spec

LEMMA SpotTyped ==
    ASSUME NEW s, SpotOK(s)
    PROVE  [k \in DOMAIN s \ {"arr"} |-> s[k]] \in Spot
<1> DEFINE r == [k \in DOMAIN s \ {"arr"} |-> s[k]]
<1>1. DOMAIN s \ {"arr"} = {"node", "field", "group", "pos", "stop", "saved"}
  BY DEF SpotOK, SpotKey
<1>2. r = [node |-> s.node, field |-> s.field, group |-> s.group,
           pos |-> s.pos, stop |-> s.stop, saved |-> s.saved]
  BY <1>1
<1> QED BY <1>2 DEF Spot, SpotOK

\* Every variable of the decoder keeps its type, and the spots in use have a
\* message: whatever calls come one after the other on one stack, and however
\* each of them ends (decode in ep_decoder.c).
THEOREM DecoderTyped == Spec => []TypeOK
<1>1. DInv => TypeOK
  <2> SUFFICES ASSUME DInv PROVE TypeOK
    OBVIOUS
  <2>1. DOMAIN stack = 1 .. Len(stack) /\ \A i \in 1 .. Len(stack) : SpotOK(stack[i])
    BY DEF DInv, Spots
  <2>2. \A i \in DOMAIN stack : [k \in DOMAIN stack[i] \ {"arr"} |-> stack[i][k]] \in Spot
    BY <2>1, SpotTyped
  <2>3. status = "run" => sp > 0 /\ \A i \in 1 .. sp : stack[i].node # NoNode
    BY SchemaAssumption DEF DInv, Nested
  <2> QED BY <2>2, <2>3 DEF DInv, TypeOK
<1> QED BY DecoderInvariance, <1>1, PTL

\* Whatever lengths and end tags a binary holds, the decoder reads inside the
\* innermost message, that inside the next, and the outermost inside the binary
\* (the moves of dec->end in decode and begin_group_decode, ep_decoder.c).
THEOREM EndsNest == Spec => []EndsNested
<1>1. DInv => EndsNested
  BY DEF DInv, EndsNested, Nested, Within, Top
<1> QED BY DecoderInvariance, <1>1, PTL

\* A finished spot is always handed to the element of the spot below that is
\* for its message: pos and t_arr of the one agree with the node of the other
\* through every push, pop and error (decode and assign_group_value).
THEOREM LinksHold == Spec => []SpotsLinked
<1>1. DInv => SpotsLinked
  BY DEF DInv, SpotsLinked, Nested, Within
<1> QED BY DecoderInvariance, <1>1, PTL

\* Every turn of the loop ends the call, reads at least a byte, or hands down a
\* spot, so no binary keeps the decoder busy for ever (the loop of decode).
THEOREM DecoderAdvances == Spec => ReaderAdvances
<1>1. DInv /\ [Next]_vars =>
        [status = "run" /\ status' = "run" => p' > p \/ (p' = p /\ sp' < sp)]_vars
  BY TurnStep DEF Next, Begin, Rest, Progress
<1> QED BY DecoderInvariance, <1>1, PTL DEF Spec, ReaderAdvances
=============================================================================
