---------------------------- MODULE EpWireProofs ----------------------------
(***************************************************************************)
(* What the readers of EpWire return: every position is behind the one     *)
(* that was read from and not behind the end that was given.               *)
(***************************************************************************)
EXTENDS EpWire, EpInduction

-----------------------------------------------------------------------------
(* Varints *)

LEMMA VarLenBounds ==
    ASSUME NEW w, NEW q \in Nat, NEW e \in Nat, NEW max \in Nat
    PROVE  /\ VarLen(w, q, e, max) \in 0 .. max
           /\ VarLen(w, q, e, max) # 0 => q + VarLen(w, q, e, max) <= e
<1> DEFINE last == {k \in 1 .. max : q + k <= e /\ Byte(w, q + k - 1) < 128}
<1>1. CASE last = {}
  BY <1>1 DEF VarLen
<1>2. CASE last # {}
  <2>1. last \in SUBSET Nat
    OBVIOUS
  <2>2. Min(last) \in last
    <3> HIDE DEF last
    <3> QED BY <1>2, <2>1, MinOfNaturals
  <2> QED BY <1>2, <2>2 DEF VarLen
<1> QED BY <1>1, <1>2

\* The recursive function in VarVal has the value its body gives it.
LEMMA VarValUnfolds ==
    ASSUME NEW w, NEW q \in Nat, NEW k \in Nat
    PROVE  \E rest : /\ rest = [i \in 0 .. k |-> VarRest(w, q, k, rest, i)]
                     /\ VarVal(w, q, k) = rest[0]
<1> DEFINE D(f, i) == VarRest(w, q, k, f, i)
           Upto(f, n) == \A i \in 0 .. k : k - i < n => f[i] = D(f, i)
           Some == {n \in Nat : \E f : Upto(f, n)}
<1>1. ASSUME NEW f, NEW g, NEW i \in 0 .. k,
             \A j \in 0 .. k : k - j < k - i => f[j] = g[j]
      PROVE  D(f, i) = D(g, i)
  BY <1>1 DEF VarRest
<1> HIDE DEF D
<1>2. Some = Nat
  <2>1. Upto(<<>>, 0)
    OBVIOUS
  <2>2. ASSUME NEW n \in Some PROVE n + 1 \in Some
    <3>1. PICK f : Upto(f, n)
      OBVIOUS
    <3> DEFINE g == [i \in 0 .. k |-> D(f, i)]
    <3>2. ASSUME NEW i \in 0 .. k, k - i < n + 1 PROVE g[i] = D(g, i)
      <4>1. \A j \in 0 .. k : k - j < k - i => f[j] = g[j]
        BY <3>1, <3>2
      <4> QED BY <4>1, <1>1
    <3>3. Upto(g, n + 1)
      BY <3>2
    <3>4. n + 1 \in Nat
      OBVIOUS
    <3> HIDE DEF Upto, g
    <3> QED BY <3>3, <3>4
  <2>3. 0 \in Some /\ Some \in SUBSET Nat
    BY <2>1
  <2> HIDE DEF Some
  <2> QED BY <2>2, <2>3, InductiveSet
<1>3. PICK f : Upto(f, k + 1)
  BY <1>2
<1> DEFINE g == [i \in 0 .. k |-> D(f, i)]
<1>4. ASSUME NEW i \in 0 .. k PROVE g[i] = D(g, i)
  BY <1>1, <1>3
<1>5. g = [i \in 0 .. k |-> D(g, i)]
  BY <1>4
<1> QED BY <1>5 DEF VarVal, D

\* What a wire is, up to an end e no reader goes beyond.
Wire(w, e) == w \in Seq(0 .. 255) /\ e \in Nat /\ e <= Len(w)

LEMMA ByteOfWire ==
    ASSUME NEW w, NEW e, Wire(w, e), NEW q \in Nat, q < e
    PROVE  Byte(w, q) \in 0 .. 255
<1>1. w \in Seq(0 .. 255) /\ q + 1 \in 1 .. Len(w)
  BY DEF Wire
<1> QED BY <1>1, ElementOfSeq DEF Byte

LEMMA VarValNatural ==
    ASSUME NEW w, NEW e, Wire(w, e), NEW q \in Nat, NEW k \in Nat, q + k <= e
    PROVE  VarVal(w, q, k) \in Nat
<1>1. PICK rest : /\ rest = [i \in 0 .. k |-> VarRest(w, q, k, rest, i)]
                  /\ VarVal(w, q, k) = rest[0]
  BY VarValUnfolds
<1> DEFINE Bad == {n \in Nat : \E i \in 0 .. k : n = k - i /\ rest[i] \notin Nat}
<1>2. Bad = {}
  <2>1. SUFFICES ASSUME Bad # {} PROVE FALSE
    OBVIOUS
  <2>2. PICK n \in Bad : \A m \in Bad : n <= m
    <3> HIDE DEF Bad
    <3>1. Bad \in SUBSET Nat
      BY DEF Bad
    <3> QED BY <2>1, <3>1, LeastNatural
  <2>3. PICK i \in 0 .. k : n = k - i /\ rest[i] \notin Nat
    OBVIOUS
  <2>4. rest[i] = VarRest(w, q, k, rest, i)
    BY <1>1
  <2>5. i # k
    BY <2>3, <2>4 DEF VarRest
  <2>6. rest[i + 1] \in Nat
    <3>1. i + 1 \in 0 .. k /\ k - (i + 1) \in Nat /\ ~(n <= k - (i + 1))
      BY <2>3, <2>5
    <3> QED BY <2>2, <3>1
  <2>7. Byte(w, q + i) \in 0 .. 255
    <3>1. q + i \in Nat /\ q + i < e
      BY <2>5 DEF Wire
    <3> QED BY <3>1, ByteOfWire
  <2>8. (Byte(w, q + i) % 128) + 128 * rest[i + 1] \in Nat
    BY <2>6, <2>7
  <2> QED BY <2>3, <2>4, <2>5, <2>8 DEF VarRest
<1>3. rest[0] \in Nat
  <2>1. k - 0 \in Nat /\ 0 \in 0 .. k
    OBVIOUS
  <2> QED BY <1>2, <2>1
<1> QED BY <1>1, <1>3

-----------------------------------------------------------------------------
(* Tags, lengths and scalars *)

LEMMA TagAtBounds ==
    ASSUME NEW w, NEW e, Wire(w, e), NEW q \in Nat
    PROVE  LET tag == TagAt(w, q, e)
           IN  /\ tag.fnum \in Nat /\ tag.wt \in 0 .. 5
               /\ \/ tag.next = Fail /\ tag.wt = 0
                  \/ tag.next \in Nat /\ q < tag.next /\ tag.next <= e
<1> DEFINE k == VarLen(w, q, e, 5)
           wt == Byte(w, q) % 8
           fnum == TagFnum(w, q, k)
<1>1. k \in 0 .. 5 /\ (k # 0 => q + k <= e)
  BY VarLenBounds DEF Wire
<1>2. ASSUME k # 0 PROVE wt \in 0 .. 7 /\ fnum \in Nat
  <2>1. k \in 1 .. 5 /\ q + k <= e /\ q < e
    BY <1>1, <1>2 DEF Wire
  <2>2. wt \in 0 .. 7
    BY <2>1, ByteOfWire
  <2>3. CASE k < 5
    <3>1. VarVal(w, q, k) \in Nat
      BY <2>1, VarValNatural
    <3> QED BY <2>2, <2>3, <3>1 DEF TagFnum
  <2>4. CASE k = 5
    <3>1. VarVal(w, q, 4) \in Nat
      <4>1. q + 4 <= e
        BY <2>1, <2>4 DEF Wire
      <4> QED BY <4>1, VarValNatural
    <3>2. Byte(w, q + 4) \in 0 .. 255
      <4>1. q + 4 \in Nat /\ q + 4 < e
        BY <2>1, <2>4 DEF Wire
      <4> QED BY <4>1, ByteOfWire
    <3>3. fnum = VarVal(w, q, 4) \div 8 + (Byte(w, q + 4) % 16) * 2^25
      BY <2>4 DEF TagFnum
    <3>4. \A a \in Nat, b \in 0 .. 255 : a \div 8 + (b % 16) * 2^25 \in Nat
      OBVIOUS
    <3> QED BY <2>2, <3>1, <3>2, <3>3, <3>4
  <2> QED BY <2>1, <2>3, <2>4
<1>3. TagAt(w, q, e) = IF k = 0 \/ wt > BITS32 \/ fnum = 0
                       THEN [fnum |-> 0, wt |-> 0, next |-> Fail]
                       ELSE [fnum |-> fnum, wt |-> wt, next |-> q + k]
  BY DEF TagAt
<1> HIDE DEF k, wt, fnum
<1> QED BY <1>1, <1>2, <1>3 DEF BITS32, Fail, Wire

LEMMA LengthAtBounds ==
    ASSUME NEW w, NEW e, Wire(w, e), NEW q \in Nat
    PROVE  LET len == LengthAt(w, q, e)
           IN  \/ len.next = Fail /\ len.after = Fail
               \/ /\ len.next \in Nat /\ len.after \in Nat
                  /\ q < len.next /\ len.next <= len.after /\ len.after <= e
<1> DEFINE k == VarLen(w, q, e, 5)
           size == IF \E i \in 3 .. k - 1 : Byte(w, q + i) % 128 # 0 THEN Huge
                   ELSE VarVal(w, q, Min({k, 3}))
           bad == k = 0 \/ (k = 5 /\ Byte(w, q + 4) > 15) \/ q + k + size > e
<1>1. k \in 0 .. 5 /\ (k # 0 => q + k <= e)
  BY VarLenBounds DEF Wire
<1>2. ASSUME k # 0 PROVE size \in Nat
  <2>1. Min({k, 3}) \in {k, 3} /\ Min({k, 3}) <= k
    <3>1. {k, 3} \in SUBSET Nat
      BY <1>1
    <3> HIDE DEF k
    <3> QED BY <3>1, MinOfNaturals
  <2> DEFINE l == Min({k, 3})
  <2>2. l \in Nat /\ q + l <= e
    <3> HIDE DEF k
    <3> QED BY <2>1, <1>1, <1>2 DEF Wire
  <2>3. VarVal(w, q, l) \in Nat
    BY <2>2, VarValNatural
  <2>4. Huge \in Nat
    BY DEF Huge
  <2> QED BY <2>3, <2>4
<1>3. LengthAt(w, q, e) = IF bad THEN [next |-> Fail, after |-> Fail]
                                 ELSE [next |-> q + k, after |-> q + k + size]
  BY DEF LengthAt
<1>4. ~bad => k # 0 /\ ~(q + k + size > e)
  OBVIOUS
<1> HIDE DEF k, size, bad
<1> QED BY <1>1, <1>2, <1>3, <1>4 DEF Wire

\* What a reader returns when it does not fail.
Ahead(next, q, e) == next = Fail \/ (next \in Nat /\ q < next /\ next <= e)

LEMMA ReadScalarBounds ==
    ASSUME NEW w, NEW e, Wire(w, e), NEW q \in Nat, NEW type \in Scalar
    PROVE  Ahead(ReadScalar(w, type, q, e).next, q, e)
<1> DEFINE k == VarLen(w, q, e, 10)
           len == LengthAt(w, q, e)
<1>1. k \in 0 .. 10 /\ (k # 0 => q + k <= e)
  BY VarLenBounds DEF Wire
<1>2. \/ len.next = Fail
      \/ len.next # Fail /\ len.after \in Nat /\ q < len.after /\ len.after <= e
  <2>1. \/ len.next = Fail
        \/ /\ len.next \in Nat /\ len.after \in Nat
           /\ q < len.next /\ len.next <= len.after /\ len.after <= e
    BY LengthAtBounds
  <2> HIDE DEF len
  <2> QED BY <2>1 DEF Fail
<1> HIDE DEF k, len
<1>3. CASE type = "varint"
  <2>1. ReadScalar(w, type, q, e).next = IF k = 0 THEN Fail ELSE q + k
    BY <1>3 DEF ReadScalar, k
  <2> QED BY <1>1, <2>1 DEF Ahead, Fail, Wire
<1>4. CASE type = "bytes"
  <2>1. ReadScalar(w, type, q, e).next = IF len.next = Fail THEN Fail ELSE len.after
    BY <1>4 DEF ReadScalar, len
  <2> QED BY <1>2, <2>1 DEF Ahead
<1>5. CASE type = "bits64"
  <2>1. ReadScalar(w, type, q, e).next = IF q + 8 > e THEN Fail ELSE q + 8
    BY <1>5 DEF ReadScalar
  <2> QED BY <2>1 DEF Ahead, Fail, Wire
<1>6. CASE type = "bits32"
  <2>1. ReadScalar(w, type, q, e).next = IF q + 4 > e THEN Fail ELSE q + 4
    BY <1>6 DEF ReadScalar
  <2> QED BY <2>1 DEF Ahead, Fail, Wire
<1> QED BY <1>3, <1>4, <1>5, <1>6 DEF Scalar

LEMMA SkipFieldBounds ==
    ASSUME NEW w, NEW e, Wire(w, e), NEW q \in Nat, NEW wt \in Nat
    PROVE  Ahead(SkipField(w, q, e, wt), q, e)
<1> DEFINE k == VarLen(w, q, e, 10)
           len == LengthAt(w, q, e)
<1>1. k \in 0 .. 10 /\ (k # 0 => q + k <= e)
  BY VarLenBounds DEF Wire
<1>2. Ahead(len.after, q, e)
  <2>1. \/ len.after = Fail
        \/ /\ len.next \in Nat /\ len.after \in Nat
           /\ q < len.next /\ len.next <= len.after /\ len.after <= e
    BY LengthAtBounds
  <2> HIDE DEF len
  <2> QED BY <2>1 DEF Ahead
<1> DEFINE next == SkipField(w, q, e, wt)
<1>3. \/ next = Fail
      \/ k # 0 /\ next = q + k
      \/ next = len.after
      \/ q + 8 <= e /\ next = q + 8
      \/ q + 4 <= e /\ next = q + 4
  <2> HIDE DEF k, len
  <2>1. next = CASE wt = VARINT -> IF k = 0 THEN Fail ELSE q + k
                 [] wt = BITS64 /\ q + 8 <= e -> q + 8
                 [] wt = BITS32 /\ q + 4 <= e -> q + 4
                 [] wt = LENGTH -> len.after
                 [] OTHER -> Fail
    BY DEF SkipField, k, len
  <2> QED BY <2>1 DEF VARINT, BITS64, BITS32, LENGTH
<1>4. (\/ k # 0 /\ next = q + k
       \/ q + 8 <= e /\ next = q + 8
       \/ q + 4 <= e /\ next = q + 4) => next \in Nat /\ q < next /\ next <= e
  <2> HIDE DEF k, next
  <2> QED BY <1>1 DEF Wire
<1> HIDE DEF k, len, next
<1> QED BY <1>2, <1>3, <1>4 DEF Ahead, next

-----------------------------------------------------------------------------
(* Groups *)

\* An end tag found in the content from q on, before e.
Closed(group, q, e) ==
    /\ group.tag \in Nat /\ group.next \in Nat
    /\ q <= group.tag /\ group.tag < group.next /\ group.next <= e

\* The scan is over at one of its places, or goes on at another, whatever the
\* rest of the scan is.
GroupOver(w, e, max, at, group) ==
    \A scan : GroupStep(w, e, max, scan, at) = group
GroupOn(w, e, max, at, ahead) ==
    \A scan : GroupStep(w, e, max, scan, at) = scan[ahead]

\* One or the other, and then further ahead, is the case.
LEMMA GroupStepCases ==
    ASSUME NEW w, NEW e, Wire(w, e), NEW max, NEW at \in Nat \X Seq(Nat)
    PROVE  \/ \E group : /\ group = NoGroup \/ Closed(group, at[1], e)
                         /\ GroupOver(w, e, max, at, group)
           \/ \E ahead \in Nat \X Seq(Nat) :
                /\ at[1] < ahead[1] /\ ahead[1] <= e
                /\ GroupOn(w, e, max, at, ahead)
<1> DEFINE q == at[1]
           open == at[2]
           tag == TagAt(w, q, e)
           after == SkipField(w, tag.next, e, tag.wt)
<1>1. q \in Nat /\ open \in Seq(Nat)
  OBVIOUS
<1>2. /\ tag.fnum \in Nat /\ tag.wt \in 0 .. 5
      /\ \/ tag.next = Fail /\ tag.wt = 0
         \/ tag.next \in Nat /\ q < tag.next /\ tag.next <= e
  BY <1>1, TagAtBounds
<1>3. CASE Len(open) > max \/ q >= e
  <2>1. GroupOver(w, e, max, at, NoGroup)
    BY <1>3 DEF GroupStep, GroupOver
  <2> QED BY <2>1
<1>4. ASSUME ~(Len(open) > max \/ q >= e)
      PROVE  \A scan : GroupStep(w, e, max, scan, at) =
                IF tag.next = Fail THEN NoGroup
                ELSE IF tag.wt = SGROUP THEN scan[<<tag.next, Append(open, tag.fnum)>>]
                ELSE IF tag.wt = EGROUP /\ tag.fnum = Last(open)
                     THEN IF Len(open) = 1 THEN [tag |-> q, next |-> tag.next]
                                           ELSE scan[<<tag.next, Front(open)>>]
                ELSE IF after = Fail THEN NoGroup ELSE scan[<<after, open>>]
  <2> TAKE scan
  <2>1. GroupStep(w, e, max, scan, at) =
            CASE tag.next = Fail -> NoGroup
              [] tag.wt = SGROUP -> scan[<<tag.next, Append(open, tag.fnum)>>]
              [] tag.wt = EGROUP /\ tag.fnum = Last(open) ->
                   IF Len(open) = 1 THEN [tag |-> q, next |-> tag.next]
                                    ELSE scan[<<tag.next, Front(open)>>]
              [] OTHER -> IF after = Fail THEN NoGroup ELSE scan[<<after, open>>]
    BY <1>4 DEF GroupStep
  <2> HIDE DEF q, open, tag, after
  <2> QED BY <1>1, <1>2, <2>1 DEF SGROUP, EGROUP, Fail
<1>5. ASSUME tag.next # Fail PROVE Ahead(after, tag.next, e)
  BY <1>2, <1>5, SkipFieldBounds
<1>6. Append(open, tag.fnum) \in Seq(Nat) /\ Front(open) \in Seq(Nat)
  <2>1. Append(open, tag.fnum) \in Seq(Nat)
    BY <1>1, <1>2, AppendProperties
  <2>2. Front(open) \in Seq(Nat)
    <3>1. 1 \in Int /\ Len(open) - 1 \in Int
      BY <1>1
    <3>2. \A i \in 1 .. Len(open) - 1 : open[i] \in Nat
      BY <1>1, ElementOfSeq
    <3> QED BY <3>1, <3>2, SubSeqProperties DEF Front
  <2> QED BY <2>1, <2>2
<1> HIDE DEF q, open, tag, after
<1>7. CASE ~(Len(open) > max \/ q >= e) /\ tag.next = Fail
  <2>1. GroupOver(w, e, max, at, NoGroup)
    BY <1>2, <1>4, <1>7 DEF GroupOver, SGROUP, EGROUP
  <2> QED BY <2>1
<1>8. CASE ~(Len(open) > max \/ q >= e) /\ tag.next # Fail /\ tag.wt = SGROUP
  <2>1. GroupOn(w, e, max, at, <<tag.next, Append(open, tag.fnum)>>)
    BY <1>4, <1>8 DEF GroupOn, SGROUP, EGROUP
  <2> DEFINE ahead == <<tag.next, Append(open, tag.fnum)>>
  <2>2. ahead \in Nat \X Seq(Nat) /\ q < ahead[1] /\ ahead[1] <= e
    BY <1>2, <1>6, <1>8
  <2> QED BY <2>1, <2>2 DEF q
<1>9. CASE /\ ~(Len(open) > max \/ q >= e) /\ tag.next # Fail
           /\ tag.wt = EGROUP /\ tag.fnum = Last(open) /\ Len(open) = 1
  <2> DEFINE group == [tag |-> q, next |-> tag.next]
  <2>1. GroupOver(w, e, max, at, group)
    BY <1>4, <1>9 DEF GroupOver, SGROUP, EGROUP
  <2>2. Closed(group, q, e)
    BY <1>1, <1>2, <1>9 DEF Closed
  <2> QED BY <2>1, <2>2 DEF q
<1>10. CASE /\ ~(Len(open) > max \/ q >= e) /\ tag.next # Fail
            /\ tag.wt = EGROUP /\ tag.fnum = Last(open) /\ Len(open) # 1
  <2>1. GroupOn(w, e, max, at, <<tag.next, Front(open)>>)
    <3>1. tag.wt # SGROUP
      BY <1>10 DEF SGROUP, EGROUP
    <3> QED BY <1>4, <1>10, <3>1 DEF GroupOn
  <2> DEFINE ahead == <<tag.next, Front(open)>>
  <2>2. ahead \in Nat \X Seq(Nat) /\ q < ahead[1] /\ ahead[1] <= e
    BY <1>2, <1>6, <1>10
  <2> QED BY <2>1, <2>2 DEF q
<1>11. CASE /\ ~(Len(open) > max \/ q >= e) /\ tag.next # Fail
            /\ tag.wt # SGROUP /\ ~(tag.wt = EGROUP /\ tag.fnum = Last(open)) /\ after = Fail
  <2>1. GroupOver(w, e, max, at, NoGroup)
    BY <1>4, <1>11 DEF GroupOver
  <2> QED BY <2>1
<1>12. CASE /\ ~(Len(open) > max \/ q >= e) /\ tag.next # Fail
            /\ tag.wt # SGROUP /\ ~(tag.wt = EGROUP /\ tag.fnum = Last(open)) /\ after # Fail
  <2>1. GroupOn(w, e, max, at, <<after, open>>)
    BY <1>4, <1>12 DEF GroupOn
  <2> DEFINE ahead == <<after, open>>
  <2>2. ahead \in Nat \X Seq(Nat) /\ q < ahead[1] /\ ahead[1] <= e
    BY <1>1, <1>2, <1>5, <1>12 DEF Ahead
  <2> QED BY <2>1, <2>2 DEF q
<1> QED BY <1>3, <1>7, <1>8, <1>9, <1>10, <1>11, <1>12 DEF q, open

\* The recursive function in GroupEnd has the value its body gives it.
LEMMA GroupEndUnfolds ==
    ASSUME NEW w, NEW e, Wire(w, e), NEW max, NEW q, NEW fnum
    PROVE  \E scan : /\ scan = [at \in Nat \X Seq(Nat) |-> GroupStep(w, e, max, scan, at)]
                     /\ GroupEnd(w, q, e, fnum, max) = scan[<<q, <<fnum>>>>]
<1> DEFINE S == Nat \X Seq(Nat)
           D(f, at) == GroupStep(w, e, max, f, at)
           M(at) == IF at[1] < e THEN e - at[1] ELSE 0
           Upto(f, n) == \A at \in S : M(at) < n => f[at] = D(f, at)
           Some == {n \in Nat : \E f : Upto(f, n)}
<1>1. ASSUME NEW f, NEW g, NEW at \in S, \A x \in S : M(x) < M(at) => f[x] = g[x]
      PROVE  D(f, at) = D(g, at)
  <2>1. \/ \E group : GroupOver(w, e, max, at, group)
        \/ \E ahead \in S : /\ at[1] < ahead[1] /\ ahead[1] <= e
                            /\ GroupOn(w, e, max, at, ahead)
    BY GroupStepCases
  <2>2. ASSUME NEW ahead \in S, at[1] < ahead[1], ahead[1] <= e PROVE M(ahead) < M(at)
    <3>1. at[1] \in Nat /\ ahead[1] \in Nat /\ e \in Nat
      BY DEF Wire
    <3> QED BY <2>2, <3>1
  <2>3. CASE \E group : GroupOver(w, e, max, at, group)
    BY <2>3 DEF GroupOver
  <2>4. ASSUME NEW ahead \in S, at[1] < ahead[1], ahead[1] <= e, GroupOn(w, e, max, at, ahead)
        PROVE  D(f, at) = D(g, at)
    <3>1. D(f, at) = f[ahead] /\ D(g, at) = g[ahead]
      BY <2>4 DEF GroupOn
    <3> HIDE DEF D, M, S
    <3> QED BY <1>1, <2>2, <2>4, <3>1
  <2> QED BY <2>1, <2>3, <2>4
<1>2. \A at \in S : M(at) \in 0 .. e
  <2> TAKE at \in S
  <2>1. at[1] \in Nat /\ e \in Nat
    BY DEF Wire
  <2> QED BY <2>1
<1> HIDE DEF D, M, S
<1>3. Some = Nat
  <2>1. Upto(<<>>, 0)
    BY <1>2 DEF Wire
  <2>2. ASSUME NEW n \in Some PROVE n + 1 \in Some
    <3>1. PICK f : Upto(f, n)
      OBVIOUS
    <3> DEFINE g == [at \in S |-> D(f, at)]
    <3>2. ASSUME NEW at \in S, M(at) < n + 1 PROVE g[at] = D(g, at)
      <4>1. \A x \in S : M(x) < M(at) => f[x] = g[x]
        <5> TAKE x \in S
        <5> HAVE M(x) < M(at)
        <5>1. M(x) \in Int /\ M(at) \in Int /\ n \in Int
          BY <1>2 DEF Wire
        <5>2. M(x) < n
          BY <3>2, <5>1
        <5> QED BY <3>1, <5>2
      <4> QED BY <4>1, <1>1
    <3>3. Upto(g, n + 1)
      BY <3>2
    <3>4. n + 1 \in Nat
      OBVIOUS
    <3> HIDE DEF Upto, g
    <3> QED BY <3>3, <3>4
  <2>3. 0 \in Some /\ Some \in SUBSET Nat
    BY <2>1
  <2> HIDE DEF Some
  <2> QED BY <2>2, <2>3, InductiveSet
<1>4. PICK f : Upto(f, e + 1)
  <2>1. e + 1 \in Some
    <3>1. e + 1 \in Nat
      BY DEF Wire
    <3> HIDE DEF Some
    <3> QED BY <1>3, <3>1
  <2> QED BY <2>1
<1> DEFINE g == [at \in S |-> D(f, at)]
<1>5. ASSUME NEW at \in S PROVE g[at] = D(g, at)
  <2>1. \A x \in S : f[x] = g[x]
    <3> TAKE x \in S
    <3>1. M(x) < e + 1
      BY <1>2 DEF Wire
    <3> QED BY <1>4, <3>1
  <2> QED BY <2>1, <1>1
<1>6. g = [at \in S |-> D(g, at)]
  BY <1>5
<1> QED BY <1>6 DEF GroupEnd, D, S

\* A group's end tag lies between where the search began and the end of what
\* holds the group.
LEMMA GroupEndBounds ==
    ASSUME NEW w, NEW e, Wire(w, e), NEW max, NEW q \in Nat, NEW fnum \in Nat
    PROVE  LET group == GroupEnd(w, q, e, fnum, max)
           IN  group = NoGroup \/ Closed(group, q, e)
<1>1. PICK scan : /\ scan = [at \in Nat \X Seq(Nat) |-> GroupStep(w, e, max, scan, at)]
                  /\ GroupEnd(w, q, e, fnum, max) = scan[<<q, <<fnum>>>>]
  BY GroupEndUnfolds
<1> DEFINE S == Nat \X Seq(Nat)
           Good(at) == scan[at] = NoGroup \/ Closed(scan[at], at[1], e)
           M(at) == IF at[1] < e THEN e - at[1] ELSE 0
           Bad == {n \in Nat : \E at \in S : n = M(at) /\ ~Good(at)}
<1>2. ASSUME NEW at \in S PROVE M(at) \in Nat
  <2>1. at[1] \in Nat /\ e \in Nat
    BY DEF Wire
  <2> QED BY <2>1
<1>3. Bad = {}
  <2>1. SUFFICES ASSUME Bad # {} PROVE FALSE
    OBVIOUS
  <2>2. PICK n \in Bad : \A m \in Bad : n <= m
    <3>1. Bad \in SUBSET Nat
      OBVIOUS
    <3> HIDE DEF Bad
    <3> QED BY <2>1, <3>1, LeastNatural
  <2>3. PICK at \in S : n = M(at) /\ ~Good(at)
    OBVIOUS
  <2>4. scan[at] = GroupStep(w, e, max, scan, at)
    BY <1>1
  <2>5. PICK ahead \in S : at[1] < ahead[1] /\ ahead[1] <= e /\ scan[at] = scan[ahead]
    <3>1. CASE \E group : /\ group = NoGroup \/ Closed(group, at[1], e)
                          /\ GroupOver(w, e, max, at, group)
      BY <2>3, <2>4, <3>1 DEF GroupOver
    <3>2. CASE \E ahead \in S : /\ at[1] < ahead[1] /\ ahead[1] <= e
                                /\ GroupOn(w, e, max, at, ahead)
      BY <2>4, <3>2 DEF GroupOn
    <3> QED BY <3>1, <3>2, GroupStepCases
  <2>6. at[1] \in Nat /\ ahead[1] \in Nat /\ e \in Nat
    BY DEF Wire
  <2>7. Good(ahead)
    <3>1. M(ahead) < n
      BY <2>3, <2>5, <2>6
    <3>2. M(ahead) \in Nat /\ n \in Nat
      BY <1>2
    <3> HIDE DEF M, Good
    <3> QED BY <2>2, <3>1, <3>2 DEF Bad
  <2>8. Closed(scan[ahead], ahead[1], e) => Closed(scan[ahead], at[1], e)
    BY <2>5, <2>6 DEF Closed
  <2> QED BY <2>3, <2>5, <2>7, <2>8
<1>4. <<q, <<fnum>>>> \in S
  OBVIOUS
<1>5. Good(<<q, <<fnum>>>>)
  <2> HIDE DEF Good, S
  <2> QED BY <1>2, <1>3, <1>4 DEF Bad
<1> QED BY <1>1, <1>5

-----------------------------------------------------------------------------
(* Fields of the schema and fields it does not know *)

LEMMA SkipUnknownBounds ==
    ASSUME NEW w, NEW e, Wire(w, e), NEW q \in Nat, NEW fnum \in Nat, NEW wt \in Nat
    PROVE  Ahead(SkipUnknown(w, q, e, fnum, wt), q, e)
<1> DEFINE group == GroupEnd(w, q, e, fnum, MaxGroupDepth)
<1>1. group = NoGroup \/ Closed(group, q, e)
  BY GroupEndBounds
<1>2. Ahead(group.next, q, e)
  <2> HIDE DEF group
  <2> QED BY <1>1 DEF NoGroup, Closed, Ahead, Wire
<1>3. Ahead(SkipField(w, q, e, wt), q, e)
  BY SkipFieldBounds
<1> QED BY <1>2, <1>3 DEF SkipUnknown, SkipGroup

LEMMA UnpackFieldBounds ==
    ASSUME NEW w, NEW e, Wire(w, e), NEW q \in Nat, NEW wt \in Nat,
           NEW field, field.type \in Scalar, field.fnum \in Nat
    PROVE  Ahead(UnpackField(w, field, q, e, wt).next, q, e)
<1>1. Ahead(ReadScalar(w, field.type, q, e).next, q, e)
  BY ReadScalarBounds
<1>2. Ahead(SkipUnknown(w, q, e, field.fnum, wt), q, e)
  BY SkipUnknownBounds
<1> QED BY <1>1, <1>2 DEF UnpackField

-----------------------------------------------------------------------------
(* Packed runs *)

\* The recursive function in UnpackPacked has the value its body gives it.
LEMMA PackedUnfolds ==
    ASSUME NEW w, NEW e, Wire(w, e), NEW type \in Scalar, NEW stop
    PROVE  LET elements[at \in Nat] == PackedStep(w, type, e, stop, elements, at)
           IN  elements = [at \in Nat |-> PackedStep(w, type, e, stop, elements, at)]
<1> DEFINE D(f, at) == PackedStep(w, type, e, stop, f, at)
           M(at) == IF at < e THEN e - at ELSE 0
           Upto(f, n) == \A at \in Nat : M(at) < n => f[at] = D(f, at)
           Some == {n \in Nat : \E f : Upto(f, n)}
<1>1. ASSUME NEW f, NEW g, NEW at \in Nat, \A x \in Nat : M(x) < M(at) => f[x] = g[x]
      PROVE  D(f, at) = D(g, at)
  <2> DEFINE value == ReadScalar(w, type, at, e)
  <2>1. Ahead(value.next, at, e)
    BY ReadScalarBounds
  <2>2. value.next # Fail => f[value.next] = g[value.next]
    <3> HIDE DEF value
    <3>1. e \in Nat
      BY DEF Wire
    <3> QED BY <1>1, <2>1, <3>1 DEF Ahead
  <2> QED BY <2>2 DEF PackedStep
<1>2. \A at \in Nat : M(at) \in 0 .. e
  BY DEF Wire
<1> HIDE DEF D, M
<1>3. Some = Nat
  <2>1. Upto(<<>>, 0)
    BY <1>2 DEF Wire
  <2>2. ASSUME NEW n \in Some PROVE n + 1 \in Some
    <3>1. PICK f : Upto(f, n)
      OBVIOUS
    <3> DEFINE g == [at \in Nat |-> D(f, at)]
    <3>2. ASSUME NEW at \in Nat, M(at) < n + 1 PROVE g[at] = D(g, at)
      <4>1. \A x \in Nat : M(x) < M(at) => f[x] = g[x]
        <5> TAKE x \in Nat
        <5> HAVE M(x) < M(at)
        <5>1. M(x) \in Int /\ M(at) \in Int /\ n \in Int
          BY <1>2 DEF Wire
        <5>2. M(x) < n
          BY <3>2, <5>1
        <5> QED BY <3>1, <5>2
      <4> QED BY <4>1, <1>1
    <3>3. Upto(g, n + 1)
      BY <3>2
    <3>4. n + 1 \in Nat
      OBVIOUS
    <3> HIDE DEF Upto, g
    <3> QED BY <3>3, <3>4
  <2>3. 0 \in Some /\ Some \in SUBSET Nat
    BY <2>1
  <2> HIDE DEF Some
  <2> QED BY <2>2, <2>3, InductiveSet
<1>4. PICK f : Upto(f, e + 1)
  <2>1. e + 1 \in Some
    <3>1. e + 1 \in Nat
      BY DEF Wire
    <3> HIDE DEF Some
    <3> QED BY <1>3, <3>1
  <2> QED BY <2>1
<1> DEFINE g == [at \in Nat |-> D(f, at)]
<1>5. ASSUME NEW at \in Nat PROVE g[at] = D(g, at)
  <2>1. \A x \in Nat : f[x] = g[x]
    <3> TAKE x \in Nat
    <3>1. M(x) < e + 1
      BY <1>2 DEF Wire
    <3> QED BY <1>4, <3>1
  <2> QED BY <2>1, <1>1
<1>6. g = [at \in Nat |-> D(g, at)]
  BY <1>5
<1> QED BY <1>6 DEF D

\* The end of the run may lie inside an element, which is then read to its end:
\* that is still inside the message.
LEMMA UnpackPackedBounds ==
    ASSUME NEW w, NEW e, Wire(w, e), NEW q \in Nat, NEW type \in Scalar
    PROVE  Ahead(UnpackPacked(w, type, q, e).next, q, e)
<1> DEFINE len == LengthAt(w, q, e)
           elements[at \in Nat] == PackedStep(w, type, e, len.after, elements, at)
           Good(at) == at <= e => LET next == elements[at].next
                                  IN  next = Fail \/ (next \in Nat /\ at <= next /\ next <= e)
           Bad == {n \in Nat : \E at \in Nat : n = e - at /\ ~Good(at)}
<1>1. elements = [at \in Nat |-> PackedStep(w, type, e, len.after, elements, at)]
  BY PackedUnfolds
<1>2. UnpackPacked(w, type, q, e).next = IF len.next = Fail THEN Fail ELSE elements[len.next].next
  BY DEF UnpackPacked
<1>3. \/ len.next = Fail
      \/ /\ len.next \in Nat /\ len.after \in Nat
         /\ q < len.next /\ len.next <= len.after /\ len.after <= e
  BY LengthAtBounds
<1> HIDE DEF elements, len
<1>4. Bad = {}
  <2>1. SUFFICES ASSUME Bad # {} PROVE FALSE
    OBVIOUS
  <2>2. PICK n \in Bad : \A m \in Bad : n <= m
    <3>1. Bad \in SUBSET Nat
      OBVIOUS
    <3> HIDE DEF Bad
    <3> QED BY <2>1, <3>1, LeastNatural
  <2>3. PICK at \in Nat : n = e - at /\ ~Good(at)
    OBVIOUS
  <2>4. elements[at] = PackedStep(w, type, e, len.after, elements, at)
    BY <1>1
  <2>5. at <= e /\ e \in Nat
    BY <2>3 DEF Wire
  <2>6. ~(at >= len.after)
    BY <2>3, <2>4, <2>5 DEF PackedStep
  <2> DEFINE value == ReadScalar(w, type, at, e)
  <2>7. Ahead(value.next, at, e)
    BY ReadScalarBounds
  <2>8. /\ value.next # Fail
        /\ elements[at].next = elements[value.next].next
    BY <2>3, <2>4, <2>6 DEF PackedStep
  <2> HIDE DEF value
  <2>9. Good(value.next)
    <3>1. value.next \in Nat /\ at < value.next /\ value.next <= e
      BY <2>7, <2>8 DEF Ahead
    <3>2. e - value.next \in Nat /\ ~(n <= e - value.next)
      BY <2>3, <2>5, <3>1
    <3> HIDE DEF Good
    <3> QED BY <2>2, <3>1, <3>2
  <2> QED BY <2>3, <2>5, <2>7, <2>8, <2>9 DEF Ahead
<1>5. CASE len.next # Fail
  <2>1. Good(len.next)
    <3>1. len.next \in Nat /\ len.next <= e
      BY <1>3, <1>5 DEF Wire
    <3>2. e - len.next \in Nat
      BY <3>1 DEF Wire
    <3> HIDE DEF Good
    <3> QED BY <1>4, <3>1, <3>2
  <2> QED BY <1>2, <1>3, <1>5, <2>1 DEF Ahead, Wire
<1>6. CASE len.next = Fail
  BY <1>2, <1>6 DEF Ahead
<1> QED BY <1>5, <1>6

-----------------------------------------------------------------------------
(* Unknown fields *)

\* Where the collection may be, and how much is left there: the content of a
\* group is less than the group, a field less than the fields from it on.
Place(w) == {"one", "all"} \X Nat \X (0 .. Len(w)) \X Nat \X (0 .. BITS32) \X Nat
Left(at) == IF at[2] < at[3] THEN 2 * (at[3] - at[2]) + (IF at[1] = "one" THEN 1 ELSE 0) ELSE 0

\* What may be returned from there.
Collected(at, next) ==
    IF at[1] = "one" THEN Ahead(next, at[2], at[3])
    ELSE at[2] <= at[3] => next = Fail \/ (next \in Nat /\ at[2] <= next /\ next <= at[3])

\* One step depends only on what is collected where less is left; and stays in
\* bounds when that does.
LEMMA CollectStepBounds ==
    ASSUME NEW w \in Seq(0 .. 255), NEW f, NEW g, NEW at \in Place(w),
           \A x \in Place(w) : Left(x) < Left(at) => f[x] = g[x] /\ Collected(x, f[x].next)
    PROVE  /\ CollectStep(w, f, at) = CollectStep(w, g, at)
           /\ Collected(at, CollectStep(w, f, at).next)
<1> DEFINE q == at[2]
           e == at[3]
           fnum == at[4]
           wt == at[5]
           depth == at[6]
           Failed == [term |-> NoTerm, next |-> Fail]
           Item(kind, term) == Tuple(<<Atom(kind), Num(fnum), term>>)
           Kind == [t \in {VARINT, BITS64, LENGTH, BITS32} |->
                       CHOOSE type \in Scalar : WireType[type] = t]
<1>1. /\ q \in Nat /\ e \in 0 .. Len(w) /\ fnum \in Nat /\ wt \in 0 .. BITS32 /\ depth \in Nat
      /\ at[1] \in {"one", "all"}
  BY DEF Place
<1>2. Wire(w, e)
  BY <1>1 DEF Wire
<1>3. CASE at[1] = "one" /\ wt \in {VARINT, BITS64, LENGTH, BITS32}
  <2> DEFINE value == ReadScalar(w, Kind[wt], q, e)
  <2>1. Kind[wt] \in Scalar
    BY <1>3 DEF WireType, Scalar, VARINT, BITS64, LENGTH, BITS32
  <2>2. Ahead(value.next, q, e)
    BY <1>1, <1>2, <2>1, ReadScalarBounds
  <2>3. \A h : CollectStep(w, h, at) = IF value.next = Fail THEN Failed
                    ELSE [term |-> Item(Kind[wt], value.term), next |-> value.next]
    BY <1>3 DEF CollectStep, SGROUP, EGROUP, VARINT, BITS64, LENGTH, BITS32
  <2> HIDE DEF value, Kind
  <2> QED BY <1>3, <2>2, <2>3 DEF Collected, Ahead
<1>4. CASE at[1] = "one" /\ wt = SGROUP
  <2> DEFINE group == GroupBounds(w, q, e, fnum)
             within == <<"all", q, group.tag, 0, 0, depth>>
  <2>1. \A h : CollectStep(w, h, at) =
                   IF depth > MaxGroupDepth \/ group.tag = Fail \/ h[within].next = Fail THEN Failed
                   ELSE [term |-> Item("group", h[within].term), next |-> group.next]
    BY <1>4 DEF CollectStep, SGROUP, EGROUP, VARINT, BITS64, LENGTH, BITS32
  <2>2. group = NoGroup \/ Closed(group, q, e)
    BY <1>1, <1>2, GroupEndBounds DEF GroupBounds
  <2> HIDE DEF group
  <2>3. ASSUME group.tag # Fail PROVE f[within] = g[within]
    <3>1. Closed(group, q, e)
      BY <2>2, <2>3 DEF NoGroup
    <3>2. within \in Place(w) /\ Left(within) < Left(at)
      <4>1. group.tag \in 0 .. Len(w) /\ q <= group.tag /\ group.tag < e
        BY <1>1, <3>1 DEF Closed
      <4> QED BY <1>1, <1>4, <4>1 DEF Place, Left, BITS32
    <3> HIDE DEF within
    <3> QED BY <3>2
  <2>4. group.tag # Fail => Ahead(group.next, q, e)
    BY <1>1, <2>2 DEF NoGroup, Closed, Ahead
  <2> HIDE DEF within, Failed, Item
  <2>5. CollectStep(w, f, at) = CollectStep(w, g, at)
    <3>1. CASE group.tag = Fail
      BY <2>1, <3>1
    <3>2. CASE group.tag # Fail
      BY <2>1, <2>3, <3>2
    <3> QED BY <3>1, <3>2
  <2>6. \/ CollectStep(w, f, at).next = Fail
        \/ group.tag # Fail /\ CollectStep(w, f, at).next = group.next
    BY <2>1 DEF Failed
  <2>7. Ahead(CollectStep(w, f, at).next, q, e)
    BY <2>4, <2>6 DEF Ahead
  <2> QED BY <1>4, <2>5, <2>7 DEF Collected
<1>5. CASE at[1] = "one" /\ wt = EGROUP
  <2>1. \A h : CollectStep(w, h, at) = Failed
    BY <1>5 DEF CollectStep, SGROUP, EGROUP, VARINT, BITS64, LENGTH, BITS32
  <2> QED BY <1>5, <2>1 DEF Collected, Ahead
<1>6. CASE at[1] = "all" /\ q >= e
  <2>1. \A h : CollectStep(w, h, at) = [term |-> List(<<>>), next |-> q]
    BY <1>6 DEF CollectStep
  <2> QED BY <1>1, <1>6, <2>1 DEF Collected
<1>7. CASE at[1] = "all" /\ ~(q >= e)
  <2> DEFINE tag == TagAt(w, q, e)
             one == <<"one", tag.next, e, tag.fnum, tag.wt, depth + 1>>
             rest(next) == <<"all", next, e, 0, 0, depth>>
  <2>1. \A h : CollectStep(w, h, at) =
                   IF tag.next = Fail \/ h[one].next = Fail \/ h[rest(h[one].next)].next = Fail
                   THEN Failed
                   ELSE [term |-> List(<<h[one].term>> \o h[rest(h[one].next)].term[2]),
                         next |-> h[rest(h[one].next)].next]
    BY <1>7 DEF CollectStep
  <2>2. /\ tag.fnum \in Nat /\ tag.wt \in 0 .. BITS32
        /\ tag.next = Fail \/ (tag.next \in Nat /\ q < tag.next /\ tag.next <= e)
    BY <1>1, <1>2, TagAtBounds DEF BITS32
  <2> HIDE DEF tag
  <2>3. ASSUME tag.next # Fail PROVE f[one] = g[one] /\ Ahead(f[one].next, tag.next, e)
    <3>1. one \in Place(w) /\ Left(one) < Left(at)
      <4>1. tag.next \in Nat /\ q < tag.next /\ tag.next <= e /\ depth + 1 \in Nat
        BY <1>1, <2>2, <2>3
      <4>2. one \in Place(w)
        BY <1>1, <2>2, <4>1 DEF Place
      <4>3. Left(one) = IF tag.next < e THEN 2 * (e - tag.next) + 1 ELSE 0
        BY DEF Left
      <4>4. Left(at) = 2 * (e - q)
        BY <1>1, <1>7 DEF Left
      <4> HIDE DEF one
      <4> QED BY <1>1, <1>7, <4>1, <4>2, <4>3, <4>4
    <3>2. f[one] = g[one] /\ Collected(one, f[one].next)
      <4> HIDE DEF one
      <4> QED BY <3>1
    <3> QED BY <3>2 DEF Collected
  <2>4. ASSUME tag.next # Fail, NEW next \in Nat, q < next, next <= e
        PROVE  f[rest(next)] = g[rest(next)] /\ Collected(rest(next), f[rest(next)].next)
    <3>1. rest(next) \in Place(w) /\ Left(rest(next)) < Left(at)
      BY <1>1, <1>7, <2>4 DEF Place, Left, BITS32
    <3> HIDE DEF rest
    <3> QED BY <3>1
  <2>5. CASE tag.next = Fail \/ f[one].next = Fail
    <3>1. CollectStep(w, f, at) = Failed /\ CollectStep(w, g, at) = Failed
      BY <2>1, <2>3, <2>5
    <3> QED BY <1>7, <3>1 DEF Collected
  <2>6. CASE tag.next # Fail /\ f[one].next # Fail
    <3> DEFINE next == f[one].next
    <3>1. next \in Nat /\ q < next /\ next <= e
      BY <1>1, <2>2, <2>3, <2>6 DEF Ahead
    <3>2. /\ f[one] = g[one] /\ f[rest(next)] = g[rest(next)]
          /\ Collected(rest(next), f[rest(next)].next)
      BY <2>3, <2>4, <2>6, <3>1
    <3>3. CollectStep(w, f, at) = CollectStep(w, g, at)
      BY <2>1, <3>2
    <3> DEFINE last == f[rest(next)].next
    <3>4. last = Fail \/ (last \in Nat /\ q <= last /\ last <= e)
      BY <1>1, <3>1, <3>2 DEF Collected
    <3>5. CollectStep(w, f, at).next = last
      <4> DEFINE terms == <<f[one].term>> \o f[rest(next)].term[2]
      <4>1. CollectStep(w, f, at) = IF tag.next = Fail \/ next = Fail \/ last = Fail
                                    THEN Failed ELSE [term |-> List(terms), next |-> last]
        BY <2>1
      <4> HIDE DEF one, rest, last, terms
      <4> QED BY <2>6, <4>1
    <3> QED BY <1>7, <3>3, <3>4, <3>5 DEF Collected
  <2> QED BY <2>5, <2>6
<1> QED BY <1>1, <1>3, <1>4, <1>5, <1>6, <1>7 DEF VARINT, BITS64, LENGTH, BITS32, SGROUP, EGROUP

LEMMA LeftBounds ==
    ASSUME NEW w \in Seq(0 .. 255), NEW at \in Place(w)
    PROVE  Left(at) \in 0 .. 2 * Len(w) + 1
<1>1. at[2] \in Nat /\ at[3] \in 0 .. Len(w) /\ Len(w) \in Nat
  BY DEF Place
<1> QED BY <1>1 DEF Left

\* The recursive function in CollectUnknown has the value its body gives it.
LEMMA CollectUnfolds ==
    ASSUME NEW w \in Seq(0 .. 255)
    PROVE  LET collect[at \in Place(w)] == CollectStep(w, collect, at)
           IN  collect = [at \in Place(w) |-> CollectStep(w, collect, at)]
<1> DEFINE S == Place(w)
           D(f, at) == CollectStep(w, f, at)
           Upto(f, n) == \A at \in S : Left(at) < n =>
                            f[at] = D(f, at) /\ Collected(at, f[at].next)
           Some == {n \in Nat : \E f : Upto(f, n)}
<1>1. ASSUME NEW f, NEW g, NEW at \in S,
             \A x \in S : Left(x) < Left(at) => f[x] = g[x] /\ Collected(x, f[x].next)
      PROVE  D(f, at) = D(g, at) /\ Collected(at, D(f, at).next)
  BY <1>1, CollectStepBounds
<1>2. \A at \in S : Left(at) \in Int /\ 0 <= Left(at) /\ Left(at) < 2 * Len(w) + 2
  <2> TAKE at \in S
  <2>1. Left(at) \in 0 .. 2 * Len(w) + 1
    BY LeftBounds
  <2> QED BY <2>1
<1> HIDE DEF D, S
<1>3. Some = Nat
  <2>1. Upto(<<>>, 0)
    BY <1>2
  <2>2. ASSUME NEW n \in Some PROVE n + 1 \in Some
    <3>1. PICK f : Upto(f, n)
      OBVIOUS
    <3> DEFINE g == [at \in S |-> D(f, at)]
    <3>2. ASSUME NEW at \in S, Left(at) < n + 1
          PROVE  g[at] = D(g, at) /\ Collected(at, g[at].next)
      <4>1. \A x \in S : Left(x) < Left(at) => f[x] = g[x] /\ Collected(x, f[x].next)
        <5> TAKE x \in S
        <5> HAVE Left(x) < Left(at)
        <5>1. Left(x) \in Int /\ Left(at) \in Int /\ n \in Int
          BY <1>2
        <5>2. Left(x) < n
          BY <3>2, <5>1
        <5> QED BY <3>1, <5>2
      <4> QED BY <4>1, <1>1
    <3>3. Upto(g, n + 1)
      BY <3>2
    <3>4. n + 1 \in Nat
      OBVIOUS
    <3> HIDE DEF Upto, g
    <3> QED BY <3>3, <3>4
  <2>3. 0 \in Some /\ Some \in SUBSET Nat
    BY <2>1
  <2> HIDE DEF Some
  <2> QED BY <2>2, <2>3, InductiveSet
<1>4. PICK f : Upto(f, 2 * Len(w) + 2)
  <2>1. 2 * Len(w) + 2 \in Some
    <3> HIDE DEF Some
    <3> QED BY <1>3
  <2> QED BY <2>1
<1> DEFINE g == [at \in S |-> D(f, at)]
<1>5. ASSUME NEW at \in S PROVE g[at] = D(g, at)
  <2>1. \A x \in S : f[x] = g[x] /\ Collected(x, f[x].next)
    BY <1>2, <1>4
  <2> QED BY <2>1, <1>1
<1>6. g = [at \in S |-> D(g, at)]
  BY <1>5
<1> QED BY <1>6 DEF D, S

\* Whatever groups an unknown field holds, its value ends where the field does.
LEMMA CollectUnknownBounds ==
    ASSUME NEW w, NEW e, Wire(w, e), NEW q \in Nat, NEW fnum \in Nat, NEW wt \in 0 .. 5
    PROVE  Ahead(CollectUnknown(w, q, e, fnum, wt).next, q, e)
<1> DEFINE collect[at \in Place(w)] == CollectStep(w, collect, at)
           Bad == {n \in Nat : \E at \in Place(w) : n = Left(at) /\ ~Collected(at, collect[at].next)}
<1>0. w \in Seq(0 .. 255)
  BY DEF Wire
<1>1. collect = [at \in Place(w) |-> CollectStep(w, collect, at)]
  BY <1>0, CollectUnfolds
<1>2. CollectUnknown(w, q, e, fnum, wt) = collect[<<"one", q, e, fnum, wt, 1>>]
  BY DEF CollectUnknown, Place
<1> HIDE DEF collect
<1>3. Bad = {}
  <2>1. SUFFICES ASSUME Bad # {} PROVE FALSE
    OBVIOUS
  <2>2. PICK n \in Bad : \A m \in Bad : n <= m
    <3>1. Bad \in SUBSET Nat
      OBVIOUS
    <3> HIDE DEF Bad
    <3> QED BY <2>1, <3>1, LeastNatural
  <2>3. PICK at \in Place(w) : n = Left(at) /\ ~Collected(at, collect[at].next)
    OBVIOUS
  <2>4. \A x \in Place(w) : Left(x) < Left(at) => Collected(x, collect[x].next)
    <3> TAKE x \in Place(w)
    <3> HAVE Left(x) < Left(at)
    <3>1. Left(x) \in 0 .. 2 * Len(w) + 1 /\ Left(at) \in 0 .. 2 * Len(w) + 1
      BY <1>0, LeftBounds
    <3>2. Left(x) \in Nat /\ ~(Left(at) <= Left(x))
      BY <1>0, <3>1
    <3> QED BY <2>2, <2>3, <3>2
  <2>5. Collected(at, CollectStep(w, collect, at).next)
    BY <1>0, <2>4, CollectStepBounds
  <2> QED BY <1>1, <2>3, <2>5
<1> DEFINE at == <<"one", q, e, fnum, wt, 1>>
<1>4. at \in Place(w)
  BY DEF Wire, Place, BITS32
<1>5. Collected(at, collect[at].next)
  <2>1. Left(at) \in Nat
    <3> HIDE DEF at
    <3>1. Left(at) \in 0 .. 2 * Len(w) + 1
      BY <1>0, <1>4, LeftBounds
    <3> QED BY <1>0, <3>1
  <2> HIDE DEF at
  <2> QED BY <1>3, <1>4, <2>1
<1> QED BY <1>2, <1>5 DEF Collected
=============================================================================
