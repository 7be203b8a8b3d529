-------------------------- MODULE EpEncoderProofs --------------------------
(***************************************************************************)
(* What the writers of EpEncoder do to the buffer: whatever is written to  *)
(* it, it stays a buffer, the writer never goes back, and while no realloc *)
(* is denied no byte goes behind the end.                                  *)
(*                                                                         *)
(* The loop of encode() on its stack: the types, that every turn consumes  *)
(* something, that the gaps left for lengths nest, and that no byte goes   *)
(* behind the buffer while no realloc is denied.                           *)
(***************************************************************************)
EXTENDS EpEncoder, EpWireProofs

-----------------------------------------------------------------------------
(* Folds of the writers *)

\* A fold stays in a set that its steps stay in: over the terms of a packed run,
PackValues(e, f, terms) == FoldLeft(LAMBDA x, t : PackValue(x, f, t), e, terms)

LEMMA RunFold ==
    ASSUME NEW V, NEW e \in V, NEW f, NEW T, NEW terms \in Seq(T),
           \A x \in V, t \in T : PackValue(x, f, t) \in V
    PROVE  PackValues(e, f, terms) \in V
<1>1. PICK n \in Nat : n = Len(terms) /\ DOMAIN terms = 1 .. n /\ \A i \in 1 .. n : terms[i] \in T
  OBVIOUS
<1> DEFINE Step(x, i) == PackValue(x, f, terms[i])
           D(h, s) == IF s = {} THEN e ELSE Step(h[s \ {Max(s)}], Max(s))
           step == [at \in V \X (1 .. n) |-> Step(at[1], at[2])]
<1>2. \A x \in V, i \in 1 .. n : Step(x, i) \in V
  BY <1>1
<1>3. step \in [V \X (1 .. n) -> V] /\ \A x \in V, i \in 1 .. n : step[<<x, i>>] = Step(x, i)
  <2> HIDE DEF Step
  <2> QED BY <1>2
<1> HIDE DEF step, Step
<1>4. PICK iter : IsFold(iter, n, V, e, step)
  BY <1>3, FoldExists
<1>5. iter = [s \in SUBSET (1 .. n) |-> D(iter, s)]
  <2>1. ASSUME NEW s \in SUBSET (1 .. n), s # {}
        PROVE  step[<<iter[s \ {Max(s)}], Max(s)>>] = D(iter, s)
    BY <1>3, <1>4, <2>1, MaxOfIndices DEF IsFold
  <2>2. iter \in [SUBSET (1 .. n) -> V] /\ \A s \in SUBSET (1 .. n) : iter[s] = D(iter, s)
    BY <1>4, <2>1 DEF IsFold
  <2> HIDE DEF D
  <2> QED BY <2>2
<1>6. PICK fold : /\ fold = [s \in SUBSET (1 .. n) |-> D(fold, s)]
                  /\ PackValues(e, f, terms) = fold[1 .. n]
  BY <1>1, <1>5 DEF PackValues, FoldLeft, MapThenFoldSet, Step
<1>7. \A s \in SUBSET (1 .. n) : fold[s] = D(fold, s)
  <2> HIDE DEF D
  <2> QED BY <1>6
<1>8. fold[{}] \in V /\ StepsStay(fold, n, V)
  BY <1>2, <1>7, MaxOfIndices DEF StepsStay
<1>9. fold[1 .. n] \in V
  <2> HIDE DEF D
  <2> QED BY <1>8, FoldStays
<1> HIDE DEF D
<1> QED BY <1>6, <1>9

\* over the elements of a repeated field,
PackElement(x, f, t) == IF t = Stray THEN Refuse(x) ELSE PackField(x, f, t)

LEMMA EachFold ==
    ASSUME NEW V, NEW e \in V, NEW f, NEW T, NEW terms \in Seq(T),
           \A x \in V, t \in T : PackElement(x, f, t) \in V
    PROVE  PackEach(e, f, terms) \in V
<1>1. PICK n \in Nat : n = Len(terms) /\ DOMAIN terms = 1 .. n /\ \A i \in 1 .. n : terms[i] \in T
  OBVIOUS
<1> DEFINE Step(x, i) == PackElement(x, f, terms[i])
           D(h, s) == IF s = {} THEN e ELSE Step(h[s \ {Max(s)}], Max(s))
           step == [at \in V \X (1 .. n) |-> Step(at[1], at[2])]
<1>2. \A x \in V, i \in 1 .. n : Step(x, i) \in V
  BY <1>1
<1>3. step \in [V \X (1 .. n) -> V] /\ \A x \in V, i \in 1 .. n : step[<<x, i>>] = Step(x, i)
  <2> HIDE DEF Step
  <2> QED BY <1>2
<1> HIDE DEF step, Step
<1>4. PICK iter : IsFold(iter, n, V, e, step)
  BY <1>3, FoldExists
<1>5. iter = [s \in SUBSET (1 .. n) |-> D(iter, s)]
  <2>1. ASSUME NEW s \in SUBSET (1 .. n), s # {}
        PROVE  step[<<iter[s \ {Max(s)}], Max(s)>>] = D(iter, s)
    BY <1>3, <1>4, <2>1, MaxOfIndices DEF IsFold
  <2>2. iter \in [SUBSET (1 .. n) -> V] /\ \A s \in SUBSET (1 .. n) : iter[s] = D(iter, s)
    BY <1>4, <2>1 DEF IsFold
  <2> HIDE DEF D
  <2> QED BY <2>2
<1>6. PICK fold : /\ fold = [s \in SUBSET (1 .. n) |-> D(fold, s)]
                  /\ PackEach(e, f, terms) = fold[1 .. n]
  BY <1>1, <1>5 DEF PackEach, FoldLeft, MapThenFoldSet, Step, PackElement
<1>7. \A s \in SUBSET (1 .. n) : fold[s] = D(fold, s)
  <2> HIDE DEF D
  <2> QED BY <1>6
<1>8. fold[{}] \in V /\ StepsStay(fold, n, V)
  BY <1>2, <1>7, MaxOfIndices DEF StepsStay
<1>9. fold[1 .. n] \in V
  <2> HIDE DEF D
  <2> QED BY <1>8, FoldStays
<1> HIDE DEF D
<1> QED BY <1>6, <1>9

\* and over the leaves of unknown fields.
LEMMA LeafFold ==
    ASSUME NEW V, NEW e \in V, NEW T, NEW leaves \in Seq(T),
           \A x \in V, t \in T : PackLeaf(x, t) \in V
    PROVE  FoldLeft(PackLeaf, e, leaves) \in V
<1>1. PICK n \in Nat : n = Len(leaves) /\ DOMAIN leaves = 1 .. n /\ \A i \in 1 .. n : leaves[i] \in T
  OBVIOUS
<1> DEFINE Step(x, i) == PackLeaf(x, leaves[i])
           D(h, s) == IF s = {} THEN e ELSE Step(h[s \ {Max(s)}], Max(s))
           step == [at \in V \X (1 .. n) |-> Step(at[1], at[2])]
<1>2. \A x \in V, i \in 1 .. n : Step(x, i) \in V
  BY <1>1
<1>3. step \in [V \X (1 .. n) -> V] /\ \A x \in V, i \in 1 .. n : step[<<x, i>>] = Step(x, i)
  <2> HIDE DEF Step
  <2> QED BY <1>2
<1> HIDE DEF step, Step
<1>4. PICK iter : IsFold(iter, n, V, e, step)
  BY <1>3, FoldExists
<1>5. iter = [s \in SUBSET (1 .. n) |-> D(iter, s)]
  <2>1. ASSUME NEW s \in SUBSET (1 .. n), s # {}
        PROVE  step[<<iter[s \ {Max(s)}], Max(s)>>] = D(iter, s)
    BY <1>3, <1>4, <2>1, MaxOfIndices DEF IsFold
  <2>2. iter \in [SUBSET (1 .. n) -> V] /\ \A s \in SUBSET (1 .. n) : iter[s] = D(iter, s)
    BY <1>4, <2>1 DEF IsFold
  <2> HIDE DEF D
  <2> QED BY <2>2
<1>6. PICK fold : /\ fold = [s \in SUBSET (1 .. n) |-> D(fold, s)]
                  /\ FoldLeft(PackLeaf, e, leaves) = fold[1 .. n]
  BY <1>1, <1>5 DEF FoldLeft, MapThenFoldSet, Step
<1>7. \A s \in SUBSET (1 .. n) : fold[s] = D(fold, s)
  <2> HIDE DEF D
  <2> QED BY <1>6
<1>8. fold[{}] \in V /\ StepsStay(fold, n, V)
  BY <1>2, <1>7, MaxOfIndices DEF StepsStay
<1>9. fold[1 .. n] \in V
  <2> HIDE DEF D
  <2> QED BY <1>8, FoldStays
<1> HIDE DEF D
<1> QED BY <1>6, <1>9

-----------------------------------------------------------------------------
(* Numbers written in seven-bit groups *)

VarintBody(f, k) == IF k < 128 THEN <<k>> ELSE <<128 + (k % 128)>> \o f[k \div 128]

LEMMA VarintBodies ==
    ASSUME NEW f, NEW k \in Nat
    PROVE  /\ k < 128 => VarintBody(f, k) = <<k>>
           /\ k >= 128 => VarintBody(f, k) = <<128 + (k % 128)>> \o f[k \div 128]
BY DEF VarintBody

\* Seven bits less are a smaller number.
LEMMA Shifted ==
    ASSUME NEW k \in Nat, k >= 128
    PROVE  k \div 128 \in Nat /\ k \div 128 < k /\ 128 + (k % 128) \in 0 .. 255
OBVIOUS

LEMMA VarintUnfolds ==
    \E bytes : /\ bytes = [k \in Nat |-> VarintBody(bytes, k)]
               /\ \A n \in Nat : Varint(n) = bytes[n]
<1> DEFINE V == Seq(0 .. 255)
           M == [k \in Nat |-> k]
           B == [f \in [Nat -> V] |-> [k \in Nat |-> VarintBody(f, k)]]
<1>1. M \in [Nat -> Nat] /\ V # {}
  <2>1. <<>> \in V
    OBVIOUS
  <2> QED BY <2>1
<1>2. B \in [[Nat -> V] -> [Nat -> V]]
  <2>1. ASSUME NEW f \in [Nat -> V], NEW k \in Nat PROVE VarintBody(f, k) \in V
    <3>1. CASE k < 128
      <4>1. <<k>> \in V
        BY <3>1
      <4> QED BY <3>1, <4>1, VarintBodies
    <3>2. CASE k >= 128
      <4>1. f[k \div 128] \in V /\ <<128 + (k % 128)>> \in V
        BY <3>2, Shifted
      <4>2. <<128 + (k % 128)>> \o f[k \div 128] \in V
        BY <4>1, Joined
      <4>3. VarintBody(f, k) = <<128 + (k % 128)>> \o f[k \div 128]
        BY <3>2, VarintBodies
      <4> QED BY <4>2, <4>3
    <3> QED BY <3>1, <3>2
  <2> QED BY <2>1
<1>3. LooksBelow(Nat, V, M, B)
  <2> SUFFICES ASSUME NEW f \in [Nat -> V], NEW g \in [Nat -> V], NEW x \in Nat,
                      \A y \in Nat : M[y] < M[x] => f[y] = g[y]
               PROVE  B[f][x] = B[g][x]
    BY DEF LooksBelow
  <2>1. VarintBody(f, x) = VarintBody(g, x)
    BY Shifted DEF VarintBody
  <2> QED BY <2>1
<1>4. PICK bytes \in [Nat -> V] : bytes = B[bytes]
  <2> HIDE DEF V, M, B
  <2>1. HasFunction(Nat, V, B)
    BY <1>1, <1>2, <1>3, Recursion
  <2> QED BY <2>1 DEF HasFunction
<1>5. bytes = [k \in Nat |-> VarintBody(bytes, k)]
  BY <1>4
<1>6. \E f : f = [k \in Nat |-> VarintBody(f, k)]
  BY <1>5
<1> QED BY <1>6 DEF Varint, VarintBody

\* It has bytes, at least one.
LEMMA VarintBytes ==
    ASSUME NEW n \in Nat
    PROVE  Varint(n) \in Seq(0 .. 255) /\ Len(Varint(n)) > 0
<1>1. PICK bytes : /\ bytes = [k \in Nat |-> VarintBody(bytes, k)]
                   /\ \A k \in Nat : Varint(k) = bytes[k]
  BY VarintUnfolds
<1> DEFINE Some(s) == s \in Seq(0 .. 255) /\ Len(s) > 0
           M == [k \in Nat |-> k]
           G == {k \in Nat : Some(bytes[k])}
<1>2. ASSUME NEW x \in Nat, \A y \in Nat : M[y] < M[x] => y \in G PROVE x \in G
  <2>1. bytes[x] = VarintBody(bytes, x)
    BY <1>1
  <2>2. CASE x < 128
    <3>1. <<x>> \in Seq(0 .. 255) /\ Len(<<x>>) = 1
      BY <2>2
    <3>2. bytes[x] = <<x>>
      BY <2>1, <2>2, VarintBodies
    <3>3. Some(bytes[x])
      BY <3>1, <3>2
    <3> QED BY <3>3
  <2>3. CASE x >= 128
    <3> DEFINE s == <<128 + (x % 128)>>
               t == bytes[x \div 128]
    <3>1. Some(t) /\ s \in Seq(0 .. 255) /\ Len(s) = 1
      BY <1>2, <2>3, Shifted
    <3>2. bytes[x] = s \o t
      BY <2>1, <2>3, VarintBodies
    <3> HIDE DEF s, t
    <3>3. s \o t \in Seq(0 .. 255) /\ Len(s \o t) = Len(s) + Len(t)
      BY <3>1, Joined
    <3>4. Len(t) \in Nat
      BY <3>1
    <3>5. Some(s \o t)
      BY <3>1, <3>3, <3>4
    <3> QED BY <3>2, <3>5
  <2> QED BY <2>2, <2>3
<1>3. G = Nat
  <2>1. G \in SUBSET Nat /\ M \in [Nat -> Nat]
    OBVIOUS
  <2>2. Inherited(Nat, M, G)
    <3> HIDE DEF G, M
    <3> QED BY <1>2 DEF Inherited
  <2> HIDE DEF G, M
  <2> QED BY <2>1, <2>2, MeasuredSet
<1> QED BY <1>1, <1>3

\* Every n below bound is written in k bytes.
Within(bound, k) == \A n \in Nat : n < bound => Len(Varint(n)) <= k

LEMMA VarintGrows ==
    ASSUME NEW bound \in Nat, NEW k \in Nat \ {0}, Within(bound, k)
    PROVE  Within(128 * bound, k + 1)
<1> SUFFICES ASSUME NEW n \in Nat, n < 128 * bound PROVE Len(Varint(n)) <= k + 1
  BY DEF Within
<1>1. PICK bytes : /\ bytes = [i \in Nat |-> VarintBody(bytes, i)]
                   /\ \A i \in Nat : Varint(i) = bytes[i]
  BY VarintUnfolds
<1>2. Varint(n) = VarintBody(bytes, n)
  BY <1>1
<1>3. CASE n < 128
  <2>1. Varint(n) = <<n>>
    BY <1>2, <1>3, VarintBodies
  <2> QED BY <2>1
<1>4. CASE n >= 128
  <2> DEFINE s == <<128 + (n % 128)>>
             t == Varint(n \div 128)
  <2>1. n \div 128 \in Nat /\ n \div 128 < bound
    BY <1>4
  <2>2. t \in Seq(0 .. 255) /\ Len(t) <= k
    BY <2>1, VarintBytes DEF Within
  <2>3. s \in Seq(0 .. 255) /\ Len(s) = 1
    BY <1>4, Shifted
  <2>4. Varint(n) = s \o t
    <3>1. Varint(n) = s \o bytes[n \div 128]
      BY <1>2, <1>4, VarintBodies
    <3>2. t = bytes[n \div 128]
      BY <1>1, <2>1
    <3> QED BY <3>1, <3>2
  <2> HIDE DEF s, t
  <2>5. Len(s \o t) = Len(s) + Len(t)
    BY <2>2, <2>3, Joined
  <2>6. Len(t) \in Nat
    BY <2>2
  <2> QED BY <2>2, <2>3, <2>4, <2>5, <2>6
<1> QED BY <1>3, <1>4

Word32 == 65536 * 65536
Word64 == Word32 * Word32

\* A tag or a 32-bit length takes five bytes, anything of 64 bits ten.
LEMMA VarintLength ==
    Within(8 * Word32, 5) /\ Within(Word64, Gap)
<1> DEFINE B1 == 128
           B2 == 128 * B1
           B3 == 128 * B2
           B4 == 128 * B3
           B5 == 128 * B4
           B6 == 128 * B5
           B7 == 128 * B6
           B8 == 128 * B7
           B9 == 128 * B8
           B10 == 128 * B9
<1>1. Within(B1, 1)
  <2>1. PICK bytes : /\ bytes = [i \in Nat |-> VarintBody(bytes, i)]
                     /\ \A i \in Nat : Varint(i) = bytes[i]
    BY VarintUnfolds
  <2>2. ASSUME NEW n \in Nat, n < 128 PROVE Len(Varint(n)) = 1
    <3>1. Varint(n) = VarintBody(bytes, n)
      BY <2>1
    <3>2. Varint(n) = <<n>>
      BY <2>2, <3>1, VarintBodies
    <3> QED BY <3>2
  <2> QED BY <2>2 DEF Within
<1>2. /\ B1 \in Nat /\ B2 \in Nat /\ B3 \in Nat /\ B4 \in Nat /\ B5 \in Nat
      /\ B6 \in Nat /\ B7 \in Nat /\ B8 \in Nat /\ B9 \in Nat /\ B10 \in Nat
      /\ 8 * Word32 <= B5 /\ Word64 <= B10
      /\ 8 * Word32 \in Nat /\ Word64 \in Nat
  BY DEF Word32, Word64
<1> HIDE DEF B1
<1>3. Within(B2, 2)
  BY <1>1, <1>2, VarintGrows
<1> HIDE DEF B2
<1>4. Within(B3, 3)
  BY <1>2, <1>3, VarintGrows
<1> HIDE DEF B3
<1>5. Within(B4, 4)
  BY <1>2, <1>4, VarintGrows
<1> HIDE DEF B4
<1>6. Within(B5, 5)
  BY <1>2, <1>5, VarintGrows
<1> HIDE DEF B5
<1>7. Within(B6, 6)
  BY <1>2, <1>6, VarintGrows
<1> HIDE DEF B6
<1>8. Within(B7, 7)
  BY <1>2, <1>7, VarintGrows
<1> HIDE DEF B7
<1>9. Within(B8, 8)
  BY <1>2, <1>8, VarintGrows
<1> HIDE DEF B8
<1>10. Within(B9, 9)
  BY <1>2, <1>9, VarintGrows
<1> HIDE DEF B9
<1>11. Within(B10, 10)
  BY <1>2, <1>10, VarintGrows
<1> HIDE DEF B10
<1>12. ASSUME NEW n \in Nat, n < 8 * Word32 PROVE Len(Varint(n)) <= 5
  <2>1. n < B5
    <3> DEFINE w == 8 * Word32
    <3> HIDE DEF w
    <3> QED BY <1>2, <1>12 DEF w
  <2> QED BY <1>6, <2>1 DEF Within
<1>13. ASSUME NEW n \in Nat, n < Word64 PROVE Len(Varint(n)) <= Gap
  <2>1. n < B10
    <3> HIDE DEF Word64
    <3> QED BY <1>2, <1>13
  <2> QED BY <1>11, <2>1 DEF Within, Gap
<1> QED BY <1>12, <1>13 DEF Within

-----------------------------------------------------------------------------
(* The other recursions *)

DoubledBody(f, need, s) == IF s >= need THEN s ELSE f[2 * s]

\* The doubling ends, at a size that is enough.
LEMMA DoubledEnough ==
    ASSUME NEW size \in Nat \ {0}, NEW need \in Nat
    PROVE  Doubled(size, need) \in Nat \ {0} /\ Doubled(size, need) >= need
<1> DEFINE S == Nat \ {0}
           M == [s \in S |-> IF s >= need THEN 0 ELSE need - s]
           B == [f \in [S -> S] |-> [s \in S |-> DoubledBody(f, need, s)]]
<1>1. M \in [S -> Nat] /\ 1 \in S
  OBVIOUS
<1>2. ASSUME NEW s \in S PROVE 2 * s \in S /\ (~(s >= need) => M[2 * s] < M[s])
  OBVIOUS
<1>3. B \in [[S -> S] -> [S -> S]]
  <2>1. ASSUME NEW f \in [S -> S], NEW s \in S PROVE DoubledBody(f, need, s) \in S
    BY <1>2 DEF DoubledBody
  <2> HIDE DEF S
  <2> QED BY <2>1
<1>4. LooksBelow(S, S, M, B)
  <2> SUFFICES ASSUME NEW f \in [S -> S], NEW g \in [S -> S], NEW s \in S,
                      \A y \in S : M[y] < M[s] => f[y] = g[y]
               PROVE  B[f][s] = B[g][s]
    <3> HIDE DEF S, M, B
    <3> QED BY DEF LooksBelow
  <2>1. DoubledBody(f, need, s) = DoubledBody(g, need, s)
    BY <1>2 DEF DoubledBody
  <2> HIDE DEF S
  <2> QED BY <2>1
<1>5. PICK double \in [S -> S] : double = B[double]
  <2> HIDE DEF S, M, B
  <2>1. S # {}
    BY <1>1
  <2>2. HasFunction(S, S, B)
    BY <1>1, <1>3, <1>4, <2>1, Recursion
  <2> QED BY <2>2 DEF HasFunction
<1>6. double = [s \in S |-> DoubledBody(double, need, s)]
  <2> HIDE DEF S
  <2> QED BY <1>5 DEF B
<1>7. PICK f : f = [s \in S |-> DoubledBody(f, need, s)] /\ Doubled(size, need) = f[2 * size]
  <2>1. \E f : f = [s \in S |-> DoubledBody(f, need, s)]
    BY <1>6
  <2> QED BY <2>1 DEF Doubled, DoubledBody
<1> DEFINE G == {s \in S : f[s] \in S /\ f[s] >= need}
<1>8. Inherited(S, M, G)
  <2> SUFFICES ASSUME NEW s \in S, \A y \in S : M[y] < M[s] => y \in G PROVE s \in G
    <3> HIDE DEF S, M, G
    <3> QED BY DEF Inherited
  <2>1. f[s] = DoubledBody(f, need, s)
    <3> HIDE DEF S
    <3> QED BY <1>7
  <2>2. CASE s >= need
    <3>1. f[s] = s
      BY <2>1, <2>2 DEF DoubledBody
    <3> QED BY <2>2, <3>1
  <2>3. CASE ~(s >= need)
    <3>1. f[s] = f[2 * s]
      BY <2>1, <2>3 DEF DoubledBody
    <3>2. 2 * s \in G
      BY <1>2, <2>3
    <3> QED BY <3>1, <3>2
  <2> QED BY <2>2, <2>3
<1>9. G = S
  <2>1. G \in SUBSET S
    OBVIOUS
  <2> HIDE DEF S, M, G
  <2> QED BY <1>1, <1>8, <2>1, MeasuredSet
<1>10. 2 * size \in G
  BY <1>9
<1> QED BY <1>7, <1>10

\* Numbers have the width the C code gives them: field numbers and the numbers
\* of unknown items are read by enif_get_uint, the lengths of binaries are cast
\* to 32 bits, and integers have 64.
Sized ==
    /\ \A n \in Node : \A f \in Schema[n].fields : f.fnum < Word32
    /\ \A t \in Term :
        /\ t[1] = "int" => t[2] < Word64
        /\ t[1] = "bin" => Len(t[2]) < Word32
        /\ IsItem(t) => t[2][2][2] < Word32

\* What a tag is written for.
FieldNumber == {n \in Nat : Sized => n < Word32}

\* What a term is made of.
LEMMA Terms ==
    ASSUME NEW t \in Term
    PROVE  /\ t # NoTerm /\ Depth(t) \in Nat
           /\ t[1] = "int" => t[2] \in Nat
           /\ t[1] = "bin" => t[2] \in Seq(0 .. 255)
           /\ t[1] \in {"list", "tuple"} =>
                t[2] \in Seq(Term) /\ \A i \in DOMAIN t[2] : Depth(t[2][i]) < Depth(t)
BY TermAssumption

Leaf == {Stray} \cup {t \in Term : IsItem(t)} \cup ({"start", "end"} \X FieldNumber)

\* An item's number and content.
LEMMA ItemParts ==
    ASSUME NEW t \in Term, IsItem(t)
    PROVE  /\ t[1] = "tuple" /\ t[2] \in Seq(Term) /\ t[2][2][2] \in FieldNumber
           /\ t[2][1] \in Term /\ t[2][2] \in Term /\ t[2][3] \in Term
           /\ Depth(t[2][3]) < Depth(t)
<1>1. t[1] = "tuple" /\ Len(t[2]) = 3 /\ t[2][2][1] = "int"
  BY DEF IsItem, IsTuple
<1>2. t[2] \in Seq(Term) /\ \A i \in DOMAIN t[2] : Depth(t[2][i]) < Depth(t)
  BY <1>1, Terms
<1> DEFINE s == t[2]
<1>3. 1 \in DOMAIN s /\ 2 \in DOMAIN s /\ 3 \in DOMAIN s
  <2>1. DOMAIN s = 1 .. 3
    BY <1>1, <1>2
  <2> QED BY <2>1
<1>4. s[1] \in Term /\ s[2] \in Term /\ s[3] \in Term
  <2>1. s \in Seq(Term) /\ DOMAIN s = 1 .. Len(s)
    BY <1>2
  <2> HIDE DEF s
  <2> QED BY <1>3, <2>1, ElementOfSeq
<1>5. s[2][2] \in FieldNumber
  BY <1>1, <1>4, Terms DEF FieldNumber, Sized
<1>6. Depth(s[3]) < Depth(t)
  BY <1>2, <1>3
<1> QED BY <1>1, <1>2, <1>4, <1>5, <1>6

InnerLeaves(f, pass, content) ==
    IF content = List(<<>>) THEN IF pass THEN <<>> ELSE <<Stray>>
    ELSE FlattenSeq([i \in DOMAIN content[2] |-> f[content[2][i]]])

IsGroupItem(item) == IsItem(item) /\ item[2][1] = Atom("group") /\ IsList(item[2][3])

LeavesBody(f, pass, item) ==
    CASE ~IsItem(item) -> <<Stray>>
      [] IsItem(item) /\ ~(item[2][1] = Atom("group") /\ IsList(item[2][3])) -> <<item>>
      [] OTHER -> <<<<"start", item[2][2][2]>>>> \o InnerLeaves(f, pass, item[2][3])
                  \o <<<<"end", item[2][2][2]>>>>

\* The body looks only at what the group is made of.
LEMMA LeavesBelow ==
    ASSUME NEW pass \in BOOLEAN, NEW f, NEW g, NEW item \in Term,
           \A y \in Term : Depth(y) < Depth(item) => f[y] = g[y] /\ f[y] \in Seq(Leaf)
    PROVE  /\ LeavesBody(f, pass, item) = LeavesBody(g, pass, item)
           /\ LeavesBody(f, pass, item) \in Seq(Leaf)
<1>1. CASE ~IsItem(item)
  <2>1. LeavesBody(f, pass, item) = <<Stray>> /\ LeavesBody(g, pass, item) = <<Stray>>
    BY <1>1 DEF LeavesBody
  <2>2. <<Stray>> \in Seq(Leaf)
    BY DEF Leaf
  <2> QED BY <2>1, <2>2
<1>2. CASE IsItem(item) /\ ~IsGroupItem(item)
  <2>1. LeavesBody(f, pass, item) = <<item>> /\ LeavesBody(g, pass, item) = <<item>>
    BY <1>2 DEF LeavesBody, IsGroupItem
  <2>2. <<item>> \in Seq(Leaf)
    BY <1>2 DEF Leaf
  <2> QED BY <2>1, <2>2
<1>3. CASE IsGroupItem(item)
  <2> DEFINE content == item[2][3]
             s == content[2]
             fnum == item[2][2][2]
             start == <<<<"start", fnum>>>>
             end == <<<<"end", fnum>>>>
  <2>1. content \in Term /\ fnum \in FieldNumber /\ Depth(content) < Depth(item) /\ content[1] = "list"
    BY <1>3, ItemParts DEF IsGroupItem, IsList
  <2>2. s \in Seq(Term) /\ \A i \in DOMAIN s : Depth(s[i]) < Depth(content)
    BY <2>1, Terms
  <2>3. \A i \in DOMAIN s : s[i] \in Term /\ Depth(s[i]) < Depth(item)
    <3> TAKE i \in DOMAIN s
    <3>1. s[i] \in Term
      <4> HIDE DEF s
      <4> QED BY <2>2, ElementOfSeq
    <3>2. Depth(s[i]) \in Nat /\ Depth(content) \in Nat /\ Depth(item) \in Nat
      BY <2>1, <3>1, Terms
    <3> QED BY <2>1, <2>2, <3>1, <3>2
  <2>4. \A i \in DOMAIN s : f[s[i]] = g[s[i]] /\ f[s[i]] \in Seq(Leaf)
    BY <2>3
  <2> DEFINE fs == [i \in DOMAIN s |-> f[s[i]]]
             gs == [i \in DOMAIN s |-> g[s[i]]]
  <2>5. fs = gs /\ fs \in Seq(Seq(Leaf))
    <3>1. fs = gs
      BY <2>4
    <3>2. PICK n \in Nat : DOMAIN s = 1 .. n
      BY <2>2
    <3>3. fs \in [1 .. n -> Seq(Leaf)]
      BY <2>4, <3>2
    <3> HIDE DEF fs
    <3> QED BY <3>1, <3>3
  <2>6. FlattenSeq(fs) \in Seq(Leaf) /\ FlattenSeq(fs) = FlattenSeq(gs)
    <3> HIDE DEF fs, gs
    <3> QED BY <2>5, Flattened
  <2>7. /\ InnerLeaves(f, pass, content) = InnerLeaves(g, pass, content)
        /\ InnerLeaves(f, pass, content) \in Seq(Leaf)
    <3>1. <<>> \in Seq(Leaf) /\ <<Stray>> \in Seq(Leaf)
      BY DEF Leaf
    <3>2. /\ content = List(<<>>) =>
               /\ InnerLeaves(f, pass, content) = IF pass THEN <<>> ELSE <<Stray>>
               /\ InnerLeaves(g, pass, content) = IF pass THEN <<>> ELSE <<Stray>>
          /\ content # List(<<>>) =>
               /\ InnerLeaves(f, pass, content) = FlattenSeq(fs)
               /\ InnerLeaves(g, pass, content) = FlattenSeq(gs)
      <4> HIDE DEF content
      <4> QED BY DEF InnerLeaves
    <3> HIDE DEF fs, gs, content
    <3> QED BY <2>6, <3>1, <3>2
  <2>8. start \in Seq(Leaf) /\ end \in Seq(Leaf)
    BY <2>1 DEF Leaf
  <2>9. /\ LeavesBody(f, pass, item) = start \o InnerLeaves(f, pass, content) \o end
        /\ LeavesBody(g, pass, item) = start \o InnerLeaves(g, pass, content) \o end
    BY <1>3 DEF LeavesBody, IsGroupItem
  <2> HIDE DEF start, end, content
  <2>10. (start \o InnerLeaves(f, pass, content)) \o end \in Seq(Leaf)
    BY <2>7, <2>8, Joined
  <2> QED BY <2>7, <2>9, <2>10
<1> QED BY <1>1, <1>2, <1>3 DEF IsGroupItem

\* The leaves of items are items, starts and ends of groups, or refused.
LEMMA LeavesOfItems ==
    ASSUME NEW items \in Seq(Term), NEW pass \in BOOLEAN
    PROVE  Leaves(items, pass) \in Seq(Leaf)
<1> DEFINE V == Seq(Leaf)
           M == [t \in Term |-> Depth(t)]
           B == [f \in [Term -> V] |-> [t \in Term |-> LeavesBody(f, pass, t)]]
<1>1. M \in [Term -> Nat] /\ <<>> \in V
  BY Terms
<1>2. B \in [[Term -> V] -> [Term -> V]]
  <2>1. ASSUME NEW f \in [Term -> V], NEW t \in Term PROVE LeavesBody(f, pass, t) \in V
    BY LeavesBelow
  <2> HIDE DEF V
  <2> QED BY <2>1
<1>3. LooksBelow(Term, V, M, B)
  <2> SUFFICES ASSUME NEW f \in [Term -> V], NEW g \in [Term -> V], NEW t \in Term,
                      \A y \in Term : M[y] < M[t] => f[y] = g[y]
               PROVE  B[f][t] = B[g][t]
    <3> HIDE DEF V, M, B
    <3> QED BY DEF LooksBelow
  <2>1. \A y \in Term : Depth(y) < Depth(t) => f[y] = g[y] /\ f[y] \in V
    BY Terms
  <2>2. LeavesBody(f, pass, t) = LeavesBody(g, pass, t)
    BY <2>1, LeavesBelow
  <2> HIDE DEF V, M
  <2> QED BY <2>2
<1>4. PICK leaves \in [Term -> V] : leaves = B[leaves]
  <2> HIDE DEF V, M, B
  <2>1. HasFunction(Term, V, B)
    BY <1>1, <1>2, <1>3, Recursion
  <2> QED BY <2>1 DEF HasFunction
<1>5. leaves = [t \in Term |-> LeavesBody(leaves, pass, t)]
  <2> HIDE DEF V
  <2> QED BY <1>4 DEF B
<1>6. PICK f : /\ f = [t \in Term |-> LeavesBody(f, pass, t)]
               /\ Leaves(items, pass) = FlattenSeq([i \in DOMAIN items |-> f[items[i]]])
  <2>1. \E f : f = [t \in Term |-> LeavesBody(f, pass, t)]
    BY <1>5
  <2> QED BY <2>1 DEF Leaves, LeavesBody, InnerLeaves
<1> DEFINE G == {t \in Term : f[t] \in V}
<1>7. Inherited(Term, M, G)
  <2> SUFFICES ASSUME NEW t \in Term, \A y \in Term : M[y] < M[t] => y \in G PROVE t \in G
    <3> HIDE DEF M, G
    <3> QED BY DEF Inherited
  <2>1. \A y \in Term : Depth(y) < Depth(t) => f[y] = f[y] /\ f[y] \in V
    BY Terms
  <2>2. LeavesBody(f, pass, t) \in V
    BY <2>1, LeavesBelow
  <2>3. f[t] = LeavesBody(f, pass, t)
    BY <1>6
  <2> HIDE DEF V
  <2> QED BY <2>2, <2>3
<1>8. G = Term
  <2>1. G \in SUBSET Term
    OBVIOUS
  <2> HIDE DEF M, G
  <2> QED BY <1>1, <1>7, <2>1, MeasuredSet
<1> DEFINE seqs == [i \in DOMAIN items |-> f[items[i]]]
<1>9. seqs \in Seq(V)
  <2>1. PICK n \in Nat : DOMAIN items = 1 .. n /\ \A i \in 1 .. n : items[i] \in Term
    OBVIOUS
  <2>2. \A i \in 1 .. n : f[items[i]] \in V
    <3> HIDE DEF V
    <3> QED BY <1>8, <2>1
  <2>3. seqs \in [1 .. n -> V]
    BY <2>1, <2>2
  <2> HIDE DEF V, seqs
  <2> QED BY <2>3
<1>10. FlattenSeq(seqs) \in Seq(Leaf)
  <2> HIDE DEF seqs
  <2> QED BY <1>9, Flattened
<1> QED BY <1>6, <1>10

-----------------------------------------------------------------------------
(* What a writer does to the buffer *)

Buf == {b \in Buffer : b.size > 0}

\* All of what enc_reserve keeps of the buffer agrees, and no realloc is denied.
Fits(b) ==
    /\ b.left = 0 /\ b.cap = b.size /\ b.end = b.size
    /\ ~b.strayed /\ b.p <= b.cap

\* From e to r the writer went forward over bytes it wrote, and kept the buffer.
Wrote(e, r) ==
    /\ r \in Buf
    /\ r.ok => e.ok
    /\ e.p <= r.p
    /\ r.p <= Len(r.mem) \/ (r.p = e.p /\ Len(e.mem) <= Len(r.mem))
    /\ e.left = 0 => r.left = 0
    /\ Sized /\ Fits(e) => Fits(r)

LEMMA BufTypes ==
    ASSUME NEW e \in Buf
    PROVE  /\ e.mem \in Seq(0 .. 255) /\ Len(e.mem) \in Nat /\ e.p \in Nat /\ e.end \in Nat
           /\ e.cap \in Nat /\ e.size \in Nat \ {0} /\ e.left \in Nat /\ e.strayed \in BOOLEAN
           /\ e.ok \in BOOLEAN /\ e \in Buffer
BY DEF Buf, Buffer

LEMMA WroteItself ==
    ASSUME NEW e \in Buf
    PROVE  Wrote(e, e)
BY BufTypes DEF Wrote

LEMMA WroteOn ==
    ASSUME NEW e \in Buf, NEW r, NEW s, Wrote(e, r), Wrote(r, s)
    PROVE  Wrote(e, s)
<1>1. r \in Buf /\ s \in Buf
  BY DEF Wrote
<1>2. /\ e.p \in Nat /\ r.p \in Nat /\ s.p \in Nat
      /\ Len(e.mem) \in Nat /\ Len(r.mem) \in Nat /\ Len(s.mem) \in Nat
  BY <1>1, BufTypes
<1>3. e.p <= s.p
  BY <1>2 DEF Wrote
<1>4. s.p <= Len(s.mem) \/ (s.p = e.p /\ Len(e.mem) <= Len(s.mem))
  BY <1>2 DEF Wrote
<1> QED BY <1>1, <1>3, <1>4 DEF Wrote

\* What is written stays, and is as long as it has to be.
LEMMA WrittenBytes ==
    ASSUME NEW mem \in Seq(0 .. 255), NEW at \in Nat, NEW bytes \in Seq(0 .. 255)
    PROVE  /\ Written(mem, at, bytes) \in Seq(0 .. 255)
           /\ Len(Written(mem, at, bytes)) \in Nat
           /\ Len(mem) <= Len(Written(mem, at, bytes))
           /\ at + Len(bytes) <= Len(Written(mem, at, bytes))
<1>1. PICK m \in Nat, k \in Nat :
          /\ m = Len(mem) /\ k = Len(bytes)
          /\ \A i \in 1 .. m : mem[i] \in 0 .. 255
          /\ \A i \in 1 .. k : bytes[i] \in 0 .. 255
  <2>1. Len(mem) \in Nat /\ \A i \in 1 .. Len(mem) : mem[i] \in 0 .. 255
    BY ElementOfSeq
  <2>2. Len(bytes) \in Nat /\ \A i \in 1 .. Len(bytes) : bytes[i] \in 0 .. 255
    BY ElementOfSeq
  <2> QED BY <2>1, <2>2
<1> DEFINE S == {m, at + k}
<1>2. PICK n \in Nat : n = Max(S) /\ m <= n /\ at + k <= n
  <2>1. S \in SUBSET (0 .. m + at + k) /\ S # {} /\ m + at + k \in Nat
    OBVIOUS
  <2>2. Max(S) \in S /\ \A i \in S : i <= Max(S)
    <3> HIDE DEF S
    <3> QED BY <2>1, MaxOfNaturals
  <2>3. Max(S) \in Nat /\ m <= Max(S) /\ at + k <= Max(S)
    BY <2>2
  <2> QED BY <2>3
<1> DEFINE B(i) == CASE i > at /\ i <= at + k -> bytes[i - at]
                     [] i <= at /\ i > m -> 0
                     [] OTHER -> mem[i]
           w == [i \in 1 .. n |-> B(i)]
<1>3. Written(mem, at, bytes) = w
  BY <1>1, <1>2 DEF Written
<1>4. \A i \in 1 .. n : B(i) \in 0 .. 255
  <2> SUFFICES ASSUME NEW i \in 1 .. n PROVE B(i) \in 0 .. 255
    OBVIOUS
  <2>1. CASE i > at /\ i <= at + k
    <3>1. \E j \in 1 .. k : B(i) = bytes[j]
      <4>1. i - at \in 1 .. k
        BY <2>1
      <4> QED BY <2>1, <4>1
    <3> HIDE DEF B
    <3> QED BY <1>1, <3>1
  <2>2. CASE i <= at /\ i > m
    BY <2>2
  <2>3. CASE ~(i > at /\ i <= at + k) /\ ~(i <= at /\ i > m)
    <3>1. n = m \/ n = at + k
      <4>1. S \in SUBSET (0 .. m + at + k) /\ S # {} /\ m + at + k \in Nat
        OBVIOUS
      <4>2. Max(S) \in S
        <5> HIDE DEF S
        <5> QED BY <4>1, MaxOfNaturals
      <4> QED BY <1>2, <4>2
    <3>2. i \in 1 .. m
      BY <2>3, <3>1
    <3>3. B(i) = mem[i]
      BY <2>3
    <3> HIDE DEF B
    <3> QED BY <1>1, <3>2, <3>3
  <2> QED BY <2>1, <2>2, <2>3
<1>5. w \in Seq(0 .. 255) /\ Len(w) = n
  <2> HIDE DEF B
  <2> QED BY <1>4
<1> HIDE DEF w
<1> QED BY <1>1, <1>2, <1>3, <1>5

\* From e to r bytes were put at a place, and the writer did not move.
PutInto(e, at, bytes, r) ==
    /\ r \in Buf /\ r.p = e.p /\ r.ok = e.ok /\ r.left = e.left
    /\ r.size = e.size /\ r.cap = e.cap /\ r.end = e.end
    /\ Len(e.mem) <= Len(r.mem) /\ at + Len(bytes) <= Len(r.mem)
    /\ ~e.strayed /\ at + Len(bytes) <= e.cap => ~r.strayed

LEMMA PutBytes ==
    ASSUME NEW e \in Buf, NEW at \in Nat, NEW bytes \in Seq(0 .. 255)
    PROVE  PutInto(e, at, bytes, Put(e, at, bytes))
<1> DEFINE r == Put(e, at, bytes)
           w == Written(e.mem, at, bytes)
           b == e.strayed \/ at + Len(bytes) > e.cap
<1>1. /\ e.mem \in Seq(0 .. 255) /\ e \in Buffer /\ e.size > 0
      /\ Len(bytes) \in Nat /\ e.cap \in Nat
  BY BufTypes DEF Buf
<1>2. w \in Seq(0 .. 255) /\ Len(e.mem) <= Len(w) /\ at + Len(bytes) <= Len(w)
  BY <1>1, WrittenBytes
<1>3. b \in BOOLEAN /\ (~e.strayed /\ at + Len(bytes) <= e.cap => ~b)
  BY <1>1
<1>4. r = [e EXCEPT !.mem = w, !.strayed = b]
  BY DEF Put
<1> HIDE DEF r, w, b
<1>5. /\ r \in Buffer /\ r.p = e.p /\ r.ok = e.ok /\ r.left = e.left
      /\ r.size = e.size /\ r.cap = e.cap /\ r.end = e.end /\ r.mem = w /\ r.strayed = b
  BY <1>1, <1>2, <1>3, <1>4 DEF Buffer
<1>6. r \in Buf
  BY <1>1, <1>5 DEF Buf
<1> QED BY <1>2, <1>3, <1>5, <1>6 DEF PutInto, r

LEMMA EmitBytes ==
    ASSUME NEW e \in Buf, NEW bytes \in Seq(0 .. 255)
    PROVE  LET r == Emit(e, bytes)
           IN  /\ r \in Buf /\ r.ok = e.ok /\ r.left = e.left
               /\ r.size = e.size /\ r.cap = e.cap /\ r.end = e.end
               /\ Len(e.mem) <= Len(r.mem)
               /\ ~e.ok => r = e
               /\ e.ok => r.p = e.p + Len(bytes) /\ r.p <= Len(r.mem)
               /\ ~e.strayed /\ (e.ok => e.p + Len(bytes) <= e.cap) => ~r.strayed
<1>1. e.ok \in BOOLEAN /\ e.p \in Nat /\ Len(bytes) \in Nat /\ Len(e.mem) \in Nat
  BY BufTypes
<1>2. CASE ~e.ok
  BY <1>1, <1>2, BufTypes DEF Emit
<1>3. CASE e.ok
  <2> DEFINE b == Put(e, e.p, bytes)
             r == [b EXCEPT !.p = @ + Len(bytes)]
  <2>1. /\ b \in Buf /\ b.p = e.p /\ b.ok = e.ok /\ b.left = e.left
        /\ b.size = e.size /\ b.cap = e.cap /\ b.end = e.end
        /\ Len(e.mem) <= Len(b.mem) /\ e.p + Len(bytes) <= Len(b.mem)
        /\ ~e.strayed /\ e.p + Len(bytes) <= e.cap => ~b.strayed
    BY <1>1, PutBytes DEF PutInto
  <2>2. Emit(e, bytes) = r
    BY <1>3 DEF Emit
  <2> HIDE DEF b
  <2>3. /\ r \in Buf /\ r.p = b.p + Len(bytes) /\ r.ok = b.ok /\ r.left = b.left
        /\ r.size = b.size /\ r.cap = b.cap /\ r.end = b.end /\ r.mem = b.mem
        /\ r.strayed = b.strayed
    <3>1. PICK p \in Nat : p = b.p + Len(bytes)
      BY <1>1, <2>1
    <3>2. r = [b EXCEPT !.p = p]
      BY <3>1
    <3>3. b \in Buffer /\ b.size > 0
      BY <2>1 DEF Buf
    <3> HIDE DEF r
    <3>4. /\ r \in Buffer /\ r.p = p /\ r.ok = b.ok /\ r.left = b.left
          /\ r.size = b.size /\ r.cap = b.cap /\ r.end = b.end /\ r.mem = b.mem
          /\ r.strayed = b.strayed
      BY <3>2, <3>3 DEF Buffer
    <3> QED BY <3>1, <3>3, <3>4 DEF Buf
  <2> HIDE DEF r
  <2> QED BY <1>1, <1>3, <2>1, <2>2, <2>3
<1> QED BY <1>1, <1>2, <1>3

\* A chain of writes stops where it is.
LEMMA StoppedThere ==
    ASSUME NEW e \in Buf, NEW reason \in {"alloc", "alloc_binary", "bad_term"}
    PROVE  LET r == Stopped(e, reason)
           IN  Wrote(e, r) /\ ~r.ok /\ r.p = e.p
<1> DEFINE r == Stopped(e, reason)
<1>1. e \in Buffer /\ e.size > 0 /\ e.p \in Nat /\ Len(e.mem) \in Nat /\ e.ok \in BOOLEAN
  BY BufTypes DEF Buf
<1>2. /\ r \in Buffer /\ r.p = e.p /\ ~r.ok /\ r.left = e.left /\ r.mem = e.mem
      /\ r.size = e.size /\ r.cap = e.cap /\ r.end = e.end /\ r.strayed = e.strayed
  <2>1. CASE e.ok
    BY <1>1, <2>1 DEF Stopped, Buffer
  <2>2. CASE ~e.ok
    BY <1>1, <2>2 DEF Stopped
  <2> QED BY <2>1, <2>2
<1> HIDE DEF r
<1>3. Wrote(e, r)
  BY <1>1, <1>2 DEF Wrote, Fits, Buf
<1> QED BY <1>2, <1>3 DEF r

\* Room is made, unless a realloc is denied.
LEMMA ReserveRoom ==
    ASSUME NEW e \in Buf, NEW n \in Nat
    PROVE  LET r == Reserve(e, n)
           IN  /\ Wrote(e, r) /\ r.p = e.p /\ r.mem = e.mem
               /\ e.left = 0 => r.ok = e.ok
               /\ Fits(e) => Fits(r) /\ r.ok = e.ok
               /\ Fits(r) /\ r.ok => e.p + n <= r.cap
<1> DEFINE r == Reserve(e, n)
           size == Doubled(e.size, e.p + n)
           left == IF e.left = 0 THEN 0 ELSE e.left - 1
           tried == [e EXCEPT !.size = size, !.left = left]
<1>1. /\ e \in Buffer /\ e.size \in Nat \ {0} /\ e.p \in Nat /\ Len(e.mem) \in Nat
      /\ e.ok \in BOOLEAN /\ e.left \in Nat /\ e.cap \in Nat /\ e.end \in Nat
  BY BufTypes
<1>2. size \in Nat \ {0} /\ size >= e.p + n /\ left \in Nat
  <2>1. e.p + n \in Nat
    BY <1>1
  <2>2. size \in Nat \ {0} /\ size >= e.p + n
    BY <1>1, <2>1, DoubledEnough
  <2>3. left \in Nat
    BY <1>1
  <2> QED BY <2>2, <2>3
<1>3. CASE ~e.ok \/ Room(e, n)
  <2>1. r = e
    BY <1>3 DEF Reserve
  <2>2. Wrote(e, e)
    BY WroteItself
  <2> HIDE DEF r
  <2>3. Fits(e) /\ e.ok => e.p + n <= e.cap
    BY <1>3 DEF Fits, Room
  <2>4. /\ Wrote(e, r) /\ r.p = e.p /\ r.mem = e.mem
        /\ e.left = 0 => r.ok = e.ok
        /\ Fits(e) => Fits(r) /\ r.ok = e.ok
        /\ Fits(r) /\ r.ok => e.p + n <= r.cap
    BY <2>1, <2>2, <2>3
  <2> QED BY <2>4 DEF r
<1>4. CASE e.ok /\ ~Room(e, n) /\ e.left = 1
  <2>1. r = [tried EXCEPT !.ok = FALSE, !.reason = "alloc_binary"]
    BY <1>4 DEF Reserve
  <2> HIDE DEF r, size, left
  <2>2. /\ r \in Buffer /\ r.p = e.p /\ r.mem = e.mem /\ r.size = size /\ ~r.ok
    BY <1>1, <1>2, <2>1 DEF Buffer
  <2>3. Wrote(e, r)
    BY <1>1, <1>2, <1>4, <2>2 DEF Wrote, Fits, Buf
  <2>4. ~Fits(e) /\ e.left # 0
    BY <1>4 DEF Fits
  <2> QED BY <2>2, <2>3, <2>4 DEF r
<1>5. CASE e.ok /\ ~Room(e, n) /\ e.left # 1
  <2>1. r = [tried EXCEPT !.cap = tried.size, !.end = tried.size]
    BY <1>5 DEF Reserve
  <2>2. left = 0 <=> e.left = 0
    BY <1>1, <1>5
  <2> HIDE DEF r, size, left
  <2>3. /\ r \in Buffer /\ r.p = e.p /\ r.mem = e.mem /\ r.size = size /\ r.ok = e.ok
        /\ r.left = left /\ r.cap = size /\ r.end = size /\ r.strayed = e.strayed
    BY <1>1, <1>2, <2>1 DEF Buffer
  <2>4. e.p + n <= size /\ e.p <= size
    BY <1>1, <1>2
  <2>5. Fits(e) => Fits(r)
    BY <2>2, <2>3, <2>4 DEF Fits
  <2>6. Wrote(e, r)
    <3>1. r \in Buf
      BY <1>2, <2>3 DEF Buf
    <3>2. e.p <= r.p /\ Len(e.mem) <= Len(r.mem)
      BY <1>1, <2>3
    <3> QED BY <2>2, <2>3, <2>5, <3>1, <3>2 DEF Wrote
  <2> QED BY <2>3, <2>4, <2>5, <2>6 DEF r
<1> QED BY <1>3, <1>4, <1>5

\* Bytes that fit are written.
LEMMA EmitWrote ==
    ASSUME NEW e \in Buf, NEW s, Wrote(e, s), NEW bytes \in Seq(0 .. 255),
           Sized /\ Fits(e) /\ s.ok => s.p + Len(bytes) <= s.cap
    PROVE  Wrote(e, Emit(s, bytes))
<1> DEFINE r == Emit(s, bytes)
<1>1. s \in Buf
  BY DEF Wrote
<1>2. /\ s.ok \in BOOLEAN /\ s.p \in Nat /\ Len(s.mem) \in Nat /\ Len(bytes) \in Nat
      /\ s.cap \in Nat /\ e.p \in Nat /\ Len(e.mem) \in Nat
  BY <1>1, BufTypes
<1>3. /\ r \in Buf /\ r.ok = s.ok /\ r.left = s.left
      /\ r.size = s.size /\ r.cap = s.cap /\ r.end = s.end
      /\ Len(s.mem) <= Len(r.mem)
      /\ ~s.ok => r = s
      /\ s.ok => r.p = s.p + Len(bytes) /\ r.p <= Len(r.mem)
      /\ ~s.strayed /\ (s.ok => s.p + Len(bytes) <= s.cap) => ~r.strayed
  BY <1>1, EmitBytes
<1> HIDE DEF r
<1>4. e.p <= r.p /\ (r.p <= Len(r.mem) \/ (r.p = e.p /\ Len(e.mem) <= Len(r.mem)))
  BY <1>2, <1>3 DEF Wrote
<1>5. Sized /\ Fits(e) => Fits(r)
  BY <1>2, <1>3 DEF Fits, Wrote
<1> QED BY <1>3, <1>4, <1>5 DEF Wrote, r

\* Room for n bytes is made and at most n written.
LEMMA ReserveEmit ==
    ASSUME NEW e \in Buf, NEW n \in Nat, NEW bytes \in Seq(0 .. 255),
           Sized => Len(bytes) <= n
    PROVE  LET r == Emit(Reserve(e, n), bytes)
           IN  /\ Wrote(e, r)
               /\ r.p = IF r.ok THEN e.p + Len(bytes) ELSE e.p
               /\ e.left = 0 => r.ok = e.ok
               /\ Fits(e) /\ e.ok => e.p + n <= r.cap
<1> DEFINE s == Reserve(e, n)
           r == Emit(s, bytes)
<1>1. /\ Wrote(e, s) /\ s.p = e.p /\ s.mem = e.mem
      /\ e.left = 0 => s.ok = e.ok
      /\ Fits(e) => Fits(s) /\ s.ok = e.ok
      /\ Fits(s) /\ s.ok => e.p + n <= s.cap
  BY ReserveRoom
<1>2. s \in Buf /\ (s.ok => e.ok)
  BY <1>1 DEF Wrote
<1>3. e.p \in Nat /\ Len(bytes) \in Nat /\ s.cap \in Nat /\ s.p \in Nat
  BY <1>2, BufTypes
<1>4. r.ok = s.ok /\ r.cap = s.cap /\ (~s.ok => r.p = s.p) /\ (s.ok => r.p = s.p + Len(bytes))
  <2> HIDE DEF s
  <2> QED BY <1>2, EmitBytes
<1>5. Wrote(e, r)
  <2> HIDE DEF s, r
  <2>1. Sized /\ Fits(e) /\ s.ok => s.p + Len(bytes) <= s.cap
    BY <1>1, <1>3
  <2> QED BY <1>1, <2>1, EmitWrote DEF r
<1> HIDE DEF s, r
<1> QED BY <1>1, <1>2, <1>4, <1>5 DEF s, r

\* A tag is five bytes at most.
LEMMA TagBytes ==
    ASSUME NEW e \in Buf, NEW fnum \in FieldNumber
    PROVE  LET r == PackTag(e, fnum)
           IN  /\ Wrote(e, r)
               /\ r.ok => e.p < r.p
               /\ e.left = 0 => r.ok = e.ok
               /\ Fits(e) /\ e.ok => e.p + Gap <= r.cap
               /\ Sized => r.p <= e.p + 5
<1> DEFINE bytes == Varint(8 * fnum)
           r == Emit(Reserve(e, Gap), bytes)
<1>1. bytes \in Seq(0 .. 255) /\ Len(bytes) \in Nat /\ Len(bytes) > 0
  BY VarintBytes DEF FieldNumber
<1>2. Sized => Len(bytes) <= 5
  <2> SUFFICES ASSUME Sized PROVE Len(bytes) <= 5
    OBVIOUS
  <2>1. 8 * fnum \in Nat /\ 8 * fnum < 8 * Word32
    BY DEF Word32, FieldNumber
  <2> QED BY <2>1, VarintLength DEF Within
<1>3. Gap = 10 /\ Gap \in Nat /\ e.p \in Nat
  BY BufTypes DEF Gap
<1> HIDE DEF bytes
<1>4. /\ Wrote(e, r)
      /\ r.p = IF r.ok THEN e.p + Len(bytes) ELSE e.p
      /\ e.left = 0 => r.ok = e.ok
      /\ Fits(e) /\ e.ok => e.p + Gap <= r.cap
  <2>1. Sized => Len(bytes) <= Gap
    BY <1>1, <1>2, <1>3
  <2> QED BY <1>1, <1>3, <2>1, ReserveEmit
<1>5. PackTag(e, fnum) = r
  BY DEF PackTag, bytes
<1> HIDE DEF r
<1> QED BY <1>1, <1>2, <1>3, <1>4, <1>5

\* A tag, or where it was not written its wire type.
LEMMA TaggedBytes ==
    ASSUME NEW e \in Buf, NEW fnum \in FieldNumber, NEW wt \in 0 .. 7
    PROVE  LET r == Tagged(e, fnum, wt)
           IN  /\ Wrote(e, r) /\ r.ok = e.ok
               /\ e.ok => r.p <= Len(r.mem)
               /\ e.ok /\ e.left = 0 => e.p < r.p
               /\ Fits(e) /\ e.ok => e.p + Gap <= r.cap
               /\ Sized => r.p <= e.p + 5
<1>1. e.ok \in BOOLEAN /\ e.p \in Nat /\ Len(e.mem) \in Nat
  BY BufTypes
<1>2. CASE ~e.ok
  BY <1>1, <1>2, WroteItself DEF Tagged
<1>3. CASE e.ok
  <2> DEFINE tag == PackTag(e, fnum)
             first == IF e.p < Len(tag.mem) THEN tag.mem[e.p + 1] ELSE 0
             byte == 8 * (first \div 8) + wt
             b == Put(tag, e.p, <<byte>>)
             r == [b EXCEPT !.ok = TRUE]
  <2>1. /\ Wrote(e, tag)
        /\ tag.ok => e.p < tag.p
        /\ e.left = 0 => tag.ok = e.ok
        /\ Fits(e) /\ e.ok => e.p + Gap <= tag.cap
        /\ Sized => tag.p <= e.p + 5
    BY TagBytes
  <2>2. Tagged(e, fnum, wt) = r
    BY <1>3 DEF Tagged
  <2> HIDE DEF tag
  <2>3. tag \in Buf /\ tag.mem \in Seq(0 .. 255) /\ Len(tag.mem) \in Nat /\ tag.p \in Nat /\ tag.cap \in Nat
    BY <2>1, BufTypes DEF Wrote
  <2>4. first \in 0 .. 255
    <3>1. CASE e.p < Len(tag.mem)
      <4>1. e.p + 1 \in 1 .. Len(tag.mem)
        BY <1>1, <2>3, <3>1
      <4>2. tag.mem[e.p + 1] \in 0 .. 255
        BY <2>3, <4>1, ElementOfSeq
      <4> QED BY <3>1, <4>2
    <3>2. CASE ~(e.p < Len(tag.mem))
      BY <3>2
    <3> QED BY <3>1, <3>2
  <2> HIDE DEF first
  <2>5. byte \in 0 .. 255
    BY <2>4
  <2> HIDE DEF byte
  <2>6. <<byte>> \in Seq(0 .. 255) /\ Len(<<byte>>) = 1
    BY <2>5
  <2>7. /\ b \in Buf /\ b.p = tag.p /\ b.left = tag.left
        /\ b.size = tag.size /\ b.cap = tag.cap /\ b.end = tag.end
        /\ Len(tag.mem) <= Len(b.mem) /\ e.p + 1 <= Len(b.mem)
        /\ ~tag.strayed /\ e.p + 1 <= tag.cap => ~b.strayed
    <3> DEFINE one == <<byte>>
    <3>1. one \in Seq(0 .. 255) /\ Len(one) = 1
      BY <2>6
    <3> HIDE DEF one, byte
    <3>2. PICK at \in Nat : at = e.p
      BY <1>1
    <3> DEFINE x == Put(tag, at, one)
    <3>3. PutInto(tag, at, one, x)
      BY <2>3, <3>1, PutBytes
    <3> QED BY <3>1, <3>2, <3>3 DEF PutInto, one
  <2> HIDE DEF b
  <2>8. /\ r \in Buf /\ r.p = tag.p /\ r.left = tag.left /\ r.ok
        /\ r.size = tag.size /\ r.cap = tag.cap /\ r.end = tag.end
        /\ r.mem = b.mem /\ r.strayed = b.strayed
    BY <2>7 DEF Buf, Buffer
  <2> HIDE DEF r
  <2>9. Len(b.mem) \in Nat
    BY <2>7, BufTypes
  <2>10. r.p <= Len(r.mem)
    BY <1>1, <2>1, <2>3, <2>7, <2>8, <2>9 DEF Wrote
  <2>11. e.ok /\ e.left = 0 => e.p < r.p
    BY <2>1, <2>8
  <2>12. Sized /\ Fits(e) => Fits(r)
    <3> SUFFICES ASSUME Sized, Fits(e) PROVE Fits(r)
      OBVIOUS
    <3>1. Fits(tag) /\ e.p < tag.p
      BY <1>3, <2>1 DEF Wrote, Fits
    <3>2. e.p + 1 <= tag.cap
      BY <1>1, <2>3, <3>1 DEF Fits
    <3> QED BY <2>7, <2>8, <3>1, <3>2 DEF Fits
  <2>13. Wrote(e, r)
    BY <1>3, <2>1, <2>8, <2>10, <2>12 DEF Wrote
  <2> QED BY <1>3, <2>1, <2>2, <2>8, <2>10, <2>11, <2>13
<1> QED BY <1>1, <1>2, <1>3

\* A gap: nothing is written yet.
LEMMA OpenedGap ==
    ASSUME NEW e \in Buf
    PROVE  LET r == Opened(e)
           IN  /\ r \in Buf /\ r.mem = e.mem /\ (r.ok => e.ok)
               /\ r.p = IF r.ok THEN e.p + Gap ELSE e.p
               /\ e.left = 0 => r.left = 0
               /\ Fits(e) => Fits(r)
<1> DEFINE s == Reserve(e, Gap)
           r == IF s.ok THEN [s EXCEPT !.p = @ + Gap] ELSE s
<1>1. Gap \in Nat /\ e.p \in Nat /\ e.ok \in BOOLEAN
  BY BufTypes DEF Gap
<1>2. /\ Wrote(e, s) /\ s.p = e.p /\ s.mem = e.mem
      /\ Fits(e) => Fits(s) /\ s.ok = e.ok
      /\ Fits(s) /\ s.ok => e.p + Gap <= s.cap
  BY <1>1, ReserveRoom
<1>3. Opened(e) = r
  BY DEF Opened
<1> HIDE DEF s
<1>4. s \in Buf /\ s \in Buffer /\ s.size > 0 /\ s.ok \in BOOLEAN
  BY <1>2, BufTypes DEF Wrote, Buf
<1>5. /\ r \in Buf /\ r.mem = s.mem /\ r.ok = s.ok /\ r.left = s.left
      /\ r.p = IF s.ok THEN s.p + Gap ELSE s.p
      /\ r.size = s.size /\ r.cap = s.cap /\ r.end = s.end /\ r.strayed = s.strayed
  <2>1. CASE s.ok
    <3>1. PICK p \in Nat : p = s.p + Gap
      BY <1>1, <1>2
    <3>2. r = [s EXCEPT !.p = p]
      BY <2>1, <3>1
    <3> HIDE DEF r
    <3>3. /\ r \in Buffer /\ r.mem = s.mem /\ r.ok = s.ok /\ r.left = s.left /\ r.p = p
          /\ r.size = s.size /\ r.cap = s.cap /\ r.end = s.end /\ r.strayed = s.strayed
      BY <1>4, <3>2 DEF Buffer
    <3> QED BY <1>4, <2>1, <3>1, <3>3 DEF Buf
  <2>2. CASE ~s.ok
    BY <1>4, <2>2
  <2> QED BY <2>1, <2>2
<1> HIDE DEF r
<1>6. Fits(e) => Fits(r)
  BY <1>1, <1>2, <1>5 DEF Fits
<1> QED BY <1>1, <1>2, <1>3, <1>5, <1>6 DEF Wrote

\* A part of a sequence, or nothing.
PartLength(m, k) == IF m <= k THEN k - m + 1 ELSE 0

LEMMA PartOfSeq ==
    ASSUME NEW S, NEW s \in Seq(S), NEW m \in Nat, NEW k \in Nat, m > 0, k <= Len(s) \/ k < m
    PROVE  SubSeq(s, m, k) \in Seq(S) /\ Len(SubSeq(s, m, k)) = PartLength(m, k)
<1> USE DEF PartLength
<1>1. CASE m <= k
  <2>1. Len(s) \in Nat /\ k <= Len(s)
    BY <1>1
  <2>2. m \in 1 .. Len(s) + 1 /\ k \in m - 1 .. Len(s)
    BY <1>1, <2>1
  <2>3. \A i \in m .. k : s[i] \in S
    <3> TAKE i \in m .. k
    <3>1. i \in 1 .. Len(s)
      BY <2>1
    <3> QED BY <3>1, ElementOfSeq
  <2> QED BY <1>1, <2>2, <2>3, SubSeqProperties
<1>2. CASE k < m
  <2>1. SubSeq(s, m, k) = <<>>
    BY <1>2
  <2>2. <<>> \in Seq(S) /\ Len(<<>>) = 0
    OBVIOUS
  <2> QED BY <1>2, <2>1, <2>2
<1> QED BY <1>1, <1>2

\* The bytes from a gap on are written, or there are none.
Solid(e, at) == e.p <= Len(e.mem) \/ e.p = at + Gap

\* The length in front of its payload takes no more room than its gap.
LEMMA PatchedGap ==
    ASSUME NEW e \in Buf, NEW at \in Nat, at + Gap <= e.p, Solid(e, at)
    PROVE  LET r == Patched(e, at)
           IN  /\ r \in Buf /\ r.ok = e.ok /\ r.left = e.left
               /\ at < r.p
               /\ r.ok => r.p <= Len(r.mem)
               /\ Fits(e) /\ r.p < Word64 => Fits(r)
<1>1. /\ e.p \in Nat /\ e.ok \in BOOLEAN /\ e.mem \in Seq(0 .. 255) /\ Len(e.mem) \in Nat
      /\ Gap = 10 /\ e.cap \in Nat /\ e \in Buffer /\ e.size > 0
  BY BufTypes DEF Gap, Buf
<1>2. CASE ~e.ok
  BY <1>1, <1>2 DEF Patched
<1>3. CASE e.ok
  <2> DEFINE payload == SubSeq(e.mem, at + Gap + 1, e.p)
             length == Varint(Len(payload))
             bytes == length \o payload
             b == [e EXCEPT !.p = at]
             r == Emit(b, bytes)
  <2>1. PICK n \in Nat : n = e.p - (at + Gap)
    BY <1>1
  <2>2. payload \in Seq(0 .. 255) /\ Len(payload) = n
    <3> DEFINE m == at + Gap + 1
    <3>1. m \in Nat /\ m > 0 /\ (e.p <= Len(e.mem) \/ e.p < m) /\ n = PartLength(m, e.p)
      BY <1>1, <2>1 DEF Solid, PartLength
    <3> HIDE DEF m
    <3>2. PICK mem \in Seq(0 .. 255), p \in Nat : mem = e.mem /\ p = e.p
      BY <1>1
    <3>3. SubSeq(mem, m, p) \in Seq(0 .. 255) /\ Len(SubSeq(mem, m, p)) = PartLength(m, p)
      <4>1. m \in Nat /\ m > 0 /\ (p <= Len(mem) \/ p < m)
        BY <3>1, <3>2
      <4> QED BY <4>1, PartOfSeq
    <3> QED BY <3>1, <3>2, <3>3 DEF m
  <2> HIDE DEF payload
  <2>3. length \in Seq(0 .. 255) /\ Len(length) \in Nat /\ Len(length) > 0
        /\ (n < Word64 => Len(length) <= Gap)
    <3>1. Varint(n) \in Seq(0 .. 255) /\ Len(Varint(n)) > 0
      BY VarintBytes
    <3>2. Len(Varint(n)) \in Nat
      BY <3>1
    <3>3. n < Word64 => Len(Varint(n)) <= Gap
      BY VarintLength DEF Within
    <3> QED BY <2>2, <3>1, <3>2, <3>3
  <2> HIDE DEF length
  <2>4. bytes \in Seq(0 .. 255) /\ Len(bytes) = Len(length) + n
    BY <2>2, <2>3, Joined
  <2> HIDE DEF bytes
  <2>5. Patched(e, at) = r
    BY <1>3 DEF Patched, bytes, length, payload
  <2>6. /\ b \in Buf /\ b.p = at /\ b.ok = e.ok /\ b.left = e.left /\ b.size = e.size
        /\ b.cap = e.cap /\ b.end = e.end /\ b.strayed = e.strayed
    BY <1>1 DEF Buf, Buffer
  <2> HIDE DEF b
  <2>7. /\ r \in Buf /\ r.ok = b.ok /\ r.left = b.left
        /\ r.size = b.size /\ r.cap = b.cap /\ r.end = b.end
        /\ b.ok => r.p = b.p + Len(bytes) /\ r.p <= Len(r.mem)
        /\ ~b.strayed /\ (b.ok => b.p + Len(bytes) <= b.cap) => ~r.strayed
    BY <2>4, <2>6, EmitBytes
  <2> HIDE DEF r
  <2>8. r.p = at + (Len(length) + n) /\ at < r.p
    BY <1>3, <2>3, <2>4, <2>6, <2>7
  <2>9. ASSUME Fits(e), r.p < Word64 PROVE Fits(r)
    <3>1. n < Word64
      <4>1. Word64 \in Nat
        BY DEF Word64, Word32
      <4> HIDE DEF Word64
      <4> QED BY <2>3, <2>8, <2>9, <4>1
    <3>2. r.p <= e.p
      BY <1>1, <2>1, <2>3, <2>8, <3>1
    <3> QED BY <1>1, <1>3, <2>4, <2>6, <2>7, <2>8, <2>9, <3>2 DEF Fits
  <2> QED BY <1>3, <2>5, <2>6, <2>7, <2>8, <2>9
<1> QED BY <1>1, <1>2, <1>3

-----------------------------------------------------------------------------
(* Values, fields and lists *)

LEMMA WireTypes ==
    ASSUME NEW type \in Scalar
    PROVE  WireType[type] \in 0 .. 7
BY DEF WireType, Scalar, VARINT, BITS64, LENGTH, BITS32

\* A number's bytes, and those of a binary behind its length.
LEMMA NumberBytes ==
    ASSUME NEW t \in Term, t[1] = "int"
    PROVE  /\ Varint(t[2]) \in Seq(0 .. 255) /\ Len(Varint(t[2])) \in Nat
           /\ Sized => Len(Varint(t[2])) <= Gap
<1>1. t[2] \in Nat /\ (Sized => t[2] < Word64)
  BY Terms DEF Sized
<1>2. Varint(t[2]) \in Seq(0 .. 255)
  BY <1>1, VarintBytes
<1>3. Sized => Len(Varint(t[2])) <= Gap
  BY <1>1, VarintLength DEF Within
<1> QED BY <1>2, <1>3

LEMMA BinaryBytes ==
    ASSUME NEW t \in Term, t[1] = "bin"
    PROVE  /\ t[2] \in Seq(0 .. 255) /\ Len(t[2]) \in Nat
           /\ Varint(Len(t[2])) \in Seq(0 .. 255) /\ Len(Varint(Len(t[2]))) \in Nat
           /\ Sized => Len(Varint(Len(t[2]))) <= 5
           /\ Varint(Len(t[2])) \o t[2] \in Seq(0 .. 255)
           /\ Len(Varint(Len(t[2])) \o t[2]) = Len(Varint(Len(t[2]))) + Len(t[2])
<1>1. t[2] \in Seq(0 .. 255) /\ (Sized => Len(t[2]) < Word32)
  BY Terms DEF Sized
<1>2. PICK n \in Nat : n = Len(t[2])
  BY <1>1
<1>3. Varint(n) \in Seq(0 .. 255) /\ Len(Varint(n)) \in Nat
  BY VarintBytes
<1>4. Sized => Len(Varint(n)) <= 5
  <2>1. Word32 <= 8 * Word32 /\ Word32 \in Nat
    BY DEF Word32
  <2> HIDE DEF Word32
  <2>2. Sized => n < 8 * Word32
    BY <1>1, <1>2, <2>1
  <2> QED BY <2>2, VarintLength DEF Within
<1>5. Varint(n) \o t[2] \in Seq(0 .. 255) /\ Len(Varint(n) \o t[2]) = Len(Varint(n)) + Len(t[2])
  BY <1>1, <1>3, Joined
<1> QED BY <1>1, <1>2, <1>3, <1>4, <1>5

\* A value, or an exception.
LEMMA PackValueWrote ==
    ASSUME NEW e \in Buf, NEW f, NEW t \in Term
    PROVE  Wrote(e, PackValue(e, f, t))
<1> DEFINE r == PackValue(e, f, t)
<1>1. CASE ~IsOf(f.type, t)
  <2>1. r = Refuse(e)
    BY <1>1 DEF PackValue
  <2> QED BY <2>1, StoppedThere DEF Refuse
<1>2. CASE IsOf(f.type, t) /\ f.occ = "defaulty" /\ t = Zero(f.type)
  <2>1. r = e
    BY <1>2 DEF PackValue
  <2> QED BY <2>1, WroteItself
<1>3. CASE IsOf(f.type, t) /\ ~(f.occ = "defaulty" /\ t = Zero(f.type))
  <2>1. CASE f.type = "varint"
    <3>1. r = Emit(Reserve(e, Gap), Varint(t[2]))
      BY <1>3, <2>1 DEF PackValue
    <3>2. t[1] = "int"
      BY <1>3, <2>1 DEF IsOf
    <3>3. Gap \in Nat
      BY DEF Gap
    <3> QED BY <3>1, <3>2, <3>3, NumberBytes, ReserveEmit
  <2>2. CASE f.type \in {"bits64", "bits32"}
    <3>1. r = Emit(Reserve(e, Len(t[2])), t[2])
      BY <1>3, <2>2 DEF PackValue
    <3>2. t[1] = "bin"
      BY <1>3, <2>2 DEF IsOf
    <3>3. t[2] \in Seq(0 .. 255) /\ Len(t[2]) \in Nat
      BY <3>2, BinaryBytes
    <3> QED BY <3>1, <3>3, ReserveEmit
  <2>3. CASE f.type = "bytes" /\ t[2] = <<>>
    <3>1. r = Emit(Reserve(e, 1), <<0>>)
      BY <1>3, <2>3 DEF PackValue
    <3>2. <<0>> \in Seq(0 .. 255) /\ Len(<<0>>) = 1
      OBVIOUS
    <3> DEFINE bytes == <<0>>
    <3>3. bytes \in Seq(0 .. 255) /\ Len(bytes) <= 1
      BY <3>2
    <3> HIDE DEF bytes
    <3>4. Wrote(e, Emit(Reserve(e, 1), bytes))
      BY <3>3, ReserveEmit
    <3> QED BY <3>1, <3>4 DEF bytes
  <2>4. CASE f.type = "bytes" /\ t[2] # <<>>
    <3> DEFINE bytes == Varint(Len(t[2])) \o t[2]
               n == Gap + Len(t[2])
    <3>1. r = Emit(Reserve(e, n), bytes)
      BY <1>3, <2>4 DEF PackValue
    <3>2. t[1] = "bin"
      BY <1>3, <2>4 DEF IsOf
    <3>3. /\ Len(t[2]) \in Nat /\ Len(Varint(Len(t[2]))) \in Nat
          /\ Sized => Len(Varint(Len(t[2]))) <= 5
          /\ bytes \in Seq(0 .. 255)
          /\ Len(bytes) = Len(Varint(Len(t[2]))) + Len(t[2])
      BY <3>2, BinaryBytes
    <3> HIDE DEF bytes
    <3>4. n \in Nat /\ (Sized => Len(bytes) <= n)
      BY <3>3 DEF Gap
    <3> HIDE DEF n
    <3> QED BY <3>1, <3>3, <3>4, ReserveEmit
  <2>5. f.type \in {"varint", "bits64", "bits32", "bytes"}
    BY <1>3 DEF IsOf
  <2> QED BY <2>1, <2>2, <2>3, <2>4, <2>5
<1> QED BY <1>1, <1>2, <1>3

\* A field; without a value its tag is taken back.
LEMMA PackFieldWrote ==
    ASSUME NEW e \in Buf, NEW f, f.fnum \in FieldNumber, f.type \in Scalar, NEW t \in Term
    PROVE  Wrote(e, PackField(e, f, t))
<1> DEFINE tag == Tagged(e, f.fnum, WireType[f.type])
           value == PackValue(tag, f, t)
           r == [value EXCEPT !.p = e.p]
<1>1. /\ Wrote(e, tag) /\ tag.ok = e.ok
      /\ e.ok => tag.p <= Len(tag.mem)
  BY WireTypes, TaggedBytes
<1> HIDE DEF tag
<1>2. tag \in Buf
  BY <1>1 DEF Wrote
<1>3. Wrote(tag, value)
  BY <1>2, PackValueWrote
<1> HIDE DEF value
<1>4. Wrote(e, value)
  BY <1>1, <1>3, WroteOn
<1>5. CASE ~(value.ok /\ value.p = tag.p)
  <2>1. PackField(e, f, t) = value
    BY <1>5 DEF PackField, tag, value
  <2> QED BY <1>4, <2>1
<1>6. CASE value.ok /\ value.p = tag.p
  <2>1. PackField(e, f, t) = r
    BY <1>6 DEF PackField, tag, value
  <2>2. value \in Buf /\ value \in Buffer /\ value.size > 0
    BY <1>4, BufTypes DEF Wrote, Buf
  <2>3. /\ e.p \in Nat /\ tag.p \in Nat /\ Len(tag.mem) \in Nat /\ Len(value.mem) \in Nat
        /\ value.cap \in Nat /\ Len(e.mem) \in Nat
    BY <1>2, <2>2, BufTypes
  <2>4. /\ r \in Buffer /\ r.p = e.p /\ r.ok = value.ok /\ r.left = value.left
        /\ r.size = value.size /\ r.cap = value.cap /\ r.end = value.end /\ r.mem = value.mem
        /\ r.strayed = value.strayed
    BY <2>2, <2>3 DEF Buffer
  <2> HIDE DEF r
  <2>5. e.p <= tag.p /\ tag.p <= Len(value.mem)
    <3>1. value.p <= Len(value.mem) \/ (value.p = tag.p /\ Len(tag.mem) <= Len(value.mem))
      BY <1>3 DEF Wrote
    <3>2. tag.p <= Len(tag.mem)
      BY <1>1, <1>3, <1>6 DEF Wrote
    <3> QED BY <1>1, <1>6, <2>3, <3>1, <3>2 DEF Wrote
  <2>6. r.p <= Len(r.mem)
    BY <2>3, <2>4, <2>5
  <2>7. Sized /\ Fits(e) => Fits(r)
    <3>1. Fits(value) => e.p <= value.cap
      BY <1>6, <2>3, <2>5 DEF Fits
    <3> QED BY <1>4, <2>4, <3>1 DEF Fits, Wrote
  <2>8. Wrote(e, r)
    <3>1. r \in Buf /\ e.p <= r.p /\ (r.ok => e.ok) /\ (e.left = 0 => r.left = 0)
      BY <1>4, <2>2, <2>3, <2>4 DEF Wrote, Buf
    <3> QED BY <2>6, <2>7, <3>1 DEF Wrote
  <2> QED BY <2>1, <2>8
<1> QED BY <1>5, <1>6

LEMMA PackEachWrote ==
    ASSUME NEW e \in Buf, NEW f, f.fnum \in FieldNumber, f.type \in Scalar, NEW terms \in Seq(Term)
    PROVE  Wrote(e, PackEach(e, f, terms))
<1> DEFINE V == {r \in Buf : Wrote(e, r)}
<1>1. e \in V
  BY WroteItself
<1>2. ASSUME NEW x \in V, NEW t \in Term PROVE PackElement(x, f, t) \in V
  <2>1. x \in Buf /\ Wrote(e, x)
    OBVIOUS
  <2>2. Wrote(x, PackElement(x, f, t))
    BY <2>1, PackFieldWrote, StoppedThere DEF PackElement, Refuse
  <2>3. Wrote(e, PackElement(x, f, t))
    BY <2>1, <2>2, WroteOn
  <2> QED BY <2>3 DEF Wrote
<1>3. PackEach(e, f, terms) \in V
  <2> HIDE DEF V
  <2> QED BY <1>1, <1>2, EachFold
<1> QED BY <1>3

\* An unknown item, the start or end of a group, or an exception.
LEMMA PackLeafWrote ==
    ASSUME NEW e \in Buf, NEW leaf \in Leaf
    PROVE  Wrote(e, PackLeaf(e, leaf))
<1> DEFINE r == PackLeaf(e, leaf)
<1>1. CASE leaf = Stray
  <2>1. r = Refuse(e)
    <3>1. leaf[1] = "stray"
      BY <1>1 DEF Stray
    <3> QED BY <1>1, <3>1 DEF PackLeaf
  <2> QED BY <2>1, StoppedThere DEF Refuse
<1>2. CASE leaf \in {"start", "end"} \X FieldNumber
  <2>1. PICK what \in {"start", "end"}, fnum \in FieldNumber : leaf = <<what, fnum>>
    BY <1>2
  <2>2. leaf # Stray
    BY <2>1 DEF Stray
  <2>3. r = Tagged(e, fnum, SGROUP) \/ r = Tagged(e, fnum, EGROUP)
    BY <2>1, <2>2 DEF PackLeaf
  <2>4. SGROUP \in 0 .. 7 /\ EGROUP \in 0 .. 7
    BY DEF SGROUP, EGROUP
  <2> QED BY <2>3, <2>4, TaggedBytes
<1>3. CASE leaf \in Term /\ IsItem(leaf)
  <2> DEFINE Known == \E type \in Scalar : leaf[2][1] = Atom(type)
             fnum == leaf[2][2][2]
             type == leaf[2][1][2]
             t == leaf[2][3]
             tag == Tagged(e, fnum, WireType[type])
  <2>1. leaf[1] = "tuple" /\ fnum \in FieldNumber /\ t \in Term
    BY <1>3, ItemParts
  <2>2. leaf # Stray
    BY <2>1 DEF Stray
  <2>3. CASE ~Known
    <3>1. r = Refuse(PackTag(e, fnum))
      BY <2>1, <2>2, <2>3 DEF PackLeaf
    <3> DEFINE p == PackTag(e, fnum)
    <3>2. Wrote(e, p)
      BY <2>1, TagBytes
    <3> HIDE DEF p
    <3>3. p \in Buf
      BY <3>2 DEF Wrote
    <3>4. Wrote(p, Refuse(p))
      BY <3>3, StoppedThere DEF Refuse
    <3> QED BY <3>1, <3>2, <3>4, WroteOn DEF p
  <2>4. CASE Known
    <3>1. type \in Scalar
      BY <2>4 DEF Atom
    <3>2. /\ Wrote(e, tag) /\ tag.ok = e.ok
          /\ Fits(e) /\ e.ok => e.p + Gap <= tag.cap
          /\ Sized => tag.p <= e.p + 5
      BY <2>1, <3>1, WireTypes, TaggedBytes
    <3>3. r = CASE ~IsOf(type, t) -> Refuse(tag)
               [] IsOf(type, t) /\ type = "varint" -> Emit(Reserve(tag, Gap), Varint(t[2]))
               [] IsOf(type, t) /\ type = "bytes" ->
                    LET length == Emit(tag, Varint(Len(t[2]))) IN Emit(Reserve(length, Len(t[2])), t[2])
               [] OTHER -> Emit(Reserve(tag, Len(t[2])), t[2])
      BY <2>1, <2>2, <2>4 DEF PackLeaf
    <3> HIDE DEF tag, type, t
    <3>4. tag \in Buf /\ tag.p \in Nat /\ tag.cap \in Nat /\ e.p \in Nat
      BY <3>2, BufTypes DEF Wrote
    <3>5. CASE ~IsOf(type, t)
      <4>1. Wrote(tag, Refuse(tag))
        BY <3>4, StoppedThere DEF Refuse
      <4>2. r = Refuse(tag)
        BY <3>3, <3>5
      <4> QED BY <3>2, <4>1, <4>2, WroteOn
    <3>6. CASE IsOf(type, t) /\ type = "varint"
      <4>1. r = Emit(Reserve(tag, Gap), Varint(t[2]))
        BY <3>3, <3>6
      <4>2. t[1] = "int"
        BY <3>6 DEF IsOf
      <4>3. Gap \in Nat
        BY DEF Gap
      <4>4. Wrote(tag, r)
        BY <2>1, <3>4, <4>1, <4>2, <4>3, NumberBytes, ReserveEmit
      <4> QED BY <3>2, <4>4, WroteOn
    <3>7. CASE IsOf(type, t) /\ type = "bytes"
      <4> DEFINE bytes == Varint(Len(t[2]))
                 length == Emit(tag, bytes)
      <4>1. r = Emit(Reserve(length, Len(t[2])), t[2])
        BY <3>3, <3>7
      <4>2. t[1] = "bin"
        BY <3>7 DEF IsOf
      <4>3. /\ t[2] \in Seq(0 .. 255) /\ Len(t[2]) \in Nat
            /\ bytes \in Seq(0 .. 255) /\ Len(bytes) \in Nat
            /\ Sized => Len(bytes) <= 5
        BY <2>1, <4>2, BinaryBytes
      <4> HIDE DEF bytes
      <4>4. Sized /\ Fits(e) /\ tag.ok => tag.p + Len(bytes) <= tag.cap
        BY <3>2, <3>4, <4>3 DEF Gap
      <4>5. Wrote(e, length)
        BY <3>2, <4>3, <4>4, EmitWrote
      <4> HIDE DEF length
      <4>6. length \in Buf
        BY <4>5 DEF Wrote
      <4>7. Wrote(length, r)
        BY <4>1, <4>3, <4>6, ReserveEmit
      <4> QED BY <4>5, <4>7, WroteOn
    <3>8. CASE IsOf(type, t) /\ type \notin {"varint", "bytes"}
      <4>1. r = Emit(Reserve(tag, Len(t[2])), t[2])
        BY <3>3, <3>8
      <4>2. t[1] = "bin"
        BY <3>1, <3>8 DEF IsOf, Scalar
      <4>3. t[2] \in Seq(0 .. 255) /\ Len(t[2]) \in Nat
        BY <2>1, <4>2, BinaryBytes
      <4>4. Wrote(tag, r)
        BY <3>4, <4>1, <4>3, ReserveEmit
      <4> QED BY <3>2, <4>4, WroteOn
    <3> QED BY <3>5, <3>6, <3>7, <3>8
  <2> QED BY <2>3, <2>4
<1> QED BY <1>1, <1>2, <1>3 DEF Leaf

LEMMA PackUnknownWrote ==
    ASSUME NEW e \in Buf, NEW t \in Term, NEW pass \in BOOLEAN
    PROVE  Wrote(e, PackUnknown(e, t, pass))
<1>1. CASE ~IsList(t)
  <2>1. PackUnknown(e, t, pass) = Refuse(e)
    BY <1>1 DEF PackUnknown
  <2> QED BY <2>1, StoppedThere DEF Refuse
<1>2. CASE IsList(t)
  <2> DEFINE V == {r \in Buf : Wrote(e, r)}
             leaves == Leaves(t[2], pass)
  <2>1. leaves \in Seq(Leaf)
    BY <1>2, Terms, LeavesOfItems DEF IsList
  <2>2. e \in V
    BY WroteItself
  <2>3. ASSUME NEW x \in V, NEW leaf \in Leaf PROVE PackLeaf(x, leaf) \in V
    <3>1. x \in Buf /\ Wrote(e, x)
      OBVIOUS
    <3>2. Wrote(x, PackLeaf(x, leaf))
      BY <3>1, PackLeafWrote
    <3>3. Wrote(e, PackLeaf(x, leaf))
      BY <3>1, <3>2, WroteOn
    <3> QED BY <3>3 DEF Wrote
  <2>4. PackUnknown(e, t, pass) = FoldLeft(PackLeaf, e, leaves)
    BY <1>2 DEF PackUnknown
  <2>5. FoldLeft(PackLeaf, e, leaves) \in V
    <3> HIDE DEF V, leaves
    <3> QED BY <2>1, <2>2, <2>3, LeafFold
  <2> QED BY <2>4, <2>5
<1> QED BY <1>1, <1>2

\* The same with a length among what was written, which ten bytes have to hold.
Moved(e, r) ==
    /\ r \in Buf
    /\ r.ok => e.ok
    /\ e.p <= r.p
    /\ r.ok => r.p <= Len(r.mem) \/ (r.p = e.p /\ Len(e.mem) <= Len(r.mem))
    /\ e.left = 0 => r.left = 0
    /\ Sized /\ Fits(e) /\ r.p < Word64 => Fits(r)

LEMMA PackRunMoved ==
    ASSUME NEW e \in Buf, NEW f, f.fnum \in FieldNumber, NEW terms \in Seq(Term)
    PROVE  Moved(e, PackRun(e, f, terms))
<1> DEFINE tag == Tagged(e, f.fnum, LENGTH)
           o == Opened(tag)
           x == PackValues(o, f, terms)
           V == {r \in Buf : Wrote(o, r)}
           r == Patched(x, tag.p)
<1>1. Wrote(e, tag)
  <2>1. LENGTH \in 0 .. 7
    BY DEF LENGTH
  <2> QED BY <2>1, TaggedBytes
<1> HIDE DEF tag
<1>2. tag \in Buf
  BY <1>1 DEF Wrote
<1>3. /\ o \in Buf /\ o.mem = tag.mem /\ (o.ok => tag.ok)
      /\ o.p = IF o.ok THEN tag.p + Gap ELSE tag.p
      /\ tag.left = 0 => o.left = 0
      /\ Fits(tag) => Fits(o)
  BY <1>2, OpenedGap
<1> HIDE DEF o
<1>4. Wrote(o, x)
  <2>1. o \in V
    BY <1>3, WroteItself
  <2>2. ASSUME NEW y \in V, NEW t \in Term PROVE PackValue(y, f, t) \in V
    <3>1. y \in Buf /\ Wrote(o, y)
      OBVIOUS
    <3>2. Wrote(y, PackValue(y, f, t))
      BY <3>1, PackValueWrote
    <3>3. Wrote(o, PackValue(y, f, t))
      BY <1>3, <3>1, <3>2, WroteOn
    <3> QED BY <3>3 DEF Wrote
  <2>3. x \in V
    <3> HIDE DEF V
    <3> QED BY <2>1, <2>2, RunFold
  <2> QED BY <2>3
<1>5. PackRun(e, f, terms) = r
  BY DEF PackRun, PackValues, tag, o
<1> HIDE DEF x
<1>6. x \in Buf
  BY <1>4 DEF Wrote
<1>7. /\ e.p \in Nat /\ tag.p \in Nat /\ o.p \in Nat /\ x.p \in Nat /\ Gap \in Nat
      /\ e.ok \in BOOLEAN /\ o.ok \in BOOLEAN /\ x.ok \in BOOLEAN
      /\ Len(e.mem) \in Nat /\ Len(tag.mem) \in Nat /\ Len(o.mem) \in Nat /\ Len(x.mem) \in Nat
  BY <1>2, <1>3, <1>6, BufTypes DEF Gap
<1>8. CASE o.ok
  <2>1. tag.p + Gap <= x.p
    BY <1>3, <1>4, <1>8 DEF Wrote
  <2>2. Solid(x, tag.p)
    BY <1>3, <1>4, <1>8 DEF Wrote, Solid
  <2> DEFINE at == tag.p
  <2>3. at \in Nat /\ at + Gap <= x.p /\ Solid(x, at)
    BY <1>7, <2>1, <2>2
  <2>4. /\ r \in Buf /\ r.ok = x.ok /\ r.left = x.left
        /\ at < r.p
        /\ r.ok => r.p <= Len(r.mem)
        /\ Fits(x) /\ r.p < Word64 => Fits(r)
    <3> HIDE DEF at
    <3>1. LET s == Patched(x, at)
          IN  /\ s \in Buf /\ s.ok = x.ok /\ s.left = x.left
              /\ at < s.p
              /\ s.ok => s.p <= Len(s.mem)
              /\ Fits(x) /\ s.p < Word64 => Fits(s)
      BY <1>6, <2>3, PatchedGap
    <3> QED BY <3>1 DEF at
  <2>5. r.p \in Nat /\ Len(r.mem) \in Nat /\ r.ok \in BOOLEAN
    BY <2>4, BufTypes
  <2> HIDE DEF r
  <2>7. e.p <= r.p
    BY <1>1, <1>7, <2>4, <2>5 DEF Wrote
  <2>8. r.ok => r.p <= Len(r.mem)
    BY <2>4
  <2>9. Sized /\ Fits(e) /\ r.p < Word64 => Fits(r)
    BY <1>1, <1>3, <1>4, <2>4 DEF Wrote
  <2> QED BY <1>1, <1>3, <1>4, <1>5, <2>4, <2>7, <2>8, <2>9 DEF Moved, Wrote
<1>9. CASE ~o.ok
  <2>1. Wrote(tag, o)
    BY <1>3, <1>7, <1>9 DEF Wrote
  <2>2. Wrote(e, x)
    BY <1>1, <1>4, <2>1, <1>2, WroteOn
  <2>3. r = x
    BY <1>4, <1>9 DEF Patched, Wrote
  <2> QED BY <1>5, <2>2, <2>3 DEF Wrote, Moved
<1> QED BY <1>8, <1>9

-----------------------------------------------------------------------------
(* The inductive invariant *)

KnownField == UNION {Schema[n].fields : n \in Node}

\* A spot, those above sp included: they keep what they held.
AnySpot == [kind : {"tuple", "list"}, node : Node \cup {NoNode},
            field : KnownField \cup {NoField}, array : Seq(Term), pos : Nat,
            list : Seq(Term), need : BOOLEAN, at : Nat]

\* A spot in use.
Live(s) ==
    /\ s \in AnySpot
    /\ s.kind = "tuple" => s.node \in Node /\ Len(s.array) = Size(s.node) /\ s.pos <= Size(s.node)
    /\ s.kind = "list" => ~s.need /\ s.field \in KnownField /\ s.field.type \in NodeKind
    /\ s.need => Schema[s.node].kind # "group"

\* The message of the call is at the bottom; nothing above k waits for a length,
\* for a spot becomes a list without its need being set.
Stacked(st, k) ==
    /\ st \in Seq(AnySpot) /\ k \in 1 .. Len(st)
    /\ \A i \in 1 .. k : Live(st[i])
    /\ st[1].kind = "tuple" /\ ~st[1].need /\ st[1].field = NoField
    /\ \A i \in 1 .. Len(st) : i > k => ~st[i].need

\* The gaps nest, the writer e is behind them, and what was not written yet is
\* the payload of a gap just left.
Gapped(st, k, e) ==
    /\ \A i \in 1 .. k : st[i].need => st[i].at + Gap <= e.p
    /\ \A i, j \in 1 .. k : i < j /\ st[i].need /\ st[j].need =>
        /\ st[i].at + Gap <= st[j].at
        /\ Failing = {0} => st[i].at + Gap < st[j].at
    /\ e.p <= Len(e.mem) \/ \E i \in 1 .. k : st[i].need /\ e.p = st[i].at + Gap

EInv ==
    /\ message = NoTerm \/ message \in Message
    /\ todo \in Seq(Message)
    /\ enc \in Buf
    /\ Failing = {0} => enc.left = 0
    /\ stack \in Seq(AnySpot) /\ Len(stack) > 0
    /\ sp \in 0 .. Len(stack)
    /\ status \in {"idle", "run", "done", "error"}
    /\ status = "run" => enc.ok /\ Stacked(stack, sp) /\ Gapped(stack, sp, enc)

-----------------------------------------------------------------------------
(* What the schema says of fields *)

LEMMA KnownFields ==
    ASSUME NEW f \in KnownField
    PROVE  /\ f \in Field /\ f.fnum \in FieldNumber /\ f.type \in Scalar \cup NodeKind
           /\ f.type \in NodeKind => f.sub \in Node /\ Schema[f.sub].kind = f.type
<1>1. PICK n \in Node : f \in Schema[n].fields
  BY DEF KnownField
<1>2. /\ f \in Field /\ f.type \in Scalar \cup NodeKind
      /\ f.type \in NodeKind => f.sub \in Node
  BY <1>1, SchemaAssumption
<1>3. f.type \in NodeKind => Schema[f.sub].kind = f.type
  BY <1>1, KindAssumption
<1>4. f.fnum \in Nat /\ (Sized => f.fnum < Word32)
  BY <1>1, <1>2 DEF Field, Sized
<1> QED BY <1>2, <1>3, <1>4 DEF FieldNumber

LEMMA Sizes ==
    ASSUME NEW n \in Node
    PROVE  /\ Size(n) \in Nat /\ Schema[n].slots \in Seq(Field)
           /\ \A i \in 1 .. Size(n) : Schema[n].slots[i] \in Field
BY SchemaAssumption, ElementOfSeq DEF Size

LEMMA SlotKnown ==
    ASSUME NEW n \in Node, NEW i \in 1 .. Size(n), Schema[n].slots[i].type # "unknown"
    PROVE  LET f == Schema[n].slots[i]
           IN  IF f.type = "oneof" THEN f.occ # "repeated" ELSE f \in KnownField
<1>1. DOMAIN Schema[n].slots = 1 .. Size(n)
  BY SchemaAssumption DEF Size
<1>2. LET f == Schema[n].slots[i]
      IN  IF f.type = "oneof" THEN f.occ # "repeated"
          ELSE f \in Schema[n].fields \/ f.type = "unknown"
  BY <1>1, SchemaAssumption
<1> QED BY <1>2 DEF KnownField

LEMMA NoFieldType ==
    /\ NoField.type = "none" /\ NoField.type \notin Scalar \cup NodeKind
    /\ NoField \notin KnownField
<1>1. NoField.type = "none" /\ NoField.type \notin Scalar \cup NodeKind
  BY DEF NoField, Scalar, NodeKind
<1> QED BY <1>1, KnownFields

-----------------------------------------------------------------------------
(* The stack *)

SameGaps(st, s, k) == \A i \in 1 .. k : s[i].need = st[i].need /\ s[i].at = st[i].at

LEMMA SpotTypes ==
    ASSUME NEW s \in AnySpot
    PROVE  /\ s.kind \in {"tuple", "list"} /\ s.node \in Node \cup {NoNode}
           /\ s.field \in KnownField \cup {NoField} /\ s.array \in Seq(Term) /\ s.pos \in Nat
           /\ s.list \in Seq(Term) /\ s.need \in BOOLEAN /\ s.at \in Nat
BY DEF AnySpot

\* Another spot in use in the place of the topmost one.
LEMMA TopReplaced ==
    ASSUME NEW st, NEW k, Stacked(st, k), NEW s, Live(s),
           s.kind = st[k].kind, s.need = st[k].need, s.at = st[k].at, s.field = st[k].field
    PROVE  LET r == [st EXCEPT ![k] = s]
           IN  Stacked(r, k) /\ SameGaps(st, r, k) /\ Len(r) = Len(st) /\ r[k] = s
<1> DEFINE r == [st EXCEPT ![k] = s]
<1>1. st \in Seq(AnySpot) /\ k \in 1 .. Len(st) /\ Len(st) \in Nat /\ s \in AnySpot
  BY DEF Stacked, Live
<1>2. PICK n \in Nat : n = Len(st) /\ k \in 1 .. n
  BY <1>1
<1>3. /\ r \in Seq(AnySpot) /\ Len(r) = n
      /\ \A i \in 1 .. n : r[i] = IF i = k THEN s ELSE st[i]
  BY <1>1, <1>2
<1> HIDE DEF r
<1>4. \A i \in 1 .. k : Live(r[i])
  BY <1>2, <1>3 DEF Stacked
<1>5. r[1].kind = "tuple" /\ ~r[1].need /\ r[1].field = NoField
  BY <1>2, <1>3 DEF Stacked
<1>6. \A i \in 1 .. n : i > k => ~r[i].need
  BY <1>2, <1>3 DEF Stacked
<1>7. SameGaps(st, r, k)
  BY <1>2, <1>3 DEF SameGaps
<1>8. Stacked(r, k)
  BY <1>2, <1>3, <1>4, <1>5, <1>6 DEF Stacked
<1> QED BY <1>2, <1>3, <1>7, <1>8 DEF r

\* One spot more in use.
LEMMA SpotPushed ==
    ASSUME NEW st, NEW k, Stacked(st, k), k + 1 <= Len(st), NEW s, Live(s)
    PROVE  LET r == [st EXCEPT ![k + 1] = s]
           IN  Stacked(r, k + 1) /\ SameGaps(st, r, k) /\ r[k + 1] = s /\ r[k] = st[k]
<1> DEFINE r == [st EXCEPT ![k + 1] = s]
<1>1. PICK n \in Nat : n = Len(st) /\ k \in 1 .. n /\ k + 1 \in 1 .. n
  BY DEF Stacked
<1>2. st \in Seq(AnySpot) /\ s \in AnySpot
  BY DEF Stacked, Live
<1>3. /\ r \in Seq(AnySpot) /\ Len(r) = n
      /\ \A i \in 1 .. n : r[i] = IF i = k + 1 THEN s ELSE st[i]
  BY <1>1, <1>2
<1> HIDE DEF r
<1>4. \A i \in 1 .. k + 1 : Live(r[i])
  BY <1>1, <1>3 DEF Stacked
<1>5. r[1] = st[1] /\ r[k] = st[k] /\ r[k + 1] = s
  BY <1>1, <1>3
<1>6. \A i \in 1 .. n : i > k + 1 => ~r[i].need
  BY <1>1, <1>3 DEF Stacked
<1>7. SameGaps(st, r, k)
  BY <1>1, <1>3 DEF SameGaps
<1>8. Stacked(r, k + 1)
  BY <1>1, <1>3, <1>4, <1>5, <1>6 DEF Stacked
<1> QED BY <1>5, <1>7, <1>8 DEF r

\* One spot less.
LEMMA SpotPopped ==
    ASSUME NEW st, NEW k, Stacked(st, k), k > 1, NEW s \in AnySpot, ~s.need
    PROVE  LET r == [st EXCEPT ![k] = s]
           IN  Stacked(r, k - 1) /\ SameGaps(st, r, k - 1)
<1> DEFINE r == [st EXCEPT ![k] = s]
<1>1. PICK n \in Nat : n = Len(st) /\ k \in 1 .. n /\ k - 1 \in 1 .. n
  BY DEF Stacked
<1>2. st \in Seq(AnySpot)
  BY DEF Stacked
<1>3. /\ r \in Seq(AnySpot) /\ Len(r) = n
      /\ \A i \in 1 .. n : r[i] = IF i = k THEN s ELSE st[i]
  BY <1>1, <1>2
<1> HIDE DEF r
<1>4. \A i \in 1 .. k - 1 : Live(r[i])
  BY <1>1, <1>3 DEF Stacked
<1>5. r[1] = st[1]
  BY <1>1, <1>3
<1>6. \A i \in 1 .. n : i > k - 1 => ~r[i].need
  BY <1>1, <1>3 DEF Stacked
<1>7. SameGaps(st, r, k - 1)
  BY <1>1, <1>3 DEF SameGaps
<1>8. Stacked(r, k - 1)
  BY <1>1, <1>3, <1>4, <1>5, <1>6 DEF Stacked
<1> QED BY <1>7, <1>8 DEF r

\* Room for one more.
LEMMA GrownStack ==
    ASSUME Stacked(stack, sp)
    PROVE  /\ Stacked(Grown, sp) /\ SameGaps(stack, Grown, sp)
           /\ sp + 1 <= Len(Grown) /\ Grown[sp] = stack[sp]
<1>1. PICK n \in Nat : n = Len(stack) /\ sp \in 1 .. n /\ DOMAIN stack = 1 .. n
  BY DEF Stacked
<1>2. CASE sp # n
  <2>1. Grown = stack
    BY <1>1, <1>2 DEF Grown, Full
  <2> QED BY <1>1, <1>2, <2>1 DEF SameGaps
<1>3. CASE sp = n
  <2> DEFINE zeros == [i \in 1 .. n |-> ZeroSpot]
             r == stack \o zeros
  <2>1. Grown = r
    BY <1>1, <1>3 DEF Grown, Full
  <2>2. ZeroSpot \in AnySpot /\ ~ZeroSpot.need
    BY DEF ZeroSpot, AnySpot
  <2>3. zeros \in Seq(AnySpot) /\ Len(zeros) = n /\ \A i \in 1 .. n : zeros[i] = ZeroSpot
    <3> HIDE DEF AnySpot, ZeroSpot
    <3> QED BY <2>2
  <2>4. stack \in Seq(AnySpot)
    BY DEF Stacked
  <2> HIDE DEF zeros
  <2>5. /\ r \in Seq(AnySpot) /\ Len(r) = n + n
        /\ \A i \in 1 .. n + n : r[i] = IF i <= n THEN stack[i] ELSE zeros[i - n]
    <3>1. r \in Seq(AnySpot) /\ Len(r) = Len(stack) + Len(zeros)
      BY <2>3, <2>4, Joined
    <3>2. \A i \in 1 .. Len(stack) + Len(zeros) :
              r[i] = IF i <= Len(stack) THEN stack[i] ELSE zeros[i - Len(stack)]
      BY <2>3, <2>4, ConcatProperties
    <3> HIDE DEF r
    <3> QED BY <1>1, <2>3, <3>1, <3>2
  <2> HIDE DEF r
  <2>6. \A i \in 1 .. n : r[i] = stack[i]
    BY <2>5
  <2>7. \A i \in 1 .. n + n : i > n => ~r[i].need
    <3> TAKE i \in 1 .. n + n
    <3> HAVE i > n
    <3>1. i - n \in 1 .. n
      OBVIOUS
    <3>2. r[i] = ZeroSpot
      BY <2>3, <2>5, <3>1
    <3> QED BY <2>2, <3>2
  <2>8. Stacked(r, sp)
    BY <1>1, <1>3, <2>5, <2>6, <2>7 DEF Stacked
  <2>9. n + 1 <= n + n
    BY <1>1
  <2> QED BY <1>1, <1>3, <2>1, <2>5, <2>6, <2>8, <2>9 DEF SameGaps
<1> QED BY <1>2, <1>3

-----------------------------------------------------------------------------
(* The gaps *)

LEMMA LiveTypes ==
    ASSUME NEW st, NEW k, Stacked(st, k), NEW i \in 1 .. k
    PROVE  /\ Live(st[i]) /\ st[i] \in AnySpot /\ st[i].need \in BOOLEAN /\ st[i].at \in Nat
           /\ k \in Nat /\ i \in 1 .. Len(st)
<1>1. Live(st[i]) /\ k \in Nat /\ i \in 1 .. Len(st)
  BY DEF Stacked
<1> QED BY <1>1, SpotTypes DEF Live

\* The writer moves on.
LEMMA GapsMoved ==
    ASSUME NEW st, NEW k, Stacked(st, k), NEW s, SameGaps(st, s, k),
           NEW e \in Buf, Gapped(st, k, e), NEW r, Moved(e, r), r.ok
    PROVE  Gapped(s, k, r)
<1>1. r \in Buf /\ e.p <= r.p /\ (r.p <= Len(r.mem) \/ (r.p = e.p /\ Len(e.mem) <= Len(r.mem)))
  BY DEF Moved
<1>2. /\ e.p \in Nat /\ r.p \in Nat /\ Len(e.mem) \in Nat /\ Len(r.mem) \in Nat /\ Gap \in Nat
  BY <1>1, BufTypes DEF Gap
<1>3. \A i \in 1 .. k : st[i].at \in Nat /\ st[i].need \in BOOLEAN
  BY LiveTypes
<1>4. \A i \in 1 .. k : s[i].need => s[i].at + Gap <= r.p
  BY <1>1, <1>2, <1>3 DEF Gapped, SameGaps
<1>5. r.p <= Len(r.mem) \/ \E i \in 1 .. k : s[i].need /\ r.p = s[i].at + Gap
  <2>1. CASE e.p <= Len(e.mem)
    BY <1>1, <1>2, <2>1
  <2>2. CASE \E i \in 1 .. k : st[i].need /\ e.p = st[i].at + Gap
    BY <1>1, <1>2, <2>2 DEF SameGaps
  <2> QED BY <2>1, <2>2 DEF Gapped
<1> QED BY <1>4, <1>5 DEF Gapped, SameGaps

\* A spot that needs no length is pushed,
LEMMA GapsKept ==
    ASSUME NEW st, NEW k, Stacked(st, k), NEW s, SameGaps(st, s, k), ~s[k + 1].need,
           NEW e \in Buf, Gapped(st, k, e)
    PROVE  Gapped(s, k + 1, e)
<1>1. k \in Nat /\ \A i \in 1 .. k + 1 : s[i].need => i \in 1 .. k
  BY DEF Stacked
<1>2. \A i \in 1 .. k : i \in 1 .. k + 1
  BY <1>1
<1>3. \A i \in 1 .. k + 1 : s[i].need => s[i].at + Gap <= e.p
  BY <1>1 DEF Gapped, SameGaps
<1>4. \A i, j \in 1 .. k + 1 : i < j /\ s[i].need /\ s[j].need =>
          /\ s[i].at + Gap <= s[j].at
          /\ Failing = {0} => s[i].at + Gap < s[j].at
  BY <1>1 DEF Gapped, SameGaps
<1>5. e.p <= Len(e.mem) \/ \E i \in 1 .. k + 1 : s[i].need /\ e.p = s[i].at + Gap
  BY <1>2 DEF Gapped, SameGaps
<1> QED BY <1>3, <1>4, <1>5 DEF Gapped

\* or one with a gap where the writer is,
LEMMA GapsOpened ==
    ASSUME NEW st, NEW k, Stacked(st, k), NEW s, SameGaps(st, s, k), s[k + 1].need,
           NEW e \in Buf, Gapped(st, k, e), NEW r \in Buf,
           s[k + 1].at \in Nat, e.p <= s[k + 1].at, r.p = s[k + 1].at + Gap,
           Failing = {0} => e.p < s[k + 1].at
    PROVE  Gapped(s, k + 1, r)
<1>1. k \in Nat /\ e.p \in Nat /\ r.p \in Nat /\ Gap \in Nat
  BY BufTypes DEF Stacked, Gap
<1>2. \A i \in 1 .. k : st[i].at \in Nat
  BY LiveTypes
<1> DEFINE a == s[k + 1].at
<1>3. \A i \in 1 .. k : s[i].need => s[i].at + Gap <= e.p /\ s[i].at \in Nat
  BY <1>2 DEF Gapped, SameGaps
<1>4. \A i \in 1 .. k : s[i].need =>
          s[i].at + Gap <= a /\ (Failing = {0} => s[i].at + Gap < a) /\ s[i].at + Gap <= r.p
  BY <1>1, <1>3
<1>5. \A i \in 1 .. k + 1 : i \in 1 .. k \/ i = k + 1
  BY <1>1
<1>6. \A i \in 1 .. k + 1 : s[i].need => s[i].at + Gap <= r.p
  BY <1>1, <1>4, <1>5
<1>7. \A i, j \in 1 .. k + 1 : i < j /\ s[i].need /\ s[j].need =>
          /\ s[i].at + Gap <= s[j].at
          /\ Failing = {0} => s[i].at + Gap < s[j].at
  <2> TAKE i, j \in 1 .. k + 1
  <2> HAVE i < j /\ s[i].need /\ s[j].need
  <2>1. i \in 1 .. k
    BY <1>1
  <2>2. CASE j = k + 1
    BY <1>4, <2>1, <2>2
  <2>3. CASE j \in 1 .. k
    BY <2>1, <2>3 DEF Gapped, SameGaps
  <2> QED BY <1>5, <2>2, <2>3
<1>8. k + 1 \in 1 .. k + 1
  BY <1>1
<1> QED BY <1>6, <1>7, <1>8 DEF Gapped

\* A spot without a gap is popped,
LEMMA GapsPopped ==
    ASSUME NEW st, NEW k, Stacked(st, k), ~st[k].need, k > 1, NEW s, SameGaps(st, s, k - 1),
           NEW e \in Buf, Gapped(st, k, e)
    PROVE  Gapped(s, k - 1, e)
<1>1. k \in Nat /\ \A i \in 1 .. k : st[i].need => i \in 1 .. k - 1
  BY DEF Stacked
<1>2. \A i \in 1 .. k - 1 : i \in 1 .. k
  BY <1>1
<1>3. \A i \in 1 .. k - 1 : s[i].need => s[i].at + Gap <= e.p
  BY <1>2 DEF Gapped, SameGaps
<1>4. \A i, j \in 1 .. k - 1 : i < j /\ s[i].need /\ s[j].need =>
          /\ s[i].at + Gap <= s[j].at
          /\ Failing = {0} => s[i].at + Gap < s[j].at
  BY <1>2 DEF Gapped, SameGaps
<1>5. e.p <= Len(e.mem) \/ \E i \in 1 .. k - 1 : s[i].need /\ e.p = s[i].at + Gap
  BY <1>1 DEF Gapped, SameGaps
<1> QED BY <1>3, <1>4, <1>5 DEF Gapped

\* or one whose gap was filled: the writer is behind where it began.
LEMMA GapsClosed ==
    ASSUME NEW st, NEW k, Stacked(st, k), st[k].need, k > 1, NEW s, SameGaps(st, s, k - 1),
           NEW e \in Buf, Gapped(st, k, e), NEW r \in Buf,
           st[k].at < r.p, r.p <= Len(r.mem)
    PROVE  Gapped(s, k - 1, r)
<1>1. k \in Nat /\ r.p \in Nat /\ Gap \in Nat
  BY BufTypes DEF Stacked, Gap
<1>2. \A i \in 1 .. k : st[i].at \in Nat
  BY LiveTypes
<1>3. \A i \in 1 .. k - 1 : i \in 1 .. k /\ i < k
  BY <1>1
<1>4. k \in 1 .. k
  BY <1>1
<1>5. \A i \in 1 .. k - 1 : s[i].need => s[i].at + Gap <= r.p
  <2> TAKE i \in 1 .. k - 1
  <2> HAVE s[i].need
  <2>1. st[i].need /\ s[i].at = st[i].at
    BY DEF SameGaps
  <2>2. st[i].at + Gap <= st[k].at
    BY <1>3, <1>4, <2>1 DEF Gapped
  <2>3. st[i].at \in Nat /\ st[k].at \in Nat
    BY <1>2, <1>3, <1>4
  <2> QED BY <1>1, <2>1, <2>2, <2>3
<1>6. \A i, j \in 1 .. k - 1 : i < j /\ s[i].need /\ s[j].need =>
          /\ s[i].at + Gap <= s[j].at
          /\ Failing = {0} => s[i].at + Gap < s[j].at
  BY <1>3 DEF Gapped, SameGaps
<1> QED BY <1>5, <1>6 DEF Gapped

-----------------------------------------------------------------------------
(* Turns *)

\* What every turn leaves of the buffer.
Kept(e, r) ==
    /\ r \in Buf
    /\ e.left = 0 => r.left = 0
    /\ Sized /\ Fits(e) /\ r.p < Word64 => Fits(r)

\* The field or element that the turn was about is behind it.
Behind(st) == st[sp].pos > stack[sp].pos \/ Len(st[sp].list) < Len(stack[sp].list)

Consumed(st, k) == k < sp \/ (k \in {sp, sp + 1} /\ Behind(st))

TurnOK ==
    /\ UNCHANGED <<message, todo>>
    /\ Kept(enc, enc')
    /\ stack' \in Seq(AnySpot) /\ Len(stack') > 0 /\ sp' \in 0 .. Len(stack')
    /\ status' \in {"run", "done", "error"}
    /\ status' = "run" =>
        enc'.ok /\ Stacked(stack', sp') /\ Gapped(stack', sp', enc') /\ Consumed(stack', sp')

Running == EInv /\ status = "run"

LEMMA RunningFacts ==
    ASSUME Running
    PROVE  /\ enc \in Buf /\ enc.ok /\ Stacked(stack, sp) /\ Gapped(stack, sp, enc)
           /\ Top \in AnySpot /\ Live(Top) /\ sp \in Nat /\ stack \in Seq(AnySpot) /\ Len(stack) > 0
           /\ sp \in 1 .. Len(stack) /\ sp \in 0 .. Len(stack)
           /\ Failing = {0} => enc.left = 0
<1>1. /\ enc \in Buf /\ enc.ok /\ Stacked(stack, sp) /\ Gapped(stack, sp, enc)
      /\ stack \in Seq(AnySpot) /\ Len(stack) > 0 /\ sp \in 0 .. Len(stack)
      /\ Failing = {0} => enc.left = 0
  BY DEF Running, EInv
<1>2. sp \in 1 .. Len(stack) /\ sp \in 1 .. sp
  BY <1>1 DEF Stacked
<1>3. Live(Top) /\ Top \in AnySpot
  BY <1>1, <1>2, LiveTypes DEF Top
<1> QED BY <1>1, <1>2, <1>3

LEMMA WroteKept ==
    ASSUME NEW e, NEW r
    PROVE  /\ Wrote(e, r) => Kept(e, r) /\ Moved(e, r)
           /\ Moved(e, r) => Kept(e, r)
BY DEF Wrote, Moved, Kept

LEMMA StoppedKept ==
    ASSUME NEW e, NEW s, Kept(e, s), NEW reason \in {"alloc", "alloc_binary", "bad_term"}
    PROVE  Kept(e, Stopped(s, reason)) /\ ~Stopped(s, reason).ok
<1> DEFINE r == Stopped(s, reason)
<1>1. s \in Buf
  BY DEF Kept
<1>2. Wrote(s, r) /\ ~r.ok /\ r.p = s.p
  BY <1>1, StoppedThere
<1> HIDE DEF r
<1>3. Kept(e, r)
  BY <1>2 DEF Kept, Wrote
<1> QED BY <1>2, <1>3 DEF r

LEMMA RequireKept ==
    ASSUME NEW e, NEW s, Kept(e, s), NEW cond \in BOOLEAN
    PROVE  /\ Kept(e, Require(s, cond))
           /\ Require(s, cond).ok => cond /\ Require(s, cond) = s
<1>1. CASE cond
  BY <1>1 DEF Require
<1>2. CASE ~cond
  <2>1. Require(s, cond) = Stopped(s, "bad_term")
    BY <1>2 DEF Require, Refuse
  <2> QED BY <2>1, StoppedKept
<1> QED BY <1>1, <1>2

LEMMA RaiseTurn ==
    ASSUME Running, NEW e, Kept(enc, e), Raise(e)
    PROVE  TurnOK
<1>1. /\ status' = "error" /\ enc' = e /\ UNCHANGED <<message, stack, sp, todo>>
  BY DEF Raise
<1> QED BY <1>1, RunningFacts DEF TurnOK

LEMMA ProceedTurn ==
    ASSUME Running, NEW e, Kept(enc, e), NEW spots, NEW top, Proceed(e, spots, top),
           e.ok => Stacked(spots, top) /\ Gapped(spots, top, e) /\ Consumed(spots, top)
    PROVE  TurnOK
<1>1. CASE ~e.ok
  <2>1. Raise(e)
    BY <1>1 DEF Proceed
  <2> QED BY <2>1, RaiseTurn
<1>2. CASE e.ok
  <2>1. enc' = e /\ stack' = spots /\ sp' = top /\ UNCHANGED <<message, status, todo>>
    BY <1>2 DEF Proceed
  <2>2. /\ spots \in Seq(AnySpot) /\ Len(spots) > 0 /\ top \in 0 .. Len(spots)
    BY <1>2 DEF Stacked
  <2>3. status' = "run"
    BY <2>1 DEF Running
  <2> QED BY <1>2, <2>1, <2>2, <2>3 DEF TurnOK
<1> QED BY <1>1, <1>2

LEMMA DeniedTurn ==
    ASSUME Running, NEW e, Kept(enc, e), Denied(e)
    PROVE  TurnOK
<1>1. Raise(Stopped(e, "alloc"))
  BY DEF Denied
<1>2. Kept(enc, Stopped(e, "alloc"))
  BY StoppedKept
<1> QED BY <1>1, <1>2, RaiseTurn

-----------------------------------------------------------------------------
(* Fields *)

LEMMA FieldFacts ==
    ASSUME Running, AtField
    PROVE  /\ Top.kind = "tuple" /\ Top.node \in Node /\ Top.pos < Size(Top.node)
           /\ Slot \in Field /\ Elem \in Term
           /\ Slot.type # "unknown" =>
                IF Slot.type = "oneof" THEN Slot.occ # "repeated" ELSE Slot \in KnownField
<1>1. Top.kind = "tuple" /\ Top.pos < Size(Top.node)
  BY DEF AtField, InTuple
<1>2. /\ Top.node \in Node /\ Len(Top.array) = Size(Top.node) /\ Top.array \in Seq(Term)
      /\ Top.pos \in Nat
  BY <1>1, RunningFacts, SpotTypes DEF Live
<1>3. Size(Top.node) \in Nat
  BY <1>2, Sizes
<1>4. Top.pos + 1 \in 1 .. Size(Top.node)
  BY <1>1, <1>2, <1>3
<1>5. Elem \in Term
  BY <1>2, <1>4, ElementOfSeq DEF Elem
<1>6. Slot \in Field
  BY <1>2, <1>4, Sizes DEF Slot
<1>7. Slot.type # "unknown" =>
          IF Slot.type = "oneof" THEN Slot.occ # "repeated" ELSE Slot \in KnownField
  BY <1>2, <1>4, SlotKnown DEF Slot
<1> QED BY <1>1, <1>2, <1>5, <1>6, <1>7

\* The spot of the field is moved to the next one.
LEMMA NextField ==
    ASSUME Running, AtField, NEW st, Stacked(st, sp), SameGaps(stack, st, sp), st[sp] = Top
    PROVE  LET r == [st EXCEPT ![sp].pos = @ + 1]
           IN  /\ Stacked(r, sp) /\ SameGaps(stack, r, sp) /\ Len(r) = Len(st)
               /\ Behind(r)
<1> DEFINE s == [Top EXCEPT !.pos = Top.pos + 1]
           r == [st EXCEPT ![sp] = s]
<1>1. Live(Top) /\ Top \in AnySpot /\ sp \in 1 .. Len(stack)
  BY RunningFacts
<1>2. Top.kind = "tuple" /\ Top.node \in Node /\ Top.pos < Size(Top.node) /\ Top.pos \in Nat
      /\ Size(Top.node) \in Nat
  BY <1>1, FieldFacts, SpotTypes, Sizes
<1>3. Top.pos + 1 <= Size(Top.node) /\ Top.pos + 1 \in Nat
  BY <1>2
<1>4. /\ s \in AnySpot /\ s.kind = Top.kind /\ s.need = Top.need /\ s.at = Top.at
      /\ s.field = Top.field /\ s.node = Top.node /\ s.array = Top.array /\ s.pos = Top.pos + 1
  BY <1>1, <1>3 DEF AnySpot
<1>5. Live(s)
  BY <1>1, <1>2, <1>3, <1>4 DEF Live
<1> HIDE DEF s
<1>6. Stacked(r, sp) /\ SameGaps(st, r, sp) /\ Len(r) = Len(st) /\ r[sp] = s
  BY <1>4, <1>5, TopReplaced
<1>7. [st EXCEPT ![sp].pos = @ + 1] = r
  BY DEF s
<1> HIDE DEF r
<1>8. SameGaps(stack, r, sp)
  BY <1>6 DEF SameGaps
<1>9. Behind(r)
  BY <1>2, <1>4, <1>6 DEF Behind, Top
<1> QED BY <1>6, <1>7, <1>8, <1>9

LEMMA AdvanceTurn ==
    ASSUME Running, AtField, NEW e, Moved(enc, e), Proceed(e, Advanced, sp)
    PROVE  TurnOK
<1>1. Stacked(stack, sp) /\ SameGaps(stack, stack, sp) /\ stack[sp] = Top
  BY RunningFacts DEF SameGaps, Top
<1>2. Stacked(Advanced, sp) /\ SameGaps(stack, Advanced, sp) /\ Behind(Advanced)
  BY <1>1, NextField DEF Advanced
<1>3. e.ok => Gapped(Advanced, sp, e)
  BY <1>1, <1>2, RunningFacts, GapsMoved
<1>4. Consumed(Advanced, sp) /\ Kept(enc, e)
  BY <1>2, WroteKept DEF Consumed
<1> QED BY <1>2, <1>3, <1>4, ProceedTurn

LEMMA MovedItself ==
    ASSUME Running
    PROVE  Moved(enc, enc) /\ Kept(enc, enc)
BY RunningFacts, WroteItself, WroteKept

LEMMA OmitTurn ==
    ASSUME Running, Omit
    PROVE  TurnOK
BY MovedItself, AdvanceTurn DEF Omit

LEMMA UnknownFieldsTurn ==
    ASSUME Running, UnknownFields
    PROVE  TurnOK
<1>1. AtField
  BY DEF UnknownFields
<1>2. PICK pass \in BOOLEAN : Proceed(PackUnknown(enc, Elem, pass), Advanced, sp)
  BY DEF UnknownFields
<1>3. Elem \in Term /\ enc \in Buf
  BY <1>1, FieldFacts, RunningFacts
<1>4. Moved(enc, PackUnknown(enc, Elem, pass))
  BY <1>3, PackUnknownWrote, WroteKept
<1> QED BY <1>1, <1>2, <1>4, AdvanceTurn

LEMMA ListFieldTurn ==
    ASSUME Running, PackedField \/ RepeatedField
    PROVE  TurnOK
<1>1. AtField /\ Slot.type # "unknown" /\ Slot.occ = "repeated"
  BY DEF PackedField, RepeatedField, Present
<1>2. Slot \in KnownField /\ Elem \in Term /\ enc \in Buf
  BY <1>1, FieldFacts, RunningFacts
<1>3. Slot.fnum \in FieldNumber /\ Slot.type \in Scalar \cup NodeKind
  BY <1>2, KnownFields
<1>4. CASE ~IsList(Elem)
  <2>1. Proceed(Refuse(enc), Advanced, sp)
    BY <1>4 DEF PackedField, RepeatedField, ListField
  <2>2. Moved(enc, Refuse(enc))
    BY <1>2, StoppedThere, WroteKept DEF Refuse
  <2> QED BY <1>1, <2>1, <2>2, AdvanceTurn
<1>5. CASE IsList(Elem) /\ Elem[2] = <<>>
  <2>1. Proceed(enc, Advanced, sp)
    BY <1>5 DEF PackedField, RepeatedField, ListField
  <2> QED BY <1>1, <2>1, MovedItself, AdvanceTurn
<1>6. CASE IsList(Elem) /\ Elem[2] # <<>>
  <2>1. Elem[2] \in Seq(Term)
    BY <1>2, <1>6, Terms DEF IsList
  <2>2. CASE PackedField
    <3>1. Proceed(PackRun(enc, Slot, Elem[2]), Advanced, sp)
      BY <1>6, <2>2 DEF PackedField, ListField
    <3>2. Moved(enc, PackRun(enc, Slot, Elem[2]))
      BY <1>2, <1>3, <2>1, PackRunMoved
    <3> QED BY <1>1, <3>1, <3>2, AdvanceTurn
  <2>3. CASE RepeatedField
    <3>1. Proceed(PackEach(enc, Slot, Elem[2]), Advanced, sp)
      BY <1>6, <2>3 DEF RepeatedField, ListField
    <3>2. Slot.type \in Scalar
      BY <1>3, <2>3 DEF RepeatedField
    <3>3. Moved(enc, PackEach(enc, Slot, Elem[2]))
      BY <1>2, <1>3, <2>1, <3>2, PackEachWrote, WroteKept
    <3> QED BY <1>1, <3>1, <3>3, AdvanceTurn
  <2> QED BY <2>2, <2>3
<1> QED BY <1>4, <1>5, <1>6

\* The alternative of a oneof is a field of the message, its value a term.
LEMMA SingleFacts ==
    ASSUME Running, Single
    PROVE  /\ AtField
           /\ Chosen # NoField => Chosen \in KnownField /\ Given \in Term
<1>1. AtField /\ Slot.type # "unknown"
  BY DEF Single, Present
<1>2. /\ Top.node \in Node /\ Elem \in Term
      /\ Slot.type # "oneof" => Slot \in KnownField
  BY <1>1, FieldFacts
<1>3. CASE Slot.type # "oneof"
  BY <1>1, <1>2, <1>3 DEF Chosen, Given
<1>4. CASE Slot.type = "oneof"
  <2>1. CASE Alternatives = {}
    BY <1>1, <1>4, <2>1 DEF Chosen
  <2>2. CASE Alternatives # {}
    <3>1. Chosen \in Alternatives
      BY <1>4, <2>2 DEF Chosen
    <3>2. Chosen \in Schema[Top.node].fields /\ IsTuple(Elem) /\ Len(Elem[2]) = 2
      BY <3>1 DEF Alternatives
    <3>3. Elem[2] \in Seq(Term)
      BY <1>2, <3>2, Terms DEF IsTuple
    <3>4. Elem[2][2] \in Term
      BY <3>2, <3>3, ElementOfSeq
    <3>5. Chosen \in KnownField
      BY <1>2, <3>2 DEF KnownField
    <3> QED BY <1>1, <1>4, <3>4, <3>5 DEF Given
  <2> QED BY <2>1, <2>2
<1> QED BY <1>3, <1>4

LEMMA BadOneofTurn ==
    ASSUME Running, BadOneof
    PROVE  TurnOK
<1>1. Raise(Refuse(enc))
  BY DEF BadOneof
<1>2. Kept(enc, Refuse(enc))
  BY MovedItself, StoppedKept DEF Refuse
<1> QED BY <1>1, <1>2, RaiseTurn

LEMMA ScalarFieldTurn ==
    ASSUME Running, ScalarField
    PROVE  TurnOK
<1>1. /\ Single /\ Chosen.type \in Scalar
      /\ Proceed(PackField(enc, Chosen, Given), Advanced, sp)
  BY DEF ScalarField
<1>2. Chosen # NoField
  BY <1>1, NoFieldType
<1>3. AtField /\ Chosen \in KnownField /\ Given \in Term
  BY <1>1, <1>2, SingleFacts
<1>4. Chosen.fnum \in FieldNumber /\ enc \in Buf
  BY <1>3, KnownFields, RunningFacts
<1>5. Moved(enc, PackField(enc, Chosen, Given))
  BY <1>1, <1>3, <1>4, PackFieldWrote, WroteKept
<1> QED BY <1>1, <1>3, <1>5, AdvanceTurn

-----------------------------------------------------------------------------
(* Spots for messages *)

\* The spot of a message, an entry or a group.
LEMMA OccupiedLive ==
    ASSUME NEW b \in AnySpot, NEW f \in KnownField, f.type \in NodeKind, NEW t \in Term, Suits(f, t)
    PROVE  LET o == Occupied(b, f, t)
           IN  /\ o \in AnySpot /\ o.kind = "tuple" /\ o.node \in Node
               /\ Len(o.array) = Size(o.node) /\ o.pos = 0
               /\ Schema[o.node].kind = f.type
<1> DEFINE array == IF f.type = "map" THEN t[2] ELSE Tail(t[2])
           o == Occupied(b, f, t)
<1>1. f.sub \in Node /\ Schema[f.sub].kind = f.type
  BY KnownFields
<1>2. IsTuple(t)
  BY DEF Suits, Named
<1>3. t[2] \in Seq(Term)
  BY <1>2, Terms DEF IsTuple
<1>4. PICK n \in Nat : n = Size(f.sub)
  BY <1>1, Sizes
<1>5. array \in Seq(Term) /\ Len(array) = Size(f.sub)
  <2>1. CASE f.type = "map"
    BY <1>3, <2>1 DEF Suits
  <2>2. CASE f.type # "map"
    <3>1. Len(t[2]) = n + 1
      BY <1>4, <2>2 DEF Suits, Named
    <3>2. t[2] # <<>>
      BY <1>3, <1>4, <3>1
    <3>3. Tail(t[2]) \in Seq(Term) /\ Len(Tail(t[2])) = n
      BY <1>3, <1>4, <3>1, <3>2
    <3> QED BY <1>4, <2>2, <3>3
  <2> QED BY <2>1, <2>2
<1>6. o = [b EXCEPT !.kind = "tuple", !.node = f.sub, !.pos = 0, !.array = array]
  BY DEF Occupied
<1> HIDE DEF o, array
<1>7. /\ o \in AnySpot /\ o.kind = "tuple" /\ o.node = f.sub /\ o.pos = 0 /\ o.array = array
  BY <1>1, <1>5, <1>6 DEF AnySpot
<1> QED BY <1>1, <1>5, <1>7 DEF o

\* The stack below a new spot: the turn's field or element is behind it.
Below(b) ==
    Stacked(b, sp) /\ SameGaps(stack, b, sp) /\ sp + 1 <= Len(b) /\ Behind(b)

Entered == [Grown EXCEPT ![sp].pos = @ + 1]

LEMMA EnteredBelow ==
    ASSUME Running, AtField
    PROVE  Below(Entered)
<1>1. /\ Stacked(Grown, sp) /\ SameGaps(stack, Grown, sp)
      /\ sp + 1 <= Len(Grown) /\ Grown[sp] = Top
  BY RunningFacts, GrownStack DEF Top
<1>2. /\ Stacked(Entered, sp) /\ SameGaps(stack, Entered, sp)
      /\ Len(Entered) = Len(Grown) /\ Behind(Entered)
  BY <1>1, NextField DEF Entered
<1> QED BY <1>1, <1>2 DEF Below

LEMMA BelowSpot ==
    ASSUME Running, NEW b, Below(b)
    PROVE  b[sp + 1] \in AnySpot /\ ~b[sp + 1].need
<1>1. PICK n \in Nat : n = Len(b) /\ sp \in 1 .. n /\ sp + 1 \in 1 .. n
  BY DEF Below, Stacked
<1>2. b \in Seq(AnySpot) /\ \A i \in 1 .. n : i > sp => ~b[i].need
  BY <1>1 DEF Below, Stacked
<1> QED BY <1>1, <1>2, ElementOfSeq

LEMMA OneMore ==
    ASSUME Running, NEW b, Below(b), NEW s, Live(s)
    PROVE  LET r == [b EXCEPT ![sp + 1] = s]
           IN  /\ Stacked(r, sp + 1) /\ SameGaps(stack, r, sp) /\ r[sp + 1] = s
               /\ Consumed(r, sp + 1)
<1> DEFINE r == [b EXCEPT ![sp + 1] = s]
<1>1. Stacked(b, sp) /\ SameGaps(stack, b, sp) /\ sp + 1 <= Len(b) /\ Behind(b)
  BY DEF Below
<1>2. Stacked(r, sp + 1) /\ SameGaps(b, r, sp) /\ r[sp + 1] = s /\ r[sp] = b[sp]
  BY <1>1, SpotPushed
<1> HIDE DEF r
<1>3. SameGaps(stack, r, sp)
  BY <1>1, <1>2 DEF SameGaps
<1>4. Consumed(r, sp + 1)
  BY <1>1, <1>2 DEF Consumed, Behind
<1> QED BY <1>2, <1>3, <1>4 DEF r

LEMMA PushListTurn ==
    ASSUME Running, PushList
    PROVE  TurnOK
<1>1. AtField /\ Slot.type # "unknown" /\ Slot.occ = "repeated" /\ Slot.type \in NodeKind
  BY DEF PushList, Present
<1>2. Slot \in KnownField /\ Elem \in Term
  BY <1>1, FieldFacts
<1>3. CASE IsList(Elem) /\ Elem[2] # <<>>
  <2>1. CASE Denied(enc)
    BY <2>1, MovedItself, DeniedTurn
  <2> DEFINE s == [Entered[sp + 1] EXCEPT !.kind = "list", !.field = Slot,
                                          !.node = Slot.sub, !.list = Elem[2]]
             r == [Entered EXCEPT ![sp + 1] = s]
             spots == [Grown EXCEPT ![sp].pos = @ + 1, ![sp + 1].kind = "list",
                                    ![sp + 1].field = Slot, ![sp + 1].node = Slot.sub,
                                    ![sp + 1].list = Elem[2]]
  <2>2. Below(Entered)
    BY <1>1, EnteredBelow
  <2>3. Entered[sp + 1] \in AnySpot /\ ~Entered[sp + 1].need
    BY <2>2, BelowSpot
  <2>4. Elem[2] \in Seq(Term) /\ Slot.sub \in Node
    BY <1>1, <1>2, <1>3, Terms, KnownFields DEF IsList
  <2>5. /\ s \in AnySpot /\ s.kind = "list" /\ s.field = Slot /\ ~s.need
    <3> HIDE DEF Entered, Slot, Elem
    <3> QED BY <1>2, <2>3, <2>4 DEF AnySpot
  <2>6. Live(s)
    BY <1>1, <1>2, <2>5 DEF Live
  <2>7. spots = r
    <3>1. PICK n \in Nat : sp \in 1 .. n /\ sp + 1 \in 1 .. n /\ DOMAIN Entered = 1 .. n
      BY <2>2 DEF Below, Stacked
    <3> QED BY <3>1 DEF Entered
  <2> HIDE DEF s
  <2>8. Stacked(r, sp + 1) /\ SameGaps(stack, r, sp) /\ r[sp + 1] = s /\ Consumed(r, sp + 1)
    BY <2>2, <2>6, OneMore
  <2> HIDE DEF r, spots
  <2>9. Gapped(r, sp + 1, enc)
    BY <2>5, <2>8, RunningFacts, GapsKept
  <2>10. CASE Proceed(enc, spots, sp + 1)
    BY <2>7, <2>8, <2>9, <2>10, MovedItself, ProceedTurn
  <2> QED BY <1>3, <2>1, <2>10 DEF PushList, spots
<1>4. CASE ~(IsList(Elem) /\ Elem[2] # <<>>)
  <2>1. Proceed(Require(enc, IsList(Elem)), Advanced, sp)
    BY <1>4 DEF PushList
  <2>2. Moved(enc, Require(enc, IsList(Elem)))
    <3>1. CASE IsList(Elem)
      BY <3>1, MovedItself DEF Require
    <3>2. CASE ~IsList(Elem)
      BY <3>2, RunningFacts, StoppedThere, WroteKept DEF Require, Refuse
    <3> QED BY <3>1, <3>2
  <2> QED BY <1>1, <2>1, <2>2, AdvanceTurn
<1> QED BY <1>3, <1>4

\* begin_group_encode.
LEMMA PushedGroupTurn ==
    ASSUME Running, NEW b, Below(b), NEW f \in KnownField, f.type = "group", NEW t \in Term,
           PushedGroup(b, f, t)
    PROVE  TurnOK
<1> DEFINE tag == Tagged(enc, f.fnum, SGROUP)
           e == Require(tag, Suits(f, t))
           s == [Occupied(b[sp + 1], f, t) EXCEPT !.field = f, !.need = FALSE]
           r == [b EXCEPT ![sp + 1] = s]
<1>1. f.fnum \in FieldNumber /\ f.type \in NodeKind /\ SGROUP \in 0 .. 7
  BY KnownFields DEF NodeKind, SGROUP
<1>2. Wrote(enc, tag)
  BY <1>1, RunningFacts, TaggedBytes
<1>3. Kept(enc, tag) /\ Moved(enc, tag)
  BY <1>2, WroteKept
<1>4. CASE Denied(tag)
  BY <1>3, <1>4, DeniedTurn
<1>5. Suits(f, t) \in BOOLEAN
  BY DEF Suits, Named, IsTuple
<1>6. Kept(enc, e) /\ (e.ok => Suits(f, t) /\ e = tag)
  <2> HIDE DEF tag
  <2> QED BY <1>3, <1>5, RequireKept
<1>7. ASSUME e.ok
      PROVE  Stacked(r, sp + 1) /\ Gapped(r, sp + 1, e) /\ Consumed(r, sp + 1)
  <2> DEFINE o == Occupied(b[sp + 1], f, t)
  <2>1. /\ o \in AnySpot /\ o.kind = "tuple" /\ o.node \in Node
        /\ Len(o.array) = Size(o.node) /\ o.pos = 0
    BY <1>1, <1>6, <1>7, BelowSpot, OccupiedLive
  <2> HIDE DEF o
  <2>2. s = [o EXCEPT !.field = f, !.need = FALSE]
    BY DEF o
  <2>3. /\ s \in AnySpot /\ s.kind = "tuple" /\ s.node = o.node /\ s.array = o.array
        /\ s.pos = 0 /\ ~s.need
    BY <2>1, <2>2 DEF AnySpot
  <2>4. Size(s.node) \in Nat
    BY <2>1, <2>3, Sizes
  <2>5. Live(s)
    BY <2>1, <2>3, <2>4 DEF Live
  <2> HIDE DEF s
  <2>6. Stacked(r, sp + 1) /\ SameGaps(stack, r, sp) /\ r[sp + 1] = s /\ Consumed(r, sp + 1)
    BY <2>5, OneMore
  <2> HIDE DEF r, tag, e
  <2>7. e \in Buf /\ Moved(enc, e)
    BY <1>3, <1>6, <1>7 DEF Kept
  <2>8. Gapped(stack, sp, e)
    <3>1. SameGaps(stack, stack, sp)
      BY DEF SameGaps
    <3> QED BY <1>7, <2>7, <3>1, RunningFacts, GapsMoved
  <2>9. Gapped(r, sp + 1, e)
    BY <2>3, <2>6, <2>7, <2>8, RunningFacts, GapsKept
  <2> QED BY <2>6, <2>9
<1>8. CASE Proceed(e, r, sp + 1)
  <2> HIDE DEF e, r
  <2> QED BY <1>6, <1>7, <1>8, ProceedTurn
<1>9. Denied(tag) \/ Proceed(e, r, sp + 1)
  BY DEF PushedGroup
<1> QED BY <1>4, <1>8, <1>9

\* A message or an entry, whose gap begins where the tag ends.
LEMMA PushedMessageTurn ==
    ASSUME Running, NEW b, Below(b), NEW f \in KnownField, f.type \in NodeKind \ {"group"},
           NEW t \in Term, NEW e, Kept(enc, e), NEW tag, Wrote(enc, tag),
           enc.left = 0 => enc.p < tag.p,
           e.ok => Suits(f, t) /\ e.p = tag.p + Gap,
           PushedMessage(e, tag.p, b, f, t)
    PROVE  TurnOK
<1> DEFINE s == [Occupied(b[sp + 1], f, t) EXCEPT !.need = TRUE, !.at = tag.p]
           r == [b EXCEPT ![sp + 1] = s]
<1>1. tag.p \in Nat /\ enc.p <= tag.p /\ e \in Buf /\ enc \in Buf
  BY RunningFacts, BufTypes DEF Wrote, Kept
<1>2. ASSUME e.ok
      PROVE  Stacked(r, sp + 1) /\ Gapped(r, sp + 1, e) /\ Consumed(r, sp + 1)
  <2> DEFINE o == Occupied(b[sp + 1], f, t)
  <2>1. /\ o \in AnySpot /\ o.kind = "tuple" /\ o.node \in Node
        /\ Len(o.array) = Size(o.node) /\ o.pos = 0 /\ Schema[o.node].kind = f.type
    BY <1>2, BelowSpot, OccupiedLive
  <2> HIDE DEF o
  <2>2. s = [o EXCEPT !.need = TRUE, !.at = tag.p]
    BY DEF o
  <2>3. /\ s \in AnySpot /\ s.kind = "tuple" /\ s.node = o.node /\ s.array = o.array
        /\ s.pos = 0 /\ s.need /\ s.at = tag.p
    BY <1>1, <2>1, <2>2 DEF AnySpot
  <2>4. Size(s.node) \in Nat
    BY <2>1, <2>3, Sizes
  <2>5. Live(s)
    BY <2>1, <2>3, <2>4 DEF Live
  <2> HIDE DEF s
  <2>6. Stacked(r, sp + 1) /\ SameGaps(stack, r, sp) /\ r[sp + 1] = s /\ Consumed(r, sp + 1)
    BY <2>5, OneMore
  <2> HIDE DEF r
  <2>7. /\ r[sp + 1].need /\ r[sp + 1].at \in Nat /\ enc.p <= r[sp + 1].at
        /\ e.p = r[sp + 1].at + Gap
        /\ Failing = {0} => enc.p < r[sp + 1].at
    BY <1>1, <1>2, <2>3, <2>6, RunningFacts
  <2>8. Gapped(r, sp + 1, e)
    BY <1>1, <2>6, <2>7, RunningFacts, GapsOpened
  <2> QED BY <2>6, <2>8
<1>3. Proceed(e, r, sp + 1)
  BY DEF PushedMessage
<1> HIDE DEF r
<1> QED BY <1>2, <1>3, ProceedTurn

LEMMA PushGroupTurn ==
    ASSUME Running, PushGroup
    PROVE  TurnOK
<1>1. Single /\ Chosen.type = "group" /\ PushedGroup(Entered, Chosen, Given)
  BY DEF PushGroup, Entered
<1>2. Chosen # NoField
  BY <1>1, NoFieldType
<1>3. AtField /\ Chosen \in KnownField /\ Given \in Term
  BY <1>1, <1>2, SingleFacts
<1>4. Below(Entered)
  BY <1>3, EnteredBelow
<1> QED BY <1>1, <1>3, <1>4, PushedGroupTurn

LEMMA PushMessageTurn ==
    ASSUME Running, PushMessage
    PROVE  TurnOK
<1> DEFINE f == Chosen
           t == Given
           tag == Tagged(enc, f.fnum, LENGTH)
           checked == Require(tag, Suits(f, t))
           e == Opened(checked)
<1>1. Single /\ f.type \in {"msg", "map"}
  BY DEF PushMessage
<1>2. Denied(tag) \/ PushedMessage(e, tag.p, Entered, f, t)
  BY DEF PushMessage, Entered
<1>3. f # NoField /\ f.type \in NodeKind \ {"group"}
  BY <1>1, NoFieldType DEF NodeKind
<1>4. AtField /\ f \in KnownField /\ t \in Term
  BY <1>1, <1>3, SingleFacts
<1>5. Below(Entered)
  BY <1>4, EnteredBelow
<1>6. f.fnum \in FieldNumber /\ LENGTH \in 0 .. 7
  BY <1>4, KnownFields DEF LENGTH
<1>7. Suits(f, t) \in BOOLEAN
  BY DEF Suits, Named, IsTuple
<1> HIDE DEF f, t
<1>8. /\ Wrote(enc, tag) /\ (enc.left = 0 => enc.p < tag.p)
  BY <1>6, RunningFacts, TaggedBytes
<1> HIDE DEF tag
<1>9. Kept(enc, tag)
  BY <1>8, WroteKept
<1>10. Kept(enc, checked) /\ (checked.ok => Suits(f, t) /\ checked = tag)
  BY <1>7, <1>9, RequireKept
<1> HIDE DEF checked
<1>11. /\ e \in Buf /\ (e.ok => checked.ok)
       /\ e.p = IF e.ok THEN checked.p + Gap ELSE checked.p
       /\ checked.left = 0 => e.left = 0
       /\ Fits(checked) => Fits(e)
  BY <1>10, OpenedGap DEF Kept
<1> HIDE DEF e
<1>12. Kept(enc, e)
  <2>1. checked.p \in Nat /\ e.p \in Nat /\ checked.p <= e.p
    BY <1>10, <1>11, BufTypes DEF Kept, Gap
  <2>2. Word64 \in Nat
    BY DEF Word64, Word32
  <2> HIDE DEF Word64
  <2>3. e.p < Word64 => checked.p < Word64
    BY <2>1, <2>2
  <2> QED BY <1>10, <1>11, <2>3 DEF Kept
<1>13. e.ok => Suits(f, t) /\ e.p = tag.p + Gap
  BY <1>10, <1>11
<1>14. CASE Denied(tag)
  BY <1>9, <1>14, DeniedTurn
<1>15. CASE PushedMessage(e, tag.p, Entered, f, t)
  BY <1>3, <1>4, <1>5, <1>8, <1>12, <1>13, <1>15, PushedMessageTurn
<1> QED BY <1>2, <1>14, <1>15

-----------------------------------------------------------------------------
(* Lists *)

LEMMA ElementFacts ==
    ASSUME Running, AtElement
    PROVE  /\ Top.field \in KnownField /\ Top.field.type \in NodeKind
           /\ Head(Top.list) \in Term
           /\ Below(Shortened)
<1> DEFINE s == [Top EXCEPT !.list = Tail(Top.list)]
           r == [Grown EXCEPT ![sp] = s]
<1>1. Top.kind = "list" /\ Top.list # <<>>
  BY DEF AtElement, InList
<1>2. Live(Top) /\ Top \in AnySpot /\ Top.list \in Seq(Term)
  BY RunningFacts, SpotTypes
<1>3. Top.field \in KnownField /\ Top.field.type \in NodeKind
  BY <1>1, <1>2 DEF Live
<1>4. PICK n \in Nat : n = Len(Top.list)
  BY <1>2
<1>5. Head(Top.list) \in Term /\ Tail(Top.list) \in Seq(Term) /\ Len(Tail(Top.list)) = n - 1 /\ n > 0
  BY <1>1, <1>2, <1>4, ElementOfSeq
<1>6. /\ s \in AnySpot /\ s.kind = Top.kind /\ s.need = Top.need /\ s.at = Top.at
      /\ s.field = Top.field /\ s.list = Tail(Top.list)
  BY <1>2, <1>5 DEF AnySpot
<1>7. Live(s)
  BY <1>1, <1>2, <1>6 DEF Live
<1> HIDE DEF s
<1>8. /\ Stacked(Grown, sp) /\ SameGaps(stack, Grown, sp)
      /\ sp + 1 <= Len(Grown) /\ Grown[sp] = Top
  BY RunningFacts, GrownStack DEF Top
<1>9. Stacked(r, sp) /\ SameGaps(Grown, r, sp) /\ Len(r) = Len(Grown) /\ r[sp] = s
  BY <1>6, <1>7, <1>8, TopReplaced
<1>10. Shortened = r
  BY <1>8 DEF Shortened, s
<1> HIDE DEF r
<1>11. SameGaps(stack, r, sp)
  BY <1>8, <1>9 DEF SameGaps
<1>12. Behind(r)
  <2>1. r[sp].list = Tail(Top.list)
    BY <1>6, <1>9
  <2>2. n - 1 < n
    OBVIOUS
  <2>3. Len(r[sp].list) < Len(Top.list)
    BY <1>4, <1>5, <2>1, <2>2
  <2> QED BY <2>3 DEF Behind, Top
<1>13. Below(r)
  BY <1>8, <1>9, <1>11, <1>12 DEF Below
<1> QED BY <1>3, <1>5, <1>10, <1>13

LEMMA ListGroupTurn ==
    ASSUME Running, ListGroup
    PROVE  TurnOK
<1>1. AtElement /\ Top.field.type = "group" /\ PushedGroup(Shortened, Top.field, Head(Top.list))
  BY DEF ListGroup
<1> QED BY <1>1, ElementFacts, PushedGroupTurn

LEMMA ListMessageTurn ==
    ASSUME Running, ListMessage
    PROVE  TurnOK
<1> DEFINE f == Top.field
           t == Head(Top.list)
           tag == Tagged(enc, f.fnum, LENGTH)
           gap == Opened(tag)
           e == Require(gap, Suits(f, t))
<1>1. AtElement /\ f.type # "group"
  BY DEF ListMessage
<1>2. Denied(tag) \/ PushedMessage(e, tag.p, Shortened, f, t)
  BY DEF ListMessage
<1>3. /\ f \in KnownField /\ f.type \in NodeKind \ {"group"} /\ t \in Term
      /\ Below(Shortened)
  BY <1>1, ElementFacts
<1>4. f.fnum \in FieldNumber /\ LENGTH \in 0 .. 7
  BY <1>3, KnownFields DEF LENGTH
<1>5. Suits(f, t) \in BOOLEAN
  BY DEF Suits, Named, IsTuple
<1> HIDE DEF f, t
<1>6. /\ Wrote(enc, tag) /\ (enc.left = 0 => enc.p < tag.p)
  BY <1>4, RunningFacts, TaggedBytes
<1> HIDE DEF tag
<1>7. Kept(enc, tag)
  BY <1>6, WroteKept
<1>8. /\ gap \in Buf
      /\ gap.p = IF gap.ok THEN tag.p + Gap ELSE tag.p
      /\ tag.left = 0 => gap.left = 0
      /\ Fits(tag) => Fits(gap)
  BY <1>7, OpenedGap DEF Kept
<1> HIDE DEF gap
<1>9. Kept(enc, gap)
  <2>1. tag.p \in Nat /\ gap.p \in Nat /\ tag.p <= gap.p
    BY <1>7, <1>8, BufTypes DEF Kept, Gap
  <2>2. Word64 \in Nat
    BY DEF Word64, Word32
  <2> HIDE DEF Word64
  <2>3. gap.p < Word64 => tag.p < Word64
    BY <2>1, <2>2
  <2> QED BY <1>7, <1>8, <2>3 DEF Kept
<1>10. Kept(enc, e) /\ (e.ok => Suits(f, t) /\ e = gap)
  BY <1>5, <1>9, RequireKept
<1> HIDE DEF e
<1>11. e.ok => Suits(f, t) /\ e.p = tag.p + Gap
  BY <1>8, <1>10
<1>12. CASE Denied(tag)
  BY <1>7, <1>12, DeniedTurn
<1>13. CASE PushedMessage(e, tag.p, Shortened, f, t)
  BY <1>3, <1>6, <1>10, <1>11, <1>13, PushedMessageTurn
<1> QED BY <1>2, <1>12, <1>13

LEMMA ListStraysTurn ==
    ASSUME Running, ListStrays
    PROVE  TurnOK
<1>1. Raise(Refuse(enc))
  BY DEF ListStrays
<1>2. Kept(enc, Refuse(enc))
  BY MovedItself, StoppedKept DEF Refuse
<1> QED BY <1>1, <1>2, RaiseTurn

\* A spot that is left, whose gap, if it had one, was filled.
LEMMA LeftSpot ==
    ASSUME Running, sp > 1, NEW s \in AnySpot, ~s.need
    PROVE  LET r == [stack EXCEPT ![sp] = s]
           IN  Stacked(r, sp - 1) /\ SameGaps(stack, r, sp - 1) /\ Consumed(r, sp - 1)
<1> DEFINE r == [stack EXCEPT ![sp] = s]
<1>1. Stacked(r, sp - 1) /\ SameGaps(stack, r, sp - 1)
  BY RunningFacts, SpotPopped
<1>2. Consumed(r, sp - 1)
  BY RunningFacts DEF Consumed
<1> QED BY <1>1, <1>2

LEMMA ListEndTurn ==
    ASSUME Running, ListEnd
    PROVE  TurnOK
<1>1. Top.kind = "list" /\ Proceed(enc, stack, sp - 1)
  BY DEF ListEnd, InList
<1>2. Stacked(stack, sp) /\ Gapped(stack, sp, enc) /\ Live(Top) /\ Top \in AnySpot /\ sp \in Nat
      /\ enc \in Buf
  BY RunningFacts
<1>3. ~Top.need
  BY <1>1, <1>2 DEF Live
<1>4. sp > 1
  BY <1>1, <1>2 DEF Stacked, Top
<1>5. [stack EXCEPT ![sp] = Top] = stack
  BY <1>2 DEF Stacked, Top
<1>6. Stacked(stack, sp - 1) /\ SameGaps(stack, stack, sp - 1) /\ Consumed(stack, sp - 1)
  BY <1>2, <1>3, <1>4, <1>5, LeftSpot
<1>7. Gapped(stack, sp - 1, enc)
  BY <1>2, <1>3, <1>4, <1>6, GapsPopped DEF Top
<1> QED BY <1>1, <1>6, <1>7, MovedItself, ProceedTurn

-----------------------------------------------------------------------------
(* The end of a tuple *)

\* The gap of the topmost spot is the last one, so that all behind it is its payload.
LEMMA TopSolid ==
    ASSUME Running, Top.need
    PROVE  sp > 1 /\ Top.at \in Nat /\ Top.at + Gap <= enc.p /\ Solid(enc, Top.at)
<1>1. /\ Stacked(stack, sp) /\ Gapped(stack, sp, enc) /\ Top \in AnySpot /\ sp \in Nat
      /\ enc \in Buf /\ sp \in 1 .. Len(stack)
  BY RunningFacts
<1>2. enc.p \in Nat /\ Gap \in Nat
  BY <1>1, BufTypes DEF Gap
<1>3. sp > 1
  BY <1>1 DEF Stacked, Top
<1>4. Top.at \in Nat
  BY <1>1, SpotTypes
<1>5. sp \in 1 .. sp
  BY <1>1
<1>6. Top.at + Gap <= enc.p
  BY <1>5, <1>1 DEF Gapped, Top
<1>7. Solid(enc, Top.at)
  <2>1. CASE enc.p <= Len(enc.mem)
    BY <2>1 DEF Solid
  <2>2. ASSUME NEW i \in 1 .. sp, stack[i].need, enc.p = stack[i].at + Gap
        PROVE  Solid(enc, Top.at)
    <3>1. CASE i = sp
      BY <2>2, <3>1 DEF Solid, Top
    <3>2. CASE i # sp
      <4>1. stack[i].at + Gap <= Top.at
        BY <1>1, <1>5, <2>2, <3>2 DEF Gapped, Top
      <4> QED BY <1>2, <1>4, <1>6, <2>2, <4>1 DEF Gap
    <3> QED BY <3>1, <3>2
  <2> QED BY <1>1, <2>1, <2>2 DEF Gapped
<1> QED BY <1>3, <1>4, <1>6, <1>7

LEMMA CloseMessageTurn ==
    ASSUME Running, CloseMessage
    PROVE  TurnOK
<1> DEFINE e == Patched(enc, Top.at)
           s == [Top EXCEPT !.need = FALSE, !.pos = 0]
           r == [stack EXCEPT ![sp] = s]
<1>1. Top.need /\ Proceed(e, [stack EXCEPT ![sp].need = FALSE, ![sp].pos = 0], sp - 1)
  BY DEF CloseMessage
<1>2. /\ Stacked(stack, sp) /\ Gapped(stack, sp, enc) /\ Top \in AnySpot /\ enc \in Buf
      /\ sp \in 1 .. Len(stack) /\ enc.ok
  BY RunningFacts
<1>3. sp > 1 /\ Top.at \in Nat /\ Top.at + Gap <= enc.p /\ Solid(enc, Top.at)
  BY <1>1, TopSolid
<1>4. /\ e \in Buf /\ e.left = enc.left /\ Top.at < e.p
      /\ e.ok => e.p <= Len(e.mem)
      /\ Fits(enc) /\ e.p < Word64 => Fits(e)
  BY <1>2, <1>3, PatchedGap
<1>5. Kept(enc, e)
  BY <1>4 DEF Kept
<1>6. s \in AnySpot /\ ~s.need
  BY <1>2 DEF AnySpot
<1>7. [stack EXCEPT ![sp].need = FALSE, ![sp].pos = 0] = r
  BY <1>2 DEF Stacked, Top
<1> HIDE DEF s, e
<1>8. Stacked(r, sp - 1) /\ SameGaps(stack, r, sp - 1) /\ Consumed(r, sp - 1)
  BY <1>3, <1>6, LeftSpot
<1> HIDE DEF r
<1>9. e.ok => Gapped(r, sp - 1, e)
  BY <1>1, <1>2, <1>3, <1>4, <1>8, GapsClosed DEF Top
<1> QED BY <1>1, <1>5, <1>7, <1>8, <1>9, ProceedTurn

LEMMA CloseGroupTurn ==
    ASSUME Running, CloseGroup
    PROVE  TurnOK
<1> DEFINE e == Tagged(enc, Top.field.fnum, EGROUP)
           s == [Top EXCEPT !.field = NoField, !.pos = 0]
           r == [stack EXCEPT ![sp] = s]
<1>1. /\ ~Top.need /\ Top.field.type = "group"
      /\ Proceed(e, [stack EXCEPT ![sp].field = NoField, ![sp].pos = 0], sp - 1)
  BY DEF CloseGroup, IsGroup
<1>2. /\ Stacked(stack, sp) /\ Gapped(stack, sp, enc) /\ Top \in AnySpot /\ enc \in Buf
      /\ sp \in 1 .. Len(stack) /\ sp \in Nat
  BY RunningFacts
<1>3. Top.field \in KnownField /\ Top.field # NoField
  BY <1>1, <1>2, SpotTypes, NoFieldType
<1>4. sp > 1
  BY <1>2, <1>3 DEF Stacked, Top
<1>5. Top.field.fnum \in FieldNumber /\ EGROUP \in 0 .. 7
  BY <1>3, KnownFields DEF EGROUP
<1>6. Wrote(enc, e)
  BY <1>2, <1>5, TaggedBytes
<1> HIDE DEF e
<1>7. Kept(enc, e) /\ Moved(enc, e) /\ e \in Buf
  BY <1>6, WroteKept DEF Wrote
<1>8. s \in AnySpot /\ ~s.need
  BY <1>1, <1>2 DEF AnySpot
<1>9. [stack EXCEPT ![sp].field = NoField, ![sp].pos = 0] = r
  BY <1>2 DEF Stacked, Top
<1> HIDE DEF s
<1>10. Stacked(r, sp - 1) /\ SameGaps(stack, r, sp - 1) /\ Consumed(r, sp - 1)
  BY <1>4, <1>8, LeftSpot
<1> HIDE DEF r
<1>11. e.ok => Gapped(r, sp - 1, e)
  <2>1. SameGaps(stack, stack, sp)
    BY DEF SameGaps
  <2>2. e.ok => Gapped(stack, sp, e)
    BY <1>2, <1>7, <2>1, GapsMoved
  <2> QED BY <1>1, <1>2, <1>4, <1>7, <1>10, <2>2, GapsPopped DEF Top
<1> QED BY <1>1, <1>7, <1>9, <1>10, <1>11, ProceedTurn

LEMMA CloseRootTurn ==
    ASSUME Running, CloseRoot
    PROVE  TurnOK
<1> DEFINE s == [Top EXCEPT !.pos = 0]
           r == [stack EXCEPT ![sp] = s]
<1>1. /\ ~Top.need /\ sp' = sp - 1 /\ enc' = enc /\ UNCHANGED <<message, todo>>
      /\ stack' = [stack EXCEPT ![sp].pos = 0]
      /\ status' = CASE sp > 1 -> status
                     [] sp = 1 /\ enc.reason = "none" -> "done"
                     [] OTHER -> "error"
  BY DEF CloseRoot
<1>2. /\ Stacked(stack, sp) /\ Gapped(stack, sp, enc) /\ Top \in AnySpot /\ enc \in Buf
      /\ sp \in 1 .. Len(stack) /\ sp \in Nat /\ enc.ok /\ stack \in Seq(AnySpot)
      /\ Kept(enc, enc)
  BY RunningFacts, MovedItself
<1>3. s \in AnySpot /\ ~s.need
  BY <1>1, <1>2 DEF AnySpot
<1>4. stack' = r
  BY <1>1, <1>2 DEF Stacked, Top
<1> HIDE DEF s
<1>5. CASE sp > 1
  <2>1. Stacked(r, sp - 1) /\ SameGaps(stack, r, sp - 1) /\ Consumed(r, sp - 1)
    BY <1>3, <1>5, LeftSpot
  <2> HIDE DEF r
  <2>2. Gapped(r, sp - 1, enc)
    BY <1>1, <1>2, <1>5, <2>1, GapsPopped DEF Top
  <2>3. status' = "run"
    BY <1>1, <1>5 DEF Running
  <2>4. r \in Seq(AnySpot) /\ Len(r) > 0 /\ sp - 1 \in 0 .. Len(r)
    BY <2>1 DEF Stacked
  <2> QED BY <1>1, <1>2, <1>4, <2>1, <2>2, <2>3, <2>4 DEF TurnOK
<1>6. CASE sp = 1
  <2>1. status' \in {"done", "error"}
    BY <1>1, <1>6
  <2>2. r \in Seq(AnySpot) /\ Len(r) > 0 /\ sp - 1 \in 0 .. Len(r)
    BY <1>2, <1>3, <1>6
  <2> HIDE DEF r
  <2> QED BY <1>1, <1>2, <1>4, <2>1, <2>2 DEF TurnOK
<1> QED BY <1>2, <1>5, <1>6

LEMMA CloseDeniedTurn ==
    ASSUME Running, CloseDenied
    PROVE  TurnOK
<1>1. Raise(Stopped(enc, "alloc_binary"))
  BY DEF CloseDenied
<1>2. Kept(enc, Stopped(enc, "alloc_binary"))
  BY MovedItself, StoppedKept
<1> QED BY <1>1, <1>2, RaiseTurn

\* One turn of the loop, whatever it meets.
LEMMA EveryTurn ==
    ASSUME EInv, Turn
    PROVE  TurnOK /\ Running
<1>1. Running
  <2>1. status = "run"
    BY DEF Turn, Omit, UnknownFields, PackedField, RepeatedField, PushList, BadOneof,
           ScalarField, PushGroup, PushMessage, ListGroup, ListMessage, ListStrays, ListEnd,
           CloseMessage, CloseGroup, CloseRoot, CloseDenied, Single, Present, AtField,
           AtEnd, AtElement, InTuple, InList
  <2> QED BY <2>1 DEF Running
<1>2. CASE Omit BY <1>1, <1>2, OmitTurn
<1>3. CASE UnknownFields BY <1>1, <1>3, UnknownFieldsTurn
<1>4. CASE PackedField \/ RepeatedField BY <1>1, <1>4, ListFieldTurn
<1>5. CASE PushList BY <1>1, <1>5, PushListTurn
<1>6. CASE BadOneof BY <1>1, <1>6, BadOneofTurn
<1>7. CASE ScalarField BY <1>1, <1>7, ScalarFieldTurn
<1>8. CASE PushGroup BY <1>1, <1>8, PushGroupTurn
<1>9. CASE PushMessage BY <1>1, <1>9, PushMessageTurn
<1>10. CASE ListGroup BY <1>1, <1>10, ListGroupTurn
<1>11. CASE ListMessage BY <1>1, <1>11, ListMessageTurn
<1>12. CASE ListStrays BY <1>1, <1>12, ListStraysTurn
<1>13. CASE ListEnd BY <1>1, <1>13, ListEndTurn
<1>14. CASE CloseMessage BY <1>1, <1>14, CloseMessageTurn
<1>15. CASE CloseGroup BY <1>1, <1>15, CloseGroupTurn
<1>16. CASE CloseRoot BY <1>1, <1>16, CloseRootTurn
<1>17. CASE CloseDenied BY <1>1, <1>17, CloseDeniedTurn
<1> QED BY <1>1, <1>2, <1>3, <1>4, <1>5, <1>6, <1>7, <1>8, <1>9, <1>10, <1>11, <1>12,
           <1>13, <1>14, <1>15, <1>16, <1>17 DEF Turn

-----------------------------------------------------------------------------
(* Calls *)

LEMMA FirstState ==
    ASSUME Init
    PROVE  EInv /\ Fits(enc)
<1>1. /\ message = NoTerm /\ stack = <<ZeroSpot>> /\ sp = 0 /\ status = "idle"
      /\ todo \in Seq(Message)
      /\ enc = [mem |-> <<>>, p |-> 0, end |-> EncInit, cap |-> EncInit, size |-> EncInit,
                left |-> 0, strayed |-> FALSE, ok |-> TRUE, reason |-> "none"]
  BY DEF Init
<1>2. enc \in Buf /\ Fits(enc) /\ enc.left = 0
  BY <1>1, BufferAssumption DEF Buf, Buffer, Fits
<1>3. ZeroSpot \in AnySpot
  BY DEF ZeroSpot, AnySpot
<1>4. <<ZeroSpot>> \in Seq(AnySpot) /\ Len(<<ZeroSpot>>) = 1
  <2> HIDE DEF ZeroSpot, AnySpot
  <2> QED BY <1>3
<1>5. stack \in Seq(AnySpot) /\ Len(stack) > 0 /\ sp \in 0 .. Len(stack)
  BY <1>1, <1>4
<1> QED BY <1>1, <1>2, <1>5 DEF EInv

\* A call begins on what the one before left in the slot.
LEMMA BeginStep ==
    ASSUME EInv, Begin
    PROVE  /\ EInv' /\ (Failing = {0} /\ Fits(enc) => Fits(enc'))
<1> DEFINE t == Head(todo)
           Begun(k) == [enc EXCEPT !.p = 0, !.end = enc.size, !.left = k, !.ok = TRUE,
                                   !.reason = "none"]
           Clear(spot) == [spot EXCEPT !.field = NoField, !.need = FALSE]
           known == {n \in Node : Schema[n].kind # "map" /\ Named(n, t)}
           node == CHOOSE n \in known : TRUE
           spots == [i \in 1 .. Len(stack) |->
                      IF i > 1 THEN Clear(stack[i])
                      ELSE [Clear(stack[1]) EXCEPT !.kind = "tuple", !.pos = 0,
                               !.node = node, !.array = Tail(t[2])]]
<1>1. /\ todo \in Seq(Message) /\ todo # <<>> /\ message' = t /\ todo' = Tail(todo)
      /\ enc \in Buf /\ stack \in Seq(AnySpot) /\ Len(stack) > 0 /\ sp \in 0 .. Len(stack)
  BY DEF EInv, Begin
<1>2. t \in Message /\ t \in Term /\ Tail(todo) \in Seq(Message)
  BY <1>1, TermAssumption, ElementOfSeq
<1>3. PICK k \in Failing :
        IF known = {} THEN status' = "error" /\ enc' = Refuse(Begun(k)) /\ UNCHANGED <<stack, sp>>
        ELSE status' = "run" /\ enc' = Begun(k) /\ sp' = 1 /\ stack' = spots
  BY DEF Begin
<1> DEFINE e == Begun(k)
<1>4. k \in Nat /\ (Failing = {0} => k = 0)
  BY BufferAssumption
<1>5. /\ e \in Buf /\ e.left = k /\ e.p = 0 /\ e.ok /\ e.mem = enc.mem /\ e.size = enc.size
      /\ e.end = enc.size /\ e.cap = enc.cap /\ e.strayed = enc.strayed
  BY <1>1, <1>4 DEF Buf, Buffer
<1>6. Failing = {0} /\ Fits(enc) => Fits(e)
  BY <1>1, <1>4, <1>5, BufTypes DEF Fits
<1> HIDE DEF Begun
<1>7. CASE known = {}
  <2>1. /\ status' = "error" /\ enc' = Refuse(e) /\ stack' = stack /\ sp' = sp
    BY <1>3, <1>7
  <2>2. Wrote(e, Refuse(e)) /\ Refuse(e).p = e.p
    BY <1>5, StoppedThere DEF Refuse
  <2>3. Refuse(e).left = 0 \/ ~(Failing = {0})
    BY <1>4, <1>5, <2>2 DEF Wrote
  <2>4. Fits(e) => Fits(Refuse(e))
    BY <1>5 DEF Fits, Refuse, Stopped, Buf, Buffer
  <2>5. Refuse(e) \in Buf
    BY <2>2 DEF Wrote
  <2> HIDE DEF e
  <2> QED BY <1>1, <1>2, <1>6, <2>1, <2>3, <2>4, <2>5 DEF EInv
<1>8. CASE known # {}
  <2>1. /\ status' = "run" /\ enc' = e /\ sp' = 1 /\ stack' = spots
    BY <1>3, <1>8
  <2>2. node \in known
    BY <1>8
  <2>3. node \in Node /\ IsTuple(t) /\ Len(t[2]) = Size(node) + 1
    BY <2>2 DEF Named
  <2> HIDE DEF node, known
  <2>4. t[2] \in Seq(Term)
    BY <1>2, <2>3, Terms DEF IsTuple
  <2>5. PICK n \in Nat : n = Size(node)
    BY <2>3, Sizes
  <2>6. t[2] # <<>>
    BY <2>3, <2>4, <2>5
  <2>7. Tail(t[2]) \in Seq(Term) /\ Len(Tail(t[2])) = n
    BY <2>3, <2>4, <2>5, <2>6
  <2> DEFINE array == Tail(t[2])
  <2> HIDE DEF array
  <2>8. PICK m \in Nat : m = Len(stack) /\ m > 0
    BY <1>1
  <2> DEFINE first == [Clear(stack[1]) EXCEPT !.kind = "tuple", !.pos = 0,
                               !.node = node, !.array = array]
  <2>9. NoField \in KnownField \cup {NoField}
    OBVIOUS
  <2>10. \A i \in 1 .. m : Clear(stack[i]) \in AnySpot /\ ~Clear(stack[i]).need
                           /\ Clear(stack[i]).field = NoField
    <3> TAKE i \in 1 .. m
    <3>1. stack[i] \in AnySpot
      BY <1>1, <2>8, ElementOfSeq
    <3> HIDE DEF NoField
    <3> QED BY <3>1, <2>9 DEF AnySpot
  <2>11. Clear(stack[1]) \in AnySpot /\ ~Clear(stack[1]).need /\ Clear(stack[1]).field = NoField
    <3> HIDE DEF Clear
    <3>1. 1 \in 1 .. m
      BY <2>8
    <3> QED BY <2>10, <3>1
  <2> HIDE DEF Clear
  <2>12. /\ first \in AnySpot /\ ~first.need /\ first.kind = "tuple" /\ first.pos = 0
         /\ first.node = node /\ first.array = array /\ first.field = NoField
    BY <2>3, <2>7, <2>11 DEF AnySpot, array
  <2>13. Live(first)
    BY <2>3, <2>5, <2>7, <2>12 DEF Live, array
  <2>14. /\ spots = [i \in 1 .. m |-> IF i > 1 THEN Clear(stack[i]) ELSE first]
    BY <2>8 DEF array
  <2> HIDE DEF first, spots
  <2>15. spots \in Seq(AnySpot) /\ Len(spots) = m
         /\ \A i \in 1 .. m : ~spots[i].need /\ (i > 1 \/ spots[i] = first)
    BY <2>8, <2>10, <2>12, <2>14
  <2>16. spots[1] = first /\ \A i \in 1 .. 1 : i = 1
    BY <2>8, <2>15
  <2>17. Stacked(spots, 1)
    BY <2>8, <2>12, <2>13, <2>15, <2>16 DEF Stacked
  <2>18. Gapped(spots, 1, e)
    <3>1. e.p <= Len(e.mem)
      BY <1>5, BufTypes
    <3>2. \A i \in 1 .. 1 : ~spots[i].need
      BY <2>12, <2>16
    <3> QED BY <3>1, <3>2 DEF Gapped
  <2>19. spots \in Seq(AnySpot) /\ Len(spots) > 0 /\ 1 \in 0 .. Len(spots)
    BY <2>8, <2>15
  <2> HIDE DEF e
  <2> QED BY <1>1, <1>2, <1>4, <1>5, <1>6, <2>1, <2>17, <2>18, <2>19 DEF EInv
<1> QED BY <1>7, <1>8

LEMMA EveryStep ==
    ASSUME EInv, [Next]_vars
    PROVE  /\ EInv'
           /\ Sized /\ Failing = {0} /\ Fits(enc) /\ enc'.p < Word64 => Fits(enc')
<1>1. CASE Begin
  BY <1>1, BeginStep
<1>2. CASE Turn
  <2>1. TurnOK /\ Running
    BY <1>2, EveryTurn
  <2>2. /\ message' = message /\ todo' = todo /\ Kept(enc, enc')
        /\ stack' \in Seq(AnySpot) /\ Len(stack') > 0 /\ sp' \in 0 .. Len(stack')
        /\ status' \in {"run", "done", "error"}
        /\ status' = "run" =>
            enc'.ok /\ Stacked(stack', sp') /\ Gapped(stack', sp', enc')
    BY <2>1 DEF TurnOK
  <2>3. enc' \in Buf /\ (enc.left = 0 => enc'.left = 0)
        /\ (Sized /\ Fits(enc) /\ enc'.p < Word64 => Fits(enc'))
    BY <2>2 DEF Kept
  <2> QED BY <2>2, <2>3 DEF EInv
<1>3. CASE UNCHANGED vars
  <2>1. UNCHANGED <<message, enc, stack, sp, status, todo>>
    BY <1>3 DEF vars
  <2>2. EInv'
    BY <2>1 DEF EInv
  <2> QED BY <2>1, <2>2
<1> QED BY <1>1, <1>2, <1>3 DEF Next, Rest

LEMMA AlwaysEInv == Spec => []EInv
<1>1. Init => EInv
  BY FirstState
<1>2. EInv /\ [Next]_vars => EInv'
  BY EveryStep
<1> QED BY <1>1, <1>2, PTL DEF Spec

-----------------------------------------------------------------------------
(* What follows for every schema and every message *)

\* encode() keeps the types of its buffer, stack and call, whichever realloc
\* fails: a turn only starts on a spot in use and with a buffer in order.
THEOREM EncoderTyped == Spec => []TypeOK
<1>1. EInv => TypeOK
  <2> SUFFICES ASSUME EInv PROVE TypeOK
    OBVIOUS
  <2>1. /\ message = NoTerm \/ message \in Message
        /\ todo \in Seq(Message) /\ enc \in Buffer /\ sp \in 0 .. Len(stack)
        /\ status \in {"idle", "run", "done", "error"}
        /\ stack \in Seq(AnySpot)
    BY BufTypes DEF EInv
  <2>2. status = "run" => sp > 0 /\ enc.ok
    BY DEF EInv, Stacked
  <2>3. ASSUME NEW i \in DOMAIN stack
        PROVE  [k \in DOMAIN ZeroSpot \ {"array", "list"} |-> stack[i][k]] \in Spot
    <3> DEFINE s == stack[i]
               g == [k \in DOMAIN ZeroSpot \ {"array", "list"} |-> s[k]]
    <3>1. s \in AnySpot
      BY <2>1, <2>3
    <3> HIDE DEF s
    <3>2. /\ s.kind \in {"tuple", "list"} /\ s.node \in Node \cup {NoNode}
          /\ s.field \in KnownField \cup {NoField} /\ s.pos \in Nat
          /\ s.need \in BOOLEAN /\ s.at \in Nat
      BY <3>1, SpotTypes
    <3>3. s.field \in Field \cup {NoField}
      BY <3>2, KnownFields
    <3>4. DOMAIN ZeroSpot \ {"array", "list"} = {"kind", "node", "field", "pos", "need", "at"}
      BY DEF ZeroSpot
    <3>5. g = [kind |-> s.kind, node |-> s.node, field |-> s.field, pos |-> s.pos,
               need |-> s.need, at |-> s.at]
      BY <3>4
    <3>6. g \in Spot
      <4> HIDE DEF g
      <4> QED BY <3>2, <3>3, <3>5 DEF Spot
    <3> QED BY <3>6 DEF s
  <2> QED BY <2>1, <2>2, <2>3 DEF TypeOK
<1> QED BY <1>1, AlwaysEInv, PTL

\* Every turn ends the call or a spot, or leaves its spot one field or element
\* further, whatever the message and whichever realloc fails: the loop of
\* encode() has nothing to go round in.
THEOREM EncoderConsumes == Spec => TurnConsumes
<1> DEFINE Consumes ==
        status = "run" /\ status' = "run" =>
            \/ sp' < sp
            \/ /\ sp' \in {sp, sp + 1}
               /\ \/ stack'[sp].pos > stack[sp].pos
                  \/ Len(stack'[sp].list) < Len(stack[sp].list)
<1>1. EInv /\ [Next]_vars => [Consumes]_vars
  <2> SUFFICES ASSUME EInv, Next, status = "run", status' = "run"
               PROVE  Consumes \/ UNCHANGED vars
    OBVIOUS
  <2>1. CASE Turn
    <3>1. TurnOK
      BY <2>1, EveryTurn
    <3>2. Consumed(stack', sp')
      BY <3>1 DEF TurnOK
    <3> QED BY <3>2 DEF Consumed, Behind
  <2> QED BY <2>1 DEF Next, Begin, Rest
<1> QED BY <1>1, AlwaysEInv, PTL DEF Spec, TurnConsumes

\* While no realloc is denied, the gaps for lengths nest like the messages they
\* belong to, with the writer behind the innermost: closing a message moves its
\* own payload and nothing else (ep_encoder.c:998-1005).  A denied realloc of a
\* tag goes unnoticed, and two gaps may then meet.
THEOREM GapsNested == ASSUME Failing = {0} PROVE Spec => []GapsNest
<1>1. EInv => GapsNest
  <2> SUFFICES ASSUME EInv, status = "run" PROVE GapsNest
    BY DEF GapsNest
  <2>1. Stacked(stack, sp) /\ Gapped(stack, sp, enc) /\ \A i \in 1 .. sp : Live(stack[i])
    BY DEF EInv, Stacked
  <2>2. ASSUME NEW i \in 1 .. sp, stack[i].need
        PROVE  stack[i].kind = "tuple" /\ Schema[stack[i].node].kind # "group"
               /\ stack[i].at + Gap <= enc.p
    <3>1. Live(stack[i]) /\ stack[i].kind \in {"tuple", "list"}
      BY <2>1, LiveTypes, SpotTypes
    <3> QED BY <2>1, <2>2, <3>1 DEF Live, Gapped
  <2>3. \A i, j \in 1 .. sp : i < j /\ stack[i].need /\ stack[j].need =>
            stack[i].at + Gap < stack[j].at
    BY <2>1 DEF Gapped
  <2> QED BY <2>2, <2>3 DEF GapsNest
<1> QED BY <1>1, AlwaysEInv, PTL

\* What is written is less than the address space.
InMemory == enc.p < Word64

\* "callers must not write then" (ep_encoder.c:45): while no realloc is denied
\* and numbers, names and binaries are as large as the code can hold, no byte
\* is written behind the allocated buffer.  The room a tag reserves and does not
\* use is what the run of writes after it counts on.
THEOREM WritesStayInBounds ==
    ASSUME Failing = {0}, Sized
    PROVE  Spec /\ []InMemory => []WritesInBounds
<1>1. Init => Fits(enc)
  BY FirstState
<1>2. EInv /\ Fits(enc) /\ InMemory' /\ [Next]_vars => Fits(enc)'
  BY EveryStep DEF InMemory
<1>3. Fits(enc) => WritesInBounds
  BY DEF Fits, WritesInBounds
<1> QED BY <1>1, <1>2, <1>3, AlwaysEInv, PTL DEF Spec
=============================================================================
