---------------------------- MODULE EpInduction ----------------------------
(***************************************************************************)
(* What the proofs need of the natural numbers, of recursive functions and *)
(* of the folds and sequences of the library: inductions in the form of a  *)
(* set, and that a recursion whose measure falls has a function.           *)
(***************************************************************************)
EXTENDS Integers, SequencesExt, SequenceTheorems, WellFoundedInduction, TLAPS

-----------------------------------------------------------------------------
(* Least elements *)

\* Induction in the form of sets: a set of naturals that is not empty has a
\* least element.  It is used with the set of the counterexamples to a claim.
LEMMA LeastNatural ==
    ASSUME NEW S \in SUBSET Nat, S # {}
    PROVE  \E n \in S : \A m \in S : n <= m
<1> DEFINE R == {ss \in Nat \X Nat : ss[1] < ss[2]}
<1>1. IsWellFoundedOn(R, Nat)
  BY NatLessThanWellFounded DEF OpToRel
<1>2. \E n \in S : \A m \in S : <<m, n>> \notin R
  <2> HIDE DEF R
  <2> QED BY <1>1, WFMin
<1>3. PICK n \in S : \A m \in S : <<m, n>> \notin R
  BY <1>2
<1>4. ASSUME NEW m \in S PROVE n <= m
  <2>1. <<m, n>> \notin R
    BY <1>3
  <2>2. n \in Nat /\ m \in Nat
    OBVIOUS
  <2> QED BY <2>1, <2>2
<1> QED BY <1>4

\* The same as induction: a set with 0 and the successors of its elements.
LEMMA InductiveSet ==
    ASSUME NEW S \in SUBSET Nat, 0 \in S, \A n \in S : n + 1 \in S
    PROVE  S = Nat
<1>1. SUFFICES ASSUME Nat \ S # {} PROVE FALSE
  OBVIOUS
<1>2. PICK n \in Nat \ S : \A m \in Nat \ S : n <= m
  BY <1>1, LeastNatural
<1>3. n - 1 \in Nat /\ n - 1 < n /\ (n - 1) + 1 = n
  BY <1>2
<1>4. n - 1 \in S
  BY <1>2, <1>3
<1> QED BY <1>2, <1>3, <1>4

\* Min of the community modules is a least element.
LEMMA MinOfNaturals ==
    ASSUME NEW S \in SUBSET Nat, S # {}
    PROVE  Min(S) \in S /\ \A m \in S : Min(S) <= m
BY LeastNatural DEF Min

-----------------------------------------------------------------------------
(* Recursion *)

\* The body B looks only at arguments of a smaller measure M.
LooksBelow(S, V, M, B) ==
    \A f, g \in [S -> V] : \A x \in S :
        (\A y \in S : M[y] < M[x] => f[y] = g[y]) => B[f][x] = B[g][x]

HasFunction(S, V, B) == \E f \in [S -> V] : f = B[f]

\* Such a body is the body of a function.
LEMMA Recursion ==
    ASSUME NEW S, NEW V, V # {}, NEW M \in [S -> Nat], NEW B \in [[S -> V] -> [S -> V]],
           LooksBelow(S, V, M, B)
    PROVE  HasFunction(S, V, B)
<1> DEFINE Upto(f, n) == \A x \in S : M[x] < n => f[x] = B[f][x]
           Some == {n \in Nat : \E f \in [S -> V] : Upto(f, n)}
           Off(f, g, n) == {M[x] : x \in {y \in S : M[y] < n /\ f[y] # g[y]}}
<1>1. \A f, g \in [S -> V] : \A x \in S :
          (\A y \in S : M[y] < M[x] => f[y] = g[y]) => B[f][x] = B[g][x]
  BY DEF LooksBelow
<1>2. \A f \in [S -> V] : B[f] \in [S -> V]
  OBVIOUS
<1>3. \A x \in S : M[x] \in Nat
  OBVIOUS
<1>4. Some = Nat
  <2>1. 0 \in Some
    <3>1. PICK v \in V : TRUE
      OBVIOUS
    <3> DEFINE f == [x \in S |-> v]
    <3>2. f \in [S -> V] /\ Upto(f, 0)
      BY <1>3
    <3> QED BY <3>2
  <2>2. ASSUME NEW n \in Some PROVE n + 1 \in Some
    <3>1. PICK f \in [S -> V] : Upto(f, n)
      OBVIOUS
    <3>2. B[f] \in [S -> V]
      BY <1>2
    <3>3. ASSUME NEW x \in S, M[x] < n + 1 PROVE B[f][x] = B[B[f]][x]
      <4>1. \A y \in S : M[y] < M[x] => f[y] = B[f][y]
        BY <1>3, <3>1, <3>3
      <4> QED BY <1>1, <3>2, <4>1
    <3>4. Upto(B[f], n + 1)
      BY <3>3
    <3>5. n + 1 \in Nat
      OBVIOUS
    <3> QED BY <3>2, <3>4, <3>5
  <2>3. Some \in SUBSET Nat
    OBVIOUS
  <2> HIDE DEF Some
  <2> QED BY <2>1, <2>2, <2>3, InductiveSet
<1>5. ASSUME NEW f \in [S -> V], NEW g \in [S -> V], NEW n \in Nat, Upto(f, n), Upto(g, n)
      PROVE  \A x \in S : M[x] < n => f[x] = g[x]
  <2> SUFFICES ASSUME NEW z \in S, M[z] < n, f[z] # g[z] PROVE FALSE
    OBVIOUS
  <2>1. M[z] \in Off(f, g, n)
    OBVIOUS
  <2>2. Off(f, g, n) \in SUBSET Nat
    BY <1>3
  <2>3. PICK m \in Off(f, g, n) : \A k \in Off(f, g, n) : m <= k
    <3> HIDE DEF Off
    <3> QED BY <2>1, <2>2, LeastNatural
  <2>4. PICK x \in S : m = M[x] /\ M[x] < n /\ f[x] # g[x]
    OBVIOUS
  <2>5. \A y \in S : M[y] < M[x] => f[y] = g[y]
    <3> TAKE y \in S
    <3> HAVE M[y] < M[x]
    <3>1. M[y] < n
      BY <1>3, <2>4
    <3>2. ~(m <= M[y])
      BY <1>3, <2>4
    <3> QED BY <2>3, <3>1, <3>2
  <2> QED BY <1>1, <1>5, <2>4, <2>5
<1> DEFINE F(n) == CHOOSE f \in [S -> V] : Upto(f, n)
<1>6. \A n \in Nat : F(n) \in [S -> V] /\ Upto(F(n), n)
  <2> TAKE n \in Nat
  <2>1. \E f \in [S -> V] : Upto(f, n)
    BY <1>4
  <2> HIDE DEF Upto
  <2> QED BY <2>1
<1> HIDE DEF F, Some
<1> DEFINE g == [x \in S |-> F(M[x] + 1)[x]]
<1>7. g \in [S -> V]
  <2>1. ASSUME NEW x \in S PROVE F(M[x] + 1)[x] \in V
    <3>1. M[x] + 1 \in Nat
      BY <1>3
    <3> QED BY <1>6, <3>1
  <2> QED BY <2>1
<1>8. ASSUME NEW x \in S PROVE g[x] = B[g][x]
  <2> DEFINE n == M[x] + 1
  <2>1. n \in Nat /\ M[x] < n
    BY <1>3
  <2>2. \A y \in S : M[y] < M[x] => g[y] = F(n)[y]
    <3> TAKE y \in S
    <3> HAVE M[y] < M[x]
    <3>1. M[y] + 1 \in Nat /\ M[y] < M[y] + 1 /\ M[y] + 1 <= n
      BY <1>3
    <3>2. F(n) \in [S -> V] /\ F(M[y] + 1) \in [S -> V] /\ Upto(F(n), n) /\ Upto(F(M[y] + 1), M[y] + 1)
      BY <1>6, <2>1, <3>1
    <3>3. Upto(F(n), M[y] + 1)
      BY <1>3, <2>1, <3>1, <3>2
    <3> QED BY <1>5, <3>1, <3>2, <3>3
  <2>3. F(n) \in [S -> V] /\ Upto(F(n), n)
    BY <1>6, <2>1
  <2>4. B[g][x] = B[F(n)][x]
    <3> HIDE DEF g, n
    <3> QED BY <1>1, <1>7, <2>2, <2>3
  <2> QED BY <2>1, <2>3, <2>4
<1> HIDE DEF g
<1>9. g = B[g]
  BY <1>2, <1>7, <1>8
<1> QED BY <1>7, <1>9 DEF HasFunction

\* Max of the community modules is a greatest element.
LEMMA MaxOfNaturals ==
    ASSUME NEW n \in Nat, NEW S \in SUBSET (0 .. n), S # {}
    PROVE  Max(S) \in S /\ \A m \in S : m <= Max(S)
<1> DEFINE R == {n - m : m \in S}
<1>1. R \in SUBSET Nat /\ R # {}
  <2>1. \A m \in S : n - m \in Nat
    OBVIOUS
  <2>2. R # {}
    OBVIOUS
  <2> QED BY <2>1, <2>2
<1>2. PICK r \in R : \A k \in R : r <= k
  <2> HIDE DEF R
  <2> QED BY <1>1, LeastNatural
<1>3. PICK m \in S : r = n - m
  OBVIOUS
<1>4. \A k \in S : m >= k
  <2> TAKE k \in S
  <2>1. r <= n - k
    BY <1>2
  <2> QED BY <1>3, <2>1
<1>5. \E x \in S : \A y \in S : x >= y
  BY <1>4
<1> QED BY <1>5 DEF Max

-----------------------------------------------------------------------------
(* Folds *)

\* The function that FoldLeft calls iter, when each of its steps is one of a
\* given function.
IsFold(iter, n, V, base, step) ==
    /\ iter \in [SUBSET (1 .. n) -> V]
    /\ \A s \in SUBSET (1 .. n) :
        iter[s] = IF s = {} THEN base ELSE step[<<iter[s \ {Max(s)}], Max(s)>>]

LEMMA FoldExists ==
    ASSUME NEW n \in Nat, NEW V, NEW base \in V, NEW step \in [V \X (1 .. n) -> V]
    PROVE  \E iter : IsFold(iter, n, V, base, step)
<1> DEFINE S == SUBSET (1 .. n)
           D(h, s) == IF s = {} THEN base ELSE step[<<h[s \ {Max(s)}], Max(s)>>]
           M == [s \in S |-> IF s = {} THEN 0 ELSE Max(s)]
           B == [h \in [S -> V] |-> [s \in S |-> D(h, s)]]
<1>1. ASSUME NEW s \in S, s # {}
      PROVE  /\ Max(s) \in s /\ s \ {Max(s)} \in S /\ M[s] = Max(s)
             /\ M[s \ {Max(s)}] < M[s]
  <2>1. s \in SUBSET (0 .. n)
    OBVIOUS
  <2>2. Max(s) \in s /\ \A m \in s : m <= Max(s)
    BY <1>1, <2>1, MaxOfNaturals
  <2> DEFINE rest == s \ {Max(s)}
  <2>3. rest \in S /\ Max(s) \in 1 .. n /\ M[s] = Max(s)
    BY <1>1, <2>2
  <2>4. CASE rest = {}
    BY <2>3, <2>4
  <2>5. CASE rest # {}
    <3>1. rest \in SUBSET (0 .. n)
      BY <2>1
    <3>2. Max(rest) \in rest
      BY <2>5, <3>1, MaxOfNaturals
    <3>3. M[rest] = Max(rest)
      BY <2>3, <2>5
    <3>4. Max(rest) <= Max(s) /\ Max(rest) # Max(s)
      BY <2>2, <3>2
    <3>5. Max(rest) \in 1 .. n
      BY <3>2
    <3> HIDE DEF M, rest
    <3> QED BY <2>3, <3>3, <3>4, <3>5, <2>2 DEF rest
  <2> QED BY <2>2, <2>3, <2>4, <2>5
<1>2. M \in [S -> Nat]
  <2>1. ASSUME NEW s \in S, s # {} PROVE Max(s) \in Nat
    <3>1. Max(s) \in s
      BY <1>1, <2>1
    <3>2. \A m \in s : m \in Nat
      OBVIOUS
    <3> QED BY <3>1, <3>2
  <2> QED BY <2>1
<1>3. B \in [[S -> V] -> [S -> V]]
  <2>1. ASSUME NEW h \in [S -> V], NEW s \in S PROVE D(h, s) \in V
    <3>1. CASE s # {}
      <4>1. h[s \ {Max(s)}] \in V /\ Max(s) \in 1 .. n
        BY <1>1, <3>1
      <4> QED BY <3>1, <4>1
    <3> QED BY <3>1
  <2> HIDE DEF D
  <2> QED BY <2>1
<1>4. LooksBelow(S, V, M, B)
  <2> HIDE DEF M, B, S
  <2> SUFFICES \A f, g \in [S -> V] : \A x \in S :
          (\A y \in S : M[y] < M[x] => f[y] = g[y]) => B[f][x] = B[g][x]
    BY DEF LooksBelow
  <2> USE DEF M, B, S
  <2> TAKE f, g \in [S -> V]
  <2> TAKE x \in S
  <2> HAVE \A y \in S : M[y] < M[x] => f[y] = g[y]
  <2>1. D(f, x) = D(g, x)
    BY <1>1
  <2>2. B[f][x] = D(f, x) /\ B[g][x] = D(g, x)
    OBVIOUS
  <2> HIDE DEF D, B
  <2> QED BY <2>1, <2>2
<1> HIDE DEF S, M, B
<1>5. PICK iter \in [S -> V] : iter = B[iter]
  <2> HIDE DEF D
  <2>1. V # {}
    OBVIOUS
  <2>2. HasFunction(S, V, B)
    BY <1>2, <1>3, <1>4, <2>1, Recursion
  <2> QED BY <2>2 DEF HasFunction
<1>6. ASSUME NEW s \in S PROVE iter[s] = D(iter, s)
  BY <1>5 DEF B
<1> QED BY <1>5, <1>6 DEF S, IsFold

\* The first k of them, without the last.
LEMMA MaxOfInterval ==
    ASSUME NEW k \in Nat
    PROVE  /\ 1 .. k + 1 # {} /\ Max(1 .. k + 1) = k + 1
           /\ (1 .. k + 1) \ {k + 1} = 1 .. k
<1>1. (1 .. k + 1) \in SUBSET (0 .. k + 1) /\ k + 1 \in 1 .. k + 1 /\ k + 1 \in Nat
  OBVIOUS
<1>2. Max(1 .. k + 1) \in 1 .. k + 1 /\ k + 1 <= Max(1 .. k + 1)
  BY <1>1, MaxOfNaturals
<1> QED BY <1>1, <1>2

\* A fold whose steps stay in a set ends in it.
StepsStay(fold, n, V) ==
    \A s \in SUBSET (1 .. n) : s # {} /\ fold[s \ {Max(s)}] \in V => fold[s] \in V

LEMMA FoldStays ==
    ASSUME NEW n \in Nat, NEW V, NEW fold, fold[{}] \in V, StepsStay(fold, n, V)
    PROVE  fold[1 .. n] \in V
<1> DEFINE Good == {k \in Nat : k <= n => fold[1 .. k] \in V}
<1>1. 0 \in Good
  <2>1. 1 .. 0 = {}
    OBVIOUS
  <2> QED BY <2>1
<1>2. ASSUME NEW k \in Good PROVE k + 1 \in Good
  <2>1. SUFFICES ASSUME k + 1 <= n PROVE fold[1 .. k + 1] \in V
    OBVIOUS
  <2>2. fold[1 .. k] \in V /\ 1 .. k + 1 \in SUBSET (1 .. n)
    BY <2>1
  <2>3. 1 .. k + 1 # {} /\ Max(1 .. k + 1) = k + 1 /\ (1 .. k + 1) \ {k + 1} = 1 .. k
    BY MaxOfInterval
  <2> DEFINE s == 1 .. k + 1
  <2>4. fold[s \ {Max(s)}] \in V /\ s \in SUBSET (1 .. n) /\ s # {}
    BY <2>2, <2>3
  <2> HIDE DEF s
  <2>5. fold[s] \in V
    BY <2>4 DEF StepsStay
  <2> QED BY <2>5 DEF s
<1>3. Good = Nat
  <2>1. Good \in SUBSET Nat
    OBVIOUS
  <2> HIDE DEF Good
  <2> QED BY <1>1, <1>2, <2>1, InductiveSet
<1> QED BY <1>3

\* The last element of a set of indices is one of them.
LEMMA MaxOfIndices ==
    ASSUME NEW n \in Nat, NEW s \in SUBSET (1 .. n), s # {}
    PROVE  Max(s) \in 1 .. n
<1>1. s \in SUBSET (0 .. n)
  OBVIOUS
<1>2. Max(s) \in s
  BY <1>1, MaxOfNaturals
<1> QED BY <1>2

-----------------------------------------------------------------------------
(* Induction over a measure, and sequences *)

\* Induction over a measure, in the form of a set.
Inherited(S, M, G) == \A x \in S : (\A y \in S : M[y] < M[x] => y \in G) => x \in G

LEMMA MeasuredSet ==
    ASSUME NEW S, NEW M \in [S -> Nat], NEW G \in SUBSET S, Inherited(S, M, G)
    PROVE  G = S
<1> USE DEF Inherited
<1> SUFFICES ASSUME NEW z \in S, z \notin G PROVE FALSE
  OBVIOUS
<1> DEFINE R == {M[x] : x \in S \ G}
<1>1. R \in SUBSET Nat /\ R # {}
  OBVIOUS
<1>2. PICK m \in R : \A k \in R : m <= k
  <2> HIDE DEF R
  <2> QED BY <1>1, LeastNatural
<1>3. PICK x \in S \ G : m = M[x]
  OBVIOUS
<1>4. ASSUME NEW y \in S, M[y] < M[x] PROVE y \in G
  <2>1. ~(M[x] <= M[y])
    <3>1. M[x] \in Nat /\ M[y] \in Nat
      OBVIOUS
    <3> QED BY <1>4, <3>1
  <2>2. SUFFICES ASSUME y \notin G PROVE FALSE
    OBVIOUS
  <2>3. M[y] \in R
    BY <2>2
  <2> HIDE DEF R
  <2> QED BY <1>2, <1>3, <2>1, <2>3
<1> QED BY <1>3, <1>4

\* Two sequences put together.
LEMMA Joined ==
    ASSUME NEW S, NEW s \in Seq(S), NEW t \in Seq(S)
    PROVE  s \o t \in Seq(S) /\ Len(s \o t) = Len(s) + Len(t)
BY ConcatProperties

FlattenBody(f, seqs, i) == IF i = 1 THEN seqs[i] ELSE f[i - 1] \o seqs[i]

\* Sequences of the same elements, one after the other: the first k of them,
FlattensTo(f, seqs, n, V) == f \in [1 .. n -> V] /\ \A i \in 1 .. n : f[i] = FlattenBody(f, seqs, i)

LEMMA FlattenSteps ==
    ASSUME NEW T, NEW seqs \in Seq(Seq(T)), NEW n \in Nat, n = Len(seqs), n # 0
    PROVE  \E f : FlattensTo(f, seqs, n, Seq(T)) /\ FlattenSeq(seqs) = f[n]
<1>n. n = Len(seqs) /\ n # 0 /\ \A i \in 1 .. n : seqs[i] \in Seq(T)
  OBVIOUS
<1> DEFINE S == 1 .. n
           V == Seq(T)
           M == [i \in S |-> i]
           B == [f \in [S -> V] |-> [i \in S |-> FlattenBody(f, seqs, i)]]
<1>1. M \in [S -> Nat] /\ <<>> \in V
  OBVIOUS
<1>2. ASSUME NEW i \in S, i # 1 PROVE i - 1 \in S /\ M[i - 1] < M[i]
  BY <1>2
<1>3. ASSUME NEW f, NEW i \in S, i # 1 => f[i - 1] \in V PROVE FlattenBody(f, seqs, i) \in V
  <2>1. CASE i = 1
    BY <1>n, <2>1 DEF FlattenBody
  <2>2. CASE i # 1
    <3>1. FlattenBody(f, seqs, i) = f[i - 1] \o seqs[i]
      BY <2>2 DEF FlattenBody
    <3> QED BY <1>n, <1>3, <2>2, <3>1, Joined
  <2> QED BY <2>1, <2>2
<1>4. B \in [[S -> V] -> [S -> V]]
  <2>1. ASSUME NEW f \in [S -> V], NEW i \in S PROVE FlattenBody(f, seqs, i) \in V
    <3> HIDE DEF S, V
    <3> QED BY <1>2, <1>3
  <2> HIDE DEF S, V
  <2> QED BY <2>1
<1>5. LooksBelow(S, V, M, B)
  <2> SUFFICES ASSUME NEW f \in [S -> V], NEW g \in [S -> V], NEW i \in S,
                      \A y \in S : M[y] < M[i] => f[y] = g[y]
               PROVE  B[f][i] = B[g][i]
    <3> HIDE DEF S, V, M, B
    <3> QED BY DEF LooksBelow
  <2>1. FlattenBody(f, seqs, i) = FlattenBody(g, seqs, i)
    <3> HIDE DEF S, V, M
    <3> QED BY <1>2 DEF FlattenBody
  <2> HIDE DEF S, V, M
  <2> QED BY <2>1
<1>6. PICK flatten \in [S -> V] : flatten = B[flatten]
  <2> HIDE DEF S, V, M, B
  <2>1. HasFunction(S, V, B)
    BY <1>1, <1>4, <1>5, Recursion
  <2> QED BY <2>1 DEF HasFunction
<1>7. flatten = [i \in S |-> FlattenBody(flatten, seqs, i)]
  <2> HIDE DEF S, V
  <2> QED BY <1>6 DEF B
<1>8. PICK f : f = [i \in S |-> FlattenBody(f, seqs, i)] /\ FlattenSeq(seqs) = f[n]
  <2>1. \E f : f = [i \in S |-> FlattenBody(f, seqs, i)]
    BY <1>7
  <2> QED BY <1>n, <2>1 DEF FlattenSeq, FlattenBody
<1> DEFINE G == {i \in S : f[i] \in V}
<1>9. Inherited(S, M, G)
  <2> SUFFICES ASSUME NEW i \in S, \A y \in S : M[y] < M[i] => y \in G PROVE i \in G
    <3> HIDE DEF S, M, G
    <3> QED BY DEF Inherited
  <2> HIDE DEF S, V, M
  <2>1. i # 1 => f[i - 1] \in V
    BY <1>2
  <2>2. FlattenBody(f, seqs, i) \in V
    BY <1>3, <2>1
  <2>3. f[i] = FlattenBody(f, seqs, i)
    BY <1>8
  <2> QED BY <2>2, <2>3
<1>10. G = S
  <2>1. G \in SUBSET S
    OBVIOUS
  <2> HIDE DEF S, M, G
  <2> QED BY <1>1, <1>9, <2>1, MeasuredSet
<1>11. f = [i \in 1 .. n |-> FlattenBody(f, seqs, i)] /\ FlattenSeq(seqs) = f[n] /\ \A i \in 1 .. n : f[i] \in Seq(T)
  BY <1>8, <1>10
<1>12. \A i \in 1 .. n : f[i] = FlattenBody(f, seqs, i)
  BY <1>11
<1>13. f \in [1 .. n -> Seq(T)]
  BY ONLY <1>11
<1> QED BY ONLY <1>11, <1>12, <1>13 DEF FlattensTo

\* and all of them.
LEMMA Flattened ==
    ASSUME NEW T, NEW seqs \in Seq(Seq(T))
    PROVE  FlattenSeq(seqs) \in Seq(T)
<1>1. PICK n \in Nat : n = Len(seqs)
  OBVIOUS
<1>2. CASE n = 0
  <2>1. seqs = <<>>
    BY <1>1, <1>2, EmptySeq
  <2>2. FlattenSeq(seqs) = seqs
    BY <1>1, <1>2 DEF FlattenSeq
  <2>3. <<>> \in Seq(T)
    OBVIOUS
  <2> QED BY <2>1, <2>2, <2>3
<1>3. CASE n # 0
  <2>1. PICK f : FlattensTo(f, seqs, n, Seq(T)) /\ FlattenSeq(seqs) = f[n]
    BY <1>1, <1>3, FlattenSteps
  <2>2. n \in 1 .. n
    BY <1>3
  <2> QED BY ONLY <2>1, <2>2 DEF FlattensTo
<1> QED BY <1>2, <1>3

-----------------------------------------------------------------------------
(* What is in a sequence, and how often *)

Elements(s) == {s[k] : k \in DOMAIN s}
Once(s) == \A j, k \in DOMAIN s : s[j] = s[k] => j = k

LEMMA JoinedElements ==
    ASSUME NEW S, NEW s \in Seq(S), NEW t \in Seq(S)
    PROVE  /\ Elements(s \o t) = Elements(s) \cup Elements(t)
           /\ Once(s) /\ Once(t) /\ Elements(s) \cap Elements(t) = {} => Once(s \o t)
<1> DEFINE u == s \o t
<1>1. /\ Len(u) = Len(s) + Len(t) /\ u \in Seq(S)
      /\ \A k \in 1 .. Len(s) + Len(t) : u[k] = IF k <= Len(s) THEN s[k] ELSE t[k - Len(s)]
  BY ConcatProperties
<1>2. /\ Len(s) \in Nat /\ Len(t) \in Nat /\ DOMAIN s = 1 .. Len(s) /\ DOMAIN t = 1 .. Len(t)
      /\ DOMAIN u = 1 .. Len(s) + Len(t)
  BY <1>1
<1> HIDE DEF u
<1>3. \A k \in DOMAIN u : \/ k \in DOMAIN s /\ u[k] = s[k]
                          \/ k - Len(s) \in DOMAIN t /\ u[k] = t[k - Len(s)]
  BY ONLY <1>1, <1>2
<1>4. \A k \in DOMAIN s : k \in DOMAIN u /\ u[k] = s[k]
  BY ONLY <1>1, <1>2
<1>5. \A k \in DOMAIN t : Len(s) + k \in DOMAIN u /\ u[Len(s) + k] = t[k]
  <2> SUFFICES ASSUME NEW k \in DOMAIN t PROVE Len(s) + k \in DOMAIN u /\ u[Len(s) + k] = t[k]
    OBVIOUS
  <2> DEFINE j == Len(s) + k
  <2>1. j \in 1 .. Len(s) + Len(t) /\ ~(j <= Len(s)) /\ j - Len(s) = k
    BY ONLY <1>2, k \in DOMAIN t
  <2> HIDE DEF j
  <2>2. j \in DOMAIN u /\ u[j] = t[k]
    BY ONLY <1>1, <1>2, <2>1
  <2> QED BY <2>2 DEF j
<1>6. Elements(u) = Elements(s) \cup Elements(t)
  <2>1. Elements(u) \subseteq Elements(s) \cup Elements(t)
    BY ONLY <1>3 DEF Elements
  <2>2. Elements(s) \subseteq Elements(u)
    BY ONLY <1>4 DEF Elements
  <2>3. Elements(t) \subseteq Elements(u)
    BY ONLY <1>5 DEF Elements
  <2> QED BY ONLY <2>1, <2>2, <2>3
<1>7. ASSUME Once(s), Once(t), Elements(s) \cap Elements(t) = {} PROVE Once(u)
  <2> SUFFICES ASSUME NEW j \in DOMAIN u, NEW k \in DOMAIN u, u[j] = u[k] PROVE j = k
    BY DEF Once
  <2>1. \A a \in DOMAIN s, b \in DOMAIN t : s[a] # t[b]
    BY <1>7 DEF Elements
  <2>2. CASE j \in DOMAIN s /\ u[j] = s[j] /\ k \in DOMAIN s /\ u[k] = s[k]
    BY <2>2, <1>7 DEF Once
  <2>3. CASE /\ j - Len(s) \in DOMAIN t /\ u[j] = t[j - Len(s)]
             /\ k - Len(s) \in DOMAIN t /\ u[k] = t[k - Len(s)]
    <3>1. j - Len(s) = k - Len(s)
      BY <2>3, <1>7 DEF Once
    <3>2. j \in Nat /\ k \in Nat
      BY <1>2
    <3> QED BY ONLY <1>2, <3>1, <3>2
  <2> QED BY <1>3, <2>1, <2>2, <2>3
<1> QED BY <1>6, <1>7 DEF u

LEMMA AppendedElements ==
    ASSUME NEW S, NEW s \in Seq(S), NEW e \in S
    PROVE  /\ Append(s, e) \in Seq(S) /\ Elements(Append(s, e)) = Elements(s) \cup {e}
           /\ Once(s) /\ e \notin Elements(s) => Once(Append(s, e))
<1> DEFINE u == Append(s, e)
           n == Len(s) + 1
<1>1. /\ u \in Seq(S) /\ DOMAIN s = 1 .. Len(s) /\ Len(s) \in Nat /\ DOMAIN u = 1 .. n
      /\ u[n] = e /\ \A k \in 1 .. Len(s) : u[k] = s[k]
  OBVIOUS
<1> HIDE DEF u
<1>2. DOMAIN u = DOMAIN s \cup {n} /\ \A k \in DOMAIN s : u[k] = s[k]
  BY ONLY <1>1
<1>3. Elements(u) = Elements(s) \cup {e}
  BY ONLY <1>1, <1>2 DEF Elements
<1>4. ASSUME Once(s), e \notin Elements(s) PROVE Once(u)
  BY ONLY <1>1, <1>2, <1>4 DEF Elements, Once
<1> QED BY <1>1, <1>3, <1>4 DEF u

\* The elements of sequences put one after the other, when no two share any.
Apart(seqs) ==
    /\ \A i \in DOMAIN seqs : Once(seqs[i])
    /\ \A i, j \in DOMAIN seqs : i # j => Elements(seqs[i]) \cap Elements(seqs[j]) = {}
Among(seqs, k) == UNION {Elements(seqs[i]) : i \in 1 .. k}

LEMMA FlattenedOnce ==
    ASSUME NEW T, NEW seqs \in Seq(Seq(T)), Apart(seqs)
    PROVE  /\ FlattenSeq(seqs) \in Seq(T) /\ Once(FlattenSeq(seqs))
           /\ Elements(FlattenSeq(seqs)) = UNION {Elements(seqs[i]) : i \in DOMAIN seqs}
<1>1. PICK n \in Nat : n = Len(seqs) /\ DOMAIN seqs = 1 .. n /\ \A i \in 1 .. n : seqs[i] \in Seq(T)
  OBVIOUS
<1>2. CASE n = 0
  <2>1. seqs = <<>> /\ FlattenSeq(seqs) = seqs
    BY <1>1, <1>2, EmptySeq DEF FlattenSeq
  <2>2. <<>> \in Seq(T) /\ DOMAIN <<>> = {}
    OBVIOUS
  <2> QED BY ONLY <2>1, <2>2 DEF Once, Elements
<1>3. CASE n # 0
  <2>1. PICK f : FlattensTo(f, seqs, n, Seq(T)) /\ FlattenSeq(seqs) = f[n]
    BY <1>1, <1>3, FlattenSteps
  <2> DEFINE Right(k) == Once(f[k]) /\ Elements(f[k]) = Among(seqs, k)
             Good == {k \in Nat : k + 1 <= n => Right(k + 1)}
  <2>2. 0 \in Good
    <3>0. 1 \in 1 .. n
      BY <1>3
    <3>1. f[1] = seqs[1] /\ 1 \in 1 .. n
      BY ONLY <2>1, <3>0 DEF FlattensTo, FlattenBody
    <3>2. 1 .. 1 = {1}
      OBVIOUS
    <3>3. Among(seqs, 1) = Elements(seqs[1])
      BY ONLY <3>2 DEF Among
    <3>4. Once(seqs[1])
      BY <1>1, <3>1 DEF Apart
    <3>5. Right(1)
      BY ONLY <3>1, <3>3, <3>4
    <3> HIDE DEF Right
    <3> QED BY <3>5
  <2>3. ASSUME NEW k \in Good PROVE k + 1 \in Good
    <3>0. k \in Nat
      OBVIOUS
    <3> SUFFICES ASSUME (k + 1) + 1 <= n PROVE Right((k + 1) + 1)
      BY <3>0
    <3> DEFINE m == k + 1
               l == m + 1
    <3>1. m \in 1 .. n /\ l \in 1 .. n /\ l # 1 /\ l - 1 = m /\ k + 1 <= n
      BY <3>0, <1>1
    <3>2. Right(m)
      <4> HIDE DEF Right
      <4> QED BY <3>1
    <3> HIDE DEF m, l, Good
    <3>3. f[l] = f[m] \o seqs[l] /\ f[m] \in Seq(T) /\ seqs[l] \in Seq(T)
      BY ONLY <1>1, <2>1, <3>1 DEF FlattensTo, FlattenBody
    <3>4. 1 .. l = (1 .. m) \cup {l} /\ l \notin 1 .. m /\ 1 .. m \subseteq 1 .. n
      BY <3>0, <3>1, <1>1 DEF m, l
    <3>5. Elements(f[l]) = Elements(f[m]) \cup Elements(seqs[l])
      BY ONLY <3>3, JoinedElements
    <3>6. Among(seqs, l) = Among(seqs, m) \cup Elements(seqs[l])
      BY ONLY <3>4 DEF Among
    <3>7. Elements(f[m]) \cap Elements(seqs[l]) = {}
      <4>1. \A j \in 1 .. m : Elements(seqs[j]) \cap Elements(seqs[l]) = {}
        BY <1>1, <3>1, <3>4 DEF Apart
      <4>2. Elements(f[m]) = Among(seqs, m)
        BY <3>2
      <4> QED BY ONLY <4>1, <4>2 DEF Among
    <3>8. Once(seqs[l])
      BY <1>1, <3>1 DEF Apart
    <3>9. Once(f[l])
      BY ONLY <3>2, <3>3, <3>7, <3>8, JoinedElements
    <3>10. Right(l)
      BY ONLY <3>2, <3>5, <3>6, <3>9
    <3> HIDE DEF Right
    <3> QED BY <3>10 DEF l, m
  <2>4. Good = Nat
    <3>1. Good \in SUBSET Nat
      OBVIOUS
    <3> HIDE DEF Good
    <3> QED BY <2>2, <2>3, <3>1, InductiveSet
  <2>5. Right(n)
    <3>1. n - 1 \in Nat /\ (n - 1) + 1 = n
      BY <1>3
    <3>2. n - 1 \in Good
      BY <2>4, <3>1
    <3> HIDE DEF Right
    <3> QED BY <3>1, <3>2
  <2>6. f[n] \in Seq(T)
    BY <1>3, <2>1 DEF FlattensTo
  <2> QED BY <1>1, <2>1, <2>5, <2>6 DEF Among
<1> QED BY <1>2, <1>3

=============================================================================
