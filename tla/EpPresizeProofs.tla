-------------------------- MODULE EpPresizeProofs --------------------------
(***************************************************************************)
(* That the walk of stack_ensure_all never enters a node it is inside of,  *)
(* that neither it nor a codec writes past the end of a stack, and that    *)
(* what the walk reserves is enough for every message that is not inside   *)
(* itself, for every schema.                                               *)
(***************************************************************************)
EXTENDS EpPresize, SequenceTheorems, TLAPS

\* A list stands right below its element, and a node nowhere else.
PathUnique ==
    \A j, k \in DOMAIN path :
        j < k /\ path[j].node = path[k].node =>
            k = j + 1 /\ path[j].type = "list" /\ path[k].type = "tuple"

IInv ==
    /\ TypeOK
    /\ InsideStack
    /\ phase = "walk" => PathUnique
    /\ phase = "resize" => path = <<>>

-----------------------------------------------------------------------------

\* stack_ensure makes room for one more spot.
LEMMA EnsureRoom ==
    ASSUME size \in [Slot -> Nat \ {0}], NEW s \in Slot, NEW depth \in Nat, depth <= size[s] + 1
    PROVE  Ensure(s, depth) \in [Slot -> Nat \ {0}] /\ depth <= Ensure(s, depth)[s]
<1>1. CASE depth > size[s]
  <2>1. size[s] \in Nat \ {0}
    OBVIOUS
  <2>2. Ensure(s, depth) = [size EXCEPT ![s] = 2 * @]
    BY <1>1 DEF Ensure
  <2>3. 2 * size[s] \in Nat \ {0} /\ depth <= 2 * size[s]
    BY <2>1
  <2> QED
    BY <2>2, <2>3
<1>2. CASE ~(depth > size[s])
  BY <1>2 DEF Ensure
<1> QED
  BY <1>1, <1>2

\* At changes no spot's type and node.
LEMMA AtKeeps ==
    ASSUME path \in Seq(Spot), path # <<>>, NEW pos \in Nat
    PROVE  /\ At(pos) \in Seq(Spot) /\ Len(At(pos)) = Len(path)
           /\ \A k \in DOMAIN path : At(pos)[k].type = path[k].type /\ At(pos)[k].node = path[k].node
           /\ \A k \in DOMAIN path : k # Len(path) => At(pos)[k] = path[k]
           /\ At(pos)[Len(path)].pos = pos
<1>1. Len(path) \in DOMAIN path /\ Top \in Spot
  BY DEF Top
<1>2. [Top EXCEPT !.pos = pos] \in Spot
  BY <1>1 DEF Spot
<1>3. At(pos) \in Seq(Spot) /\ Len(At(pos)) = Len(path)
  BY <1>1, <1>2 DEF At
<1>4. /\ At(pos)[Len(path)] = [Top EXCEPT !.pos = pos]
      /\ \A k \in DOMAIN path : k # Len(path) => At(pos)[k] = path[k]
  BY <1>1 DEF At
<1> QED
  BY <1>1, <1>2, <1>3, <1>4 DEF Top, Spot

\* Leaving a spot leaves the ones below as they are.
LEMMA LeaveKeeps ==
    ASSUME path \in Seq(Spot), path # <<>>, NEW q, q = SubSeq(path, 1, Len(path) - 1)
    PROVE  /\ q \in Seq(Spot) /\ Len(q) = Len(path) - 1
           /\ \A k \in DOMAIN q : k \in DOMAIN path /\ q[k] = path[k]
<1>1. 1 \in 1 .. Len(path) + 1 /\ Len(path) - 1 \in 0 .. Len(path) /\ Len(path) \in Nat \ {0}
  OBVIOUS
<1> DEFINE n == Len(path) - 1
<1>2. n \in Int /\ 1 \in Int /\ \A k \in 1 .. n : path[k] \in Spot
  BY <1>1
<1>3. /\ SubSeq(path, 1, n) \in Seq(Spot)
      /\ Len(SubSeq(path, 1, n)) = IF 1 <= n THEN n - 1 + 1 ELSE 0
      /\ \A k \in 1 .. n - 1 + 1 : SubSeq(path, 1, n)[k] = path[1 + k - 1]
  <2> HIDE DEF n
  <2> QED
    BY <1>2, SubSeqProperties
<1>4. Len(q) = n /\ q \in Seq(Spot)
  <2>1. n \in Nat /\ q = SubSeq(path, 1, n)
    BY <1>1
  <2> HIDE DEF n
  <2> QED
    BY <1>3, <2>1
<1>5. \A k \in 1 .. n : k \in DOMAIN path /\ q[k] = path[k]
  BY <1>1, <1>3
<1> QED
  BY <1>4, <1>5

\* Entering a spot, by the walk or by a codec: either there is room now, or
\* the walk or the codec has failed.
LEMMA PushKeeps ==
    ASSUME IInv, NEW s \in Slot, NEW q \in Seq(Spot), NEW new \in Spot,
           Len(q) = Len(path), Len(path) <= size[s], Push(s, Append(q, new)),
           UNCHANGED <<schema, i, busy>>
    PROVE  /\ size' \in [Slot -> Nat \ {0}]
           /\ path' \in Seq(Spot)
           /\ \/ path' = Append(q, new) /\ phase' = phase /\ Len(path') <= size'[s]
              \/ path' = path /\ phase' = "failed"
<1>1. size \in [Slot -> Nat \ {0}] /\ path \in Seq(Spot)
  BY DEF IInv, TypeOK
<1>2. Len(Append(q, new)) \in Nat /\ Len(Append(q, new)) <= size[s] + 1 /\ Append(q, new) \in Seq(Spot)
  BY <1>1
<1>3. CASE path' = Append(q, new) /\ size' = Ensure(s, Len(Append(q, new))) /\ UNCHANGED phase
  <2>1. size' \in [Slot -> Nat \ {0}] /\ Len(Append(q, new)) <= size'[s]
    BY <1>1, <1>2, <1>3, EnsureRoom
  <2> QED
    BY <1>2, <1>3, <2>1
<1>4. CASE phase' = "failed" /\ UNCHANGED <<path, size>>
  BY <1>1, <1>4
<1> QED
  BY <1>3, <1>4 DEF Push

\* load() leaves empty stacks with room for a first spot.
LEMMA InitHolds == Init => IInv
<1> SUFFICES ASSUME Init PROVE IInv
  OBVIOUS
<1> USE DEF Init
<1>1. 0 \in Slot
  BY PresizeAssumption DEF Slot
<1>2. TypeOK
  BY <1>1, PresizeAssumption DEF TypeOK
<1>3. InsideStack /\ PathUnique
  BY <1>1, PresizeAssumption DEF InsideStack, PathUnique
<1> QED
  BY <1>2, <1>3 DEF IInv

\* The walk goes down to a node that is nowhere on its path.
LEMMA GoDownKeeps == IInv /\ GoDown => IInv'
<1> SUFFICES ASSUME IInv, GoDown PROVE IInv'
  OBVIOUS
<1> USE DEF IInv
<1>1. 0 \in Slot
  BY PresizeAssumption DEF Slot
<1>2. /\ path \in Seq(Spot) /\ path # <<>> /\ Top \in Spot /\ Top.node \in Node
      /\ phase = "walk" /\ Len(path) <= size[0]
  <2>1. phase = "walk" /\ path # <<>> /\ path \in Seq(Spot)
    BY DEF GoDown, Walking, TypeOK
  <2>2. Len(path) \in DOMAIN path
    BY <2>1
  <2>3. Top \in Spot
    BY <2>1, <2>2 DEF Top
  <2>4. Len(path) <= size[0]
    BY <2>1 DEF InsideStack
  <2> QED
    BY <2>1, <2>3, <2>4 DEF Spot
<1>3. PICK j \in Ahead : Push(0, Append(At(j), Below(Fields[j])))
  BY DEF GoDown
<1>4. Fields \in Seq(Field) /\ j \in 1 .. Len(Fields) /\ j \in Nat
  BY <1>2, <1>3 DEF Ahead, Fields, TypeOK, Spot
<1>5. Fields[j] \in Kind \X Node
  BY <1>4 DEF Field
<1>6. /\ Below(Fields[j]) \in Spot /\ Below(Fields[j]).node = Fields[j][2]
      /\ Below(Fields[j]).pos = 0
  BY <1>5 DEF Below, Spot, Tuple, List
<1>7. /\ At(j) \in Seq(Spot) /\ Len(At(j)) = Len(path)
      /\ \A k \in DOMAIN path : At(j)[k].type = path[k].type /\ At(j)[k].node = path[k].node
      /\ \A k \in DOMAIN path : k # Len(path) => At(j)[k] = path[k]
      /\ At(j)[Len(path)].pos = j
  BY <1>2, <1>4, AtKeeps
<1>8. UNCHANGED <<schema, i, busy>>
  BY DEF GoDown
<1>9. /\ size' \in [Slot -> Nat \ {0}] /\ path' \in Seq(Spot)
      /\ \/ path' = Append(At(j), Below(Fields[j])) /\ phase' = phase /\ Len(path') <= size'[0]
         \/ path' = path /\ phase' = "failed"
  BY <1>1, <1>2, <1>3, <1>6, <1>7, <1>8, PushKeeps
<1>10. CASE path' = Append(At(j), Below(Fields[j])) /\ phase' = phase /\ Len(path') <= size'[0]
  <2>1. ASSUME NEW k \in DOMAIN path'
        PROVE  \/ k \in DOMAIN path /\ path'[k] = At(j)[k]
               \/ k = Len(path) + 1 /\ path'[k] = Below(Fields[j])
    BY <1>2, <1>6, <1>7, <1>10
  <2>2. \A k \in DOMAIN path' : path'[k].type = "tuple" => path'[k].pos <= Len(fields[path'[k].node])
    <3> SUFFICES ASSUME NEW k \in DOMAIN path', path'[k].type = "tuple"
                 PROVE  path'[k].pos <= Len(fields[path'[k].node])
      OBVIOUS
    <3>1. CASE k \in DOMAIN path /\ k # Len(path) /\ path'[k] = At(j)[k]
      BY <1>7, <3>1 DEF TypeOK
    <3>2. CASE k = Len(path) /\ path'[k] = At(j)[k]
      <4>1. path'[k].pos = j /\ path'[k].node = Top.node
        BY <1>2, <1>7, <3>2 DEF Top
      <4> QED
        BY <1>4, <4>1 DEF Fields
    <3>3. CASE k = Len(path) + 1 /\ path'[k] = Below(Fields[j])
      <4>1. fields[Fields[j][2]] \in Seq(Field)
        BY <1>5 DEF TypeOK
      <4> QED
        BY <1>6, <3>3, <4>1
    <3> QED
      BY <2>1, <3>1, <3>2, <3>3
  <2>3. TypeOK'
    BY <1>8, <1>9, <1>10, <2>2 DEF TypeOK, schema
  <2>4. PathUnique'
    <3>1. \A k \in DOMAIN path : path[k].node # Fields[j][2]
      BY <1>3 DEF Ahead, Descends, OnPath
    <3>2. ASSUME NEW k \in DOMAIN path', NEW l \in DOMAIN path', k < l, path'[k].node = path'[l].node
          PROVE  l = k + 1 /\ path'[k].type = "list" /\ path'[l].type = "tuple"
      <4>1. k \in DOMAIN path /\ path'[k].type = path[k].type /\ path'[k].node = path[k].node
        BY <1>2, <1>7, <1>10, <2>1, <3>2
      <4>2. l \in DOMAIN path /\ path'[l].type = path[l].type /\ path'[l].node = path[l].node
        BY <1>6, <1>7, <2>1, <3>1, <3>2, <4>1
      <4> QED
        BY <1>2, <3>2, <4>1, <4>2 DEF PathUnique
    <3> QED
      BY <3>2 DEF PathUnique
  <2> QED
    BY <1>2, <1>10, <2>3, <2>4 DEF InsideStack
<1>11. CASE path' = path /\ phase' = "failed"
  BY <1>8, <1>9, <1>11 DEF TypeOK, InsideStack, schema
<1> QED
  BY <1>9, <1>10, <1>11

\* The walk goes from a list to its element, which the list stands above.
LEMMA EnterElementKeeps == IInv /\ EnterElement => IInv'
<1> SUFFICES ASSUME IInv, EnterElement PROVE IInv'
  OBVIOUS
<1> USE DEF IInv
<1>1. 0 \in Slot
  BY PresizeAssumption DEF Slot
<1>2. phase = "walk" /\ path # <<>> /\ path \in Seq(Spot) /\ Top.type = "list" /\ Len(path) <= size[0]
  <2>1. phase = "walk" /\ path # <<>> /\ path \in Seq(Spot) /\ Top.type = "list"
    BY DEF EnterElement, Walking, TypeOK
  <2> QED
    BY <2>1 DEF InsideStack
<1>3. Len(path) \in DOMAIN path /\ Top = path[Len(path)] /\ Top \in Spot
  BY <1>2 DEF Top
<1>4. Tuple(Top.node) \in Spot /\ Tuple(Top.node).node = Top.node
      /\ Tuple(Top.node).type = "tuple" /\ Tuple(Top.node).pos = 0 /\ Top.node \in Node
  BY <1>3 DEF Spot, Tuple
<1>5. /\ At(1) \in Seq(Spot) /\ Len(At(1)) = Len(path)
      /\ \A k \in DOMAIN path : At(1)[k].type = path[k].type /\ At(1)[k].node = path[k].node
      /\ \A k \in DOMAIN path : k # Len(path) => At(1)[k] = path[k]
  BY <1>2, AtKeeps
<1>6. UNCHANGED <<schema, i, busy>> /\ Push(0, Append(At(1), Tuple(Top.node)))
  BY DEF EnterElement
<1>7. /\ size' \in [Slot -> Nat \ {0}] /\ path' \in Seq(Spot)
      /\ \/ path' = Append(At(1), Tuple(Top.node)) /\ phase' = phase /\ Len(path') <= size'[0]
         \/ path' = path /\ phase' = "failed"
  BY <1>1, <1>2, <1>4, <1>5, <1>6, PushKeeps
<1>8. CASE path' = Append(At(1), Tuple(Top.node)) /\ phase' = phase /\ Len(path') <= size'[0]
  <2>1. ASSUME NEW k \in DOMAIN path'
        PROVE  \/ k \in DOMAIN path /\ path'[k] = At(1)[k]
               \/ k = Len(path) + 1 /\ path'[k] = Tuple(Top.node)
    BY <1>2, <1>4, <1>5, <1>8
  <2>2. \A k \in DOMAIN path' : path'[k].type = "tuple" => path'[k].pos <= Len(fields[path'[k].node])
    <3> SUFFICES ASSUME NEW k \in DOMAIN path', path'[k].type = "tuple"
                 PROVE  path'[k].pos <= Len(fields[path'[k].node])
      OBVIOUS
    <3>1. CASE k \in DOMAIN path /\ path'[k] = At(1)[k]
      BY <1>2, <1>3, <1>5, <3>1 DEF TypeOK
    <3>2. CASE k = Len(path) + 1 /\ path'[k] = Tuple(Top.node)
      <4>1. fields[Top.node] \in Seq(Field)
        BY <1>4 DEF TypeOK
      <4> QED
        BY <1>4, <3>2, <4>1
    <3> QED
      BY <2>1, <3>1, <3>2
  <2>3. TypeOK'
    BY <1>6, <1>7, <1>8, <2>2 DEF TypeOK, schema
  <2>4. PathUnique'
    <3>1. \A k \in DOMAIN path : path[k].node = Top.node => k = Len(path)
      BY <1>2, <1>3 DEF PathUnique
    <3>2. ASSUME NEW k \in DOMAIN path', NEW l \in DOMAIN path', k < l, path'[k].node = path'[l].node
          PROVE  l = k + 1 /\ path'[k].type = "list" /\ path'[l].type = "tuple"
      <4>1. k \in DOMAIN path /\ path'[k].type = path[k].type /\ path'[k].node = path[k].node
        BY <1>2, <1>5, <1>8, <2>1, <3>2
      <4>2. CASE l \in DOMAIN path /\ path'[l] = At(1)[l]
        <5>1. path'[l].type = path[l].type /\ path'[l].node = path[l].node
          BY <1>5, <4>2
        <5> QED
          BY <1>2, <3>2, <4>1, <4>2, <5>1 DEF PathUnique
      <4>3. CASE l = Len(path) + 1 /\ path'[l] = Tuple(Top.node)
        <5>1. k = Len(path)
          BY <1>4, <3>1, <3>2, <4>1, <4>3
        <5> QED
          BY <1>2, <1>3, <1>4, <4>1, <4>3, <5>1
      <4> QED
        BY <2>1, <4>2, <4>3
    <3> QED
      BY <3>2 DEF PathUnique
  <2> QED
    BY <1>2, <1>8, <2>3, <2>4 DEF InsideStack
<1>9. CASE path' = path /\ phase' = "failed"
  BY <1>6, <1>7, <1>9 DEF TypeOK, InsideStack, schema
<1> QED
  BY <1>7, <1>8, <1>9

\* The walk looks at the fields of a spot and moves on to none of them.
LEMMA AtLastKeeps ==
    ASSUME IInv, Walking("tuple"), path' = At(Len(Fields)), UNCHANGED <<schema, phase, i, size, busy>>
    PROVE  IInv'
<1> USE DEF IInv
<1>1. phase = "walk" /\ path # <<>> /\ path \in Seq(Spot)
  BY DEF Walking, TypeOK
<1>2. Len(path) \in DOMAIN path /\ Top = path[Len(path)] /\ Top \in Spot
  BY <1>1 DEF Top
<1>3. Fields \in Seq(Field) /\ Len(Fields) \in Nat /\ Fields = fields[Top.node]
  BY <1>2 DEF Fields, TypeOK, Spot
<1>4. /\ path' \in Seq(Spot) /\ Len(path') = Len(path)
      /\ \A k \in DOMAIN path : path'[k].type = path[k].type /\ path'[k].node = path[k].node
      /\ \A k \in DOMAIN path : k # Len(path) => path'[k] = path[k]
      /\ path'[Len(path)].pos = Len(Fields)
  BY <1>1, <1>3, AtKeeps
<1>5. DOMAIN path' = DOMAIN path
  BY <1>1, <1>4
<1>6. \A k \in DOMAIN path' : path'[k].type = "tuple" => path'[k].pos <= Len(fields[path'[k].node])
  <2> SUFFICES ASSUME NEW k \in DOMAIN path, path'[k].type = "tuple"
               PROVE  path'[k].pos <= Len(fields[path'[k].node])
    BY <1>5
  <2>1. CASE k = Len(path)
    BY <1>2, <1>3, <1>4, <2>1
  <2>2. CASE k # Len(path)
    BY <1>4, <2>2 DEF TypeOK
  <2> QED
    BY <2>1, <2>2
<1>7. TypeOK'
  BY <1>4, <1>6 DEF TypeOK, schema
<1>8. PathUnique'
  BY <1>1, <1>4, <1>5 DEF PathUnique
<1>9. InsideStack'
  BY <1>1, <1>4 DEF InsideStack
<1> QED
  BY <1>1, <1>7, <1>8, <1>9

\* The walk or a codec leaves a spot.
LEMMA PopKeeps ==
    ASSUME IInv, path # <<>>, path' = SubSeq(path, 1, Len(path) - 1), UNCHANGED <<schema, phase, i, size, busy>>
    PROVE  IInv'
<1> USE DEF IInv
<1>1. path \in Seq(Spot) /\ phase # "resize"
  BY DEF TypeOK
<1>2. /\ path' \in Seq(Spot) /\ Len(path') = Len(path) - 1
      /\ \A k \in DOMAIN path' : k \in DOMAIN path /\ path'[k] = path[k]
  BY <1>1, LeaveKeeps
<1>3. \A k \in DOMAIN path' : path'[k].type = "tuple" => path'[k].pos <= Len(fields[path'[k].node])
  BY <1>2 DEF TypeOK
<1>4. TypeOK'
  BY <1>2, <1>3 DEF TypeOK, schema
<1>5. phase = "walk" => PathUnique'
  BY <1>2 DEF PathUnique
<1>6. InsideStack'
  <2>1. ASSUME phase # "failed"
        PROVE  Len(path') <= size[IF phase = "serve" THEN busy ELSE 0]
    <3>1. IF phase = "serve" THEN busy \in Slot ELSE 0 \in Slot
      BY PresizeAssumption DEF TypeOK, Slot
    <3>2. size[IF phase = "serve" THEN busy ELSE 0] \in Nat
      BY <3>1 DEF TypeOK
    <3> QED
      BY <1>1, <1>2, <2>1, <3>2 DEF InsideStack
  <2> QED
    BY <2>1 DEF InsideStack
<1> QED
  BY <1>1, <1>4, <1>5, <1>6

\* A codec goes down to a spot.
LEMMA NestKeeps ==
    ASSUME IInv, phase = "serve", path # <<>>, NEW new \in Spot, new.pos = 0, new.node \in Node,
           Push(busy, Append(path, new)), UNCHANGED <<schema, i, busy>>
    PROVE  IInv'
<1> USE DEF IInv
<1>1. path \in Seq(Spot) /\ busy \in Slot /\ Len(path) <= size[busy]
  BY DEF TypeOK, InsideStack
<1>2. /\ size' \in [Slot -> Nat \ {0}] /\ path' \in Seq(Spot)
      /\ \/ path' = Append(path, new) /\ phase' = phase /\ Len(path') <= size'[busy]
         \/ path' = path /\ phase' = "failed"
  BY <1>1, PushKeeps
<1>3. CASE path' = Append(path, new) /\ phase' = phase /\ Len(path') <= size'[busy]
  <2>1. ASSUME NEW k \in DOMAIN path'
        PROVE  \/ k \in DOMAIN path /\ path'[k] = path[k]
               \/ path'[k] = new
    BY <1>1, <1>3
  <2>2. fields[new.node] \in Seq(Field)
    BY DEF TypeOK
  <2>3. \A k \in DOMAIN path' : path'[k].type = "tuple" => path'[k].pos <= Len(fields[path'[k].node])
    BY <2>1, <2>2 DEF TypeOK
  <2>4. TypeOK'
    BY <1>2, <1>3, <2>3 DEF TypeOK, schema
  <2> QED
    BY <1>3, <2>4 DEF InsideStack
<1>4. CASE path' = path /\ phase' = "failed"
  BY <1>2, <1>4 DEF TypeOK, InsideStack, schema
<1> QED
  BY <1>2, <1>3, <1>4

\* A walk or a codec starts at a node of the schema.
LEMMA RootKeeps ==
    ASSUME IInv, path = <<>>, phase \in {"walk", "serve"}, NEW n \in Node, path' = <<Tuple(n)>>,
           UNCHANGED <<schema, phase, size>>, i' \in Nat \ {0}, busy' \in Slot
    PROVE  IInv'
<1>1. Tuple(n) \in Spot /\ Tuple(n).pos = 0 /\ Tuple(n).node = n
  BY DEF Tuple, Spot
<1>2. path' \in Seq(Spot) /\ Len(path') = 1 /\ path'[1] = Tuple(n) /\ DOMAIN path' = {1}
  BY <1>1
<1>3. fields[n] \in Seq(Field)
  BY DEF IInv, TypeOK
<1>4. TypeOK'
  <2>1. \A k \in DOMAIN path' : path'[k].pos <= Len(fields[path'[k].node])
    BY <1>1, <1>2, <1>3
  <2> QED
    BY <1>2, <2>1 DEF IInv, TypeOK, schema
<1>5. InsideStack'
  <2>1. 0 \in Slot
    BY PresizeAssumption DEF Slot
  <2>2. 1 <= size[IF phase = "serve" THEN busy' ELSE 0]
    <3>1. (IF phase = "serve" THEN busy' ELSE 0) \in Slot
      BY <2>1
    <3> QED
      BY <3>1 DEF IInv, TypeOK
  <2> QED
    BY <1>2, <2>2 DEF InsideStack
<1>6. PathUnique'
  BY <1>2 DEF PathUnique
<1> QED
  BY <1>4, <1>5, <1>6 DEF IInv

\* Every step of the walk, the resizing and the codecs keeps the invariant.
LEMMA NextKeeps == IInv /\ [Next]_vars => IInv'
<1> SUFFICES ASSUME IInv, [Next]_vars PROVE IInv'
  OBVIOUS
<1>1. CASE StartRoot
  <2>1. path = <<>> /\ phase = "walk" /\ path' = <<Tuple(names[i])>> /\ i' = i + 1 /\ i <= Len(names)
        /\ UNCHANGED <<schema, phase, size, busy>>
    BY <1>1 DEF StartRoot
  <2>2. i \in Nat \ {0} /\ busy' \in Slot /\ names \in Seq(Node)
    BY <2>1 DEF IInv, TypeOK
  <2>3. names[i] \in Node /\ i' \in Nat \ {0}
    BY <2>1, <2>2
  <2> QED
    BY <2>1, <2>2, <2>3, RootKeeps
<1>2. CASE SkipEnum
  BY <1>2, AtLastKeeps DEF SkipEnum
<1>3. CASE LeaveTuple
  BY <1>3, PopKeeps DEF LeaveTuple, Walking
<1>4. CASE GoDown
  BY <1>4, GoDownKeeps
<1>5. CASE NothingBelow
  BY <1>5, AtLastKeeps DEF NothingBelow
<1>6. CASE EnterElement
  BY <1>6, EnterElementKeeps
<1>7. CASE LeaveList
  BY <1>7, PopKeeps DEF LeaveList, Walking
<1>8. CASE EndWalk
  BY <1>8, PresizeAssumption DEF EndWalk, IInv, TypeOK, InsideStack, schema, Slot
<1>9. CASE Resize
  <2>1. path = <<>> /\ phase = "resize" /\ i \in Nat /\ i <= LastSlot /\ UNCHANGED <<schema, path, busy>>
    BY <1>9 DEF Resize, IInv, TypeOK
  <2>2. i \in Slot /\ 0 \in Slot /\ size \in [Slot -> Nat \ {0}]
    BY <2>1, PresizeAssumption DEF Slot, IInv, TypeOK
  <2>3. CASE size' = [size EXCEPT ![i] = IF @ >= size[0] THEN @ ELSE size[0]] /\ i' = i + 1 /\ UNCHANGED phase
    <3>1. size' \in [Slot -> Nat \ {0}]
      BY <2>2, <2>3
    <3> QED
      BY <2>1, <2>2, <2>3, <3>1 DEF IInv, TypeOK, InsideStack, schema
  <2>4. CASE phase' = "failed" /\ UNCHANGED <<i, size>>
    BY <2>1, <2>4 DEF IInv, TypeOK, InsideStack, schema
  <2> QED
    BY <1>9, <2>3, <2>4 DEF Resize
<1>10. CASE Serve
  <2>1. size[busy] \in Nat
    BY DEF IInv, TypeOK
  <2> QED
    BY <1>10, <2>1 DEF Serve, IInv, TypeOK, InsideStack, schema
<1>11. CASE Root
  <2>1. PICK k \in DOMAIN names, s \in Slot : path' = <<Tuple(names[k])>> /\ busy' = s
    BY <1>11 DEF Root
  <2>2. names[k] \in Node /\ i \in Nat \ {0}
    BY <2>1 DEF IInv, TypeOK
  <2>3. path = <<>> /\ phase = "serve" /\ UNCHANGED <<schema, phase, i, size>>
    BY <1>11 DEF Root
  <2> QED
    BY <2>1, <2>2, <2>3, RootKeeps
<1>12. CASE Nest
  <2>1. phase = "serve" /\ path # <<>> /\ path \in Seq(Spot) /\ UNCHANGED <<schema, i, busy>>
    BY <1>12 DEF Nest, IInv, TypeOK
  <2>2. Top \in Spot /\ Top.node \in Node
    <3>1. Len(path) \in DOMAIN path
      BY <2>1
    <3>2. Top \in Spot
      BY <2>1, <3>1 DEF Top
    <3> QED
      BY <3>2 DEF Spot
  <2>3. ASSUME NEW n \in Node
        PROVE  /\ Tuple(n) \in Spot /\ Tuple(n).pos = 0 /\ Tuple(n).node \in Node
               /\ List(n) \in Spot /\ List(n).pos = 0 /\ List(n).node \in Node
    BY DEF Tuple, List, Spot
  <2>4. \A f \in Reaches : f[2] \in Node
    <3>1. fields \in [Node -> Seq(Field)] /\ Fields \in Seq(Field)
      BY <2>2 DEF IInv, TypeOK, Fields
    <3>2. \A j \in DOMAIN Fields : Fields[j][2] \in Node
      BY <3>1 DEF Field
    <3>3. \A m \in Node : \A j \in DOMAIN fields[m] : fields[m][j][2] \in Node
      <4> SUFFICES ASSUME NEW m \in Node, NEW j \in DOMAIN fields[m] PROVE fields[m][j][2] \in Node
        OBVIOUS
      <4>1. fields[m] \in Seq(Field)
        BY <3>1
      <4> QED
        BY <4>1 DEF Field
    <3> QED
      BY <3>2, <3>3 DEF Reaches
  <2>5. CASE Top.type = "list"
    BY <1>12, <2>1, <2>2, <2>3, <2>5, NestKeeps DEF Nest
  <2>6. CASE Top.type # "list"
    <3>1. PICK f \in Reaches : Push(busy, Append(path, Below(f))) \/ Push(busy, Append(path, Tuple(f[2])))
      BY <1>12, <2>6 DEF Nest
    <3>2. f[2] \in Node
      BY <2>4
    <3>3. Below(f) \in Spot /\ Below(f).pos = 0 /\ Below(f).node \in Node
      BY <2>3, <3>2 DEF Below
    <3>4. CASE Push(busy, Append(path, Below(f)))
      BY <2>1, <3>3, <3>4, NestKeeps
    <3>5. CASE Push(busy, Append(path, Tuple(f[2])))
      BY <2>1, <2>3, <3>2, <3>5, NestKeeps
    <3> QED
      BY <3>1, <3>4, <3>5
  <2> QED
    BY <2>5, <2>6
<1>13. CASE Unnest
  BY <1>13, PopKeeps DEF Unnest
<1>14. CASE UNCHANGED vars
  BY <1>14 DEF vars, schema, IInv, TypeOK, InsideStack, PathUnique
<1> QED
  BY <1>1, <1>2, <1>3, <1>4, <1>5, <1>6, <1>7, <1>8, <1>9, <1>10, <1>11, <1>12, <1>13, <1>14 DEF Next, Load

-----------------------------------------------------------------------------

\* The invariant holds in every reachable state.
LEMMA Invariance == Spec => []IInv
  BY InitHolds, NextKeeps, PTL DEF Spec

\* Whatever the schema, the variables of the walk keep their types and no
\* spot is moved past its last field.
THEOREM PresizeTypes == Spec => []TypeOK
<1>1. IInv => TypeOK
  BY DEF IInv
<1> QED
  BY Invariance, <1>1, PTL

\* Whatever refers to whatever, the walk of stack_ensure_all never goes down
\* into a node it is inside of.
THEOREM WalkStaysSimple == Spec => []PathSimple
<1>1. IInv => PathSimple
  BY DEF IInv, PathUnique, PathSimple
<1> QED
  BY Invariance, <1>1, PTL

\* Neither the walk nor a codec writes a spot past the end of its stack.
THEOREM NoStackOverrun == Spec => []InsideStack
<1>1. IInv => InsideStack
  BY DEF IInv
<1> QED
  BY Invariance, <1>1, PTL

-----------------------------------------------------------------------------
(* What the walk has seen: every way through the schema that meets no node   *)
(* twice, unless it is still ahead of it                                     *)

Same(s, t) == s.type = t.type /\ s.node = t.node

\* What can stand above a spot: the element of a list, or what a field of a
\* message refers to.
Refers(f) == f[1] # "scalar"
Above(s, t) ==
    \/ s.type = "list" /\ t = Tuple(s.node)
    \/ /\ s.type = "tuple" /\ s.node \notin Enum
       /\ \E j \in DOMAIN fields[s.node] : Refers(fields[s.node][j]) /\ t = Below(fields[s.node][j])

\* A way from a root, which never goes down to a node that is on it.
Way(c) ==
    /\ c \in Seq(Spot) /\ c # <<>>
    /\ \E r \in DOMAIN names : c[1] = Tuple(names[r])
    /\ \A k \in 1 .. Len(c) - 1 :
        /\ Above(c[k], c[k + 1])
        /\ c[k].type = "tuple" => \A l \in 1 .. k : c[l].node # c[k + 1].node

\* The way is the path up to spot k, where the walk has left spot t behind it.
Alike(c, k) == \A l \in 1 .. k : Same(c[l], path[l])
Gone(k, t) ==
    \/ path[k].type = "list" /\ k = Len(path) /\ path[k].pos > 0
    \/ /\ path[k].type = "tuple"
       /\ \E j \in DOMAIN fields[path[k].node] :
            /\ j < path[k].pos \/ (j = path[k].pos /\ k = Len(path))
            /\ Refers(fields[path[k].node][j]) /\ t = Below(fields[path[k].node][j])
Behind(c) ==
    \/ \E r \in DOMAIN names : c[1] = Tuple(names[r]) /\ r < i /\ (path = <<>> \/ r < i - 1)
    \/ \E k \in DOMAIN path : k < Len(c) /\ Alike(c, k) /\ Gone(k, c[k + 1])

\* Spot k of the path leads to the next one, and a root to the first.
Leads(k) ==
    \/ path[k].type = "list" /\ path[k].pos > 0 /\ Same(path[k + 1], Tuple(path[k].node))
    \/ /\ path[k].type = "tuple" /\ path[k].pos \in DOMAIN fields[path[k].node]
       /\ Refers(fields[path[k].node][path[k].pos])
       /\ Same(path[k + 1], Below(fields[path[k].node][path[k].pos]))
Rooted == path # <<>> => i - 1 \in DOMAIN names /\ Same(path[1], Tuple(names[i - 1]))

WalkInv ==
    /\ Rooted /\ \A k \in 1 .. Len(path) - 1 : Leads(k)
    /\ \A c : Way(c) /\ Behind(c) => Len(c) <= size[0]

\* Slots that are wide enough for every way.
Roomy(s) == \A c : Way(c) => Len(c) <= size[s]
DepthInv ==
    /\ phase = "walk" => WalkInv
    /\ phase = "resize" => \A s \in Slot : s = 0 \/ s < i => Roomy(s)
    /\ phase = "serve" => \A s \in Slot : Roomy(s)

-----------------------------------------------------------------------------

\* A way depends on the schema alone.
LEMMA WaysStay == UNCHANGED schema => \A c : Way(c)' <=> Way(c)
BY DEF schema, Way, Above, Below, Tuple, List

\* The next spot of a way whose spots so far are those of the path.
LEMMA NextSpot ==
    ASSUME NEW c, Way(c), NEW k \in Nat \ {0}, k < Len(c)
    PROVE  /\ Above(c[k], c[k + 1]) /\ k \in DOMAIN c /\ k + 1 \in DOMAIN c
           /\ c[k].type = "tuple" => \A l \in 1 .. k : c[l].node # c[k + 1].node
<1>1. Len(c) \in Nat /\ k \in 1 .. Len(c) - 1
  BY DEF Way
<1> QED
  BY <1>1 DEF Way

\* When the walk is about to leave a spot, each way along it has been measured.
LEMMA SpotMeasured ==
    ASSUME IInv, WalkInv, path # <<>>, phase = "walk",
           \/ Top.type = "list" /\ Top.pos > 0
           \/ Top.type = "tuple" /\ Top.pos = Len(Fields),
           NEW c, Way(c), Len(path) <= Len(c), Alike(c, Len(path))
    PROVE  Len(c) <= size[0]
<1> DEFINE n == Len(path)
<1>1. n \in Nat \ {0} /\ n \in DOMAIN path /\ path[n] = Top /\ Top \in Spot /\ n <= size[0] /\ Len(c) \in Nat
  BY DEF IInv, TypeOK, InsideStack, Top, Way
<1>2. CASE Len(c) = n
  BY <1>1, <1>2
<1>3. CASE n < Len(c)
  <2>1. Above(c[n], c[n + 1]) /\ Same(c[n], path[n])
    BY <1>1, <1>3, NextSpot DEF Alike
  <2>2. Gone(n, c[n + 1])
    <3>1. CASE Top.type = "list" /\ Top.pos > 0
      BY <1>1, <3>1 DEF Gone
    <3>2. CASE Top.type = "tuple" /\ Top.pos = Len(Fields)
      <4>1. fields[Top.node] \in Seq(Field) /\ Fields = fields[Top.node]
        BY <1>1 DEF IInv, TypeOK, Spot, Fields
      <4>2. PICK j \in DOMAIN fields[Top.node] : Refers(fields[Top.node][j]) /\ c[n + 1] = Below(fields[Top.node][j])
        BY <1>1, <2>1, <3>2 DEF Above, Same
      <4>3. j < Top.pos \/ j = Top.pos
        BY <3>2, <4>1, <4>2
      <4> QED
        BY <1>1, <3>2, <4>2, <4>3 DEF Gone
    <3> QED
      BY <3>1, <3>2
  <2>3. Behind(c)
    BY <1>1, <1>3, <2>2 DEF Behind
  <2> QED
    BY <2>3 DEF WalkInv
<1> QED
  BY <1>1, <1>2, <1>3

\* The walk moves on in a spot, and perhaps into one above it: no way is
\* behind it that was not before, unless the walk passed over it.
LEMMA OnMeasures ==
    ASSUME IInv, WalkInv, path # <<>>, NEW n, n = Len(path), path' \in Seq(Spot), UNCHANGED <<schema, i>>, size'[0] \in Nat, size[0] <= size'[0],
           Len(path') \in {n, n + 1},
           \A k \in 1 .. n : Same(path'[k], path[k]),
           \A k \in 1 .. n - 1 : path'[k] = path[k],
           Len(path') = n + 1 => path'[Len(path')].pos = 0 /\ Leads(n)',
           \A c : Way(c) /\ n < Len(c) /\ Alike(c, n) /\ Gone(n, c[n + 1])' => Gone(n, c[n + 1])
    PROVE  WalkInv'
<1>1. n \in Nat \ {0} /\ path' # <<>> /\ Len(path') \in Nat /\ size[0] \in Nat /\ i \in Nat
  <2>1. 0 \in Slot
    BY PresizeAssumption DEF Slot
  <2> QED
    BY <2>1 DEF IInv, TypeOK
<1>2. Rooted'
  BY <1>1 DEF WalkInv, Rooted, schema, Same, Tuple
<1>3. \A k \in 1 .. Len(path') - 1 : Leads(k)'
  <2> SUFFICES ASSUME NEW k \in 1 .. Len(path') - 1 PROVE Leads(k)'
    OBVIOUS
  <2>1. CASE k = n
    BY <1>1, <2>1
  <2>2. CASE k < n
    <3>1. k \in 1 .. n - 1 /\ k + 1 \in 1 .. n
      BY <1>1, <2>2
    <3>2. Leads(k) /\ path'[k] = path[k] /\ Same(path'[k + 1], path[k + 1])
      BY <3>1 DEF WalkInv
    <3> QED
      BY <3>2 DEF Leads, Same, schema, Below, Tuple, List, Refers
  <2> QED
    BY <1>1, <2>1, <2>2
<1>4. ASSUME NEW c, Way(c)', Behind(c)' PROVE Len(c) <= size'[0]
  <2>1. Way(c) /\ Len(c) \in Nat
    <3>1. Way(c)
      BY <1>4, WaysStay
    <3> QED
      BY <3>1 DEF Way
  <2>2. Behind(c)
    <3>1. CASE \E r \in DOMAIN names : c[1] = Tuple(names[r]) /\ r < i /\ r < i - 1
      BY <3>1 DEF Behind
    <3>2. ASSUME NEW k \in DOMAIN path', k < Len(c), Alike(c, k)', Gone(k, c[k + 1])'
          PROVE  Behind(c)
      <4>1. k \in 1 .. Len(path')
        BY <1>1
      <4>2. CASE k = n + 1
        <5>1. path'[k] \in Spot /\ path'[k].pos = 0 /\ k = Len(path')
          BY <1>1, <4>1, <4>2
        <5>2. fields[path'[k].node] \in Seq(Field) /\ fields' = fields
          BY <5>1 DEF Spot, IInv, TypeOK, schema
        <5> QED
          BY <3>2, <5>1, <5>2 DEF Gone
      <4>3. CASE k = n
        <5>1. Alike(c, n)
          BY <1>1, <3>2, <4>3 DEF Alike, Same
        <5>2. Gone(n, c[n + 1])
          BY <2>1, <3>2, <4>3, <5>1
        <5> QED
          BY <1>1, <3>2, <4>3, <5>1, <5>2 DEF Behind
      <4>4. CASE k < n
        <5>1. Alike(c, k)
          BY <1>1, <3>2, <4>1, <4>4 DEF Alike, Same
        <5>2. path'[k] = path[k] /\ k # Len(path')
          BY <1>1, <4>1, <4>4
        <5>3. Gone(k, c[k + 1])
          <6>1. fields' = fields
            BY DEF schema
          <6> QED
            BY ONLY <3>2, <5>2, <6>1 DEF Gone, Below, Tuple, List, Refers
        <5>4. k \in DOMAIN path
          BY <1>1, <4>1, <4>4
        <5> QED
          BY <3>2, <5>1, <5>3, <5>4 DEF Behind
      <4> QED
        BY <1>1, <4>1, <4>2, <4>3, <4>4
    <3> QED
      BY <1>1, <1>4, <3>1, <3>2 DEF Behind, schema, Tuple
  <2>3. Len(c) <= size[0]
    BY <2>1, <2>2 DEF WalkInv
  <2> QED
    BY <1>1, <2>1, <2>3
<1> QED
  BY <1>2, <1>3, <1>4 DEF WalkInv

\* The walk leaves a spot, all of whose fields are behind it.
LEMMA PopMeasures ==
    ASSUME IInv, WalkInv, phase = "walk", path # <<>>,
           \/ Top.type = "list" /\ Top.pos > 0
           \/ Top.type = "tuple" /\ Top.pos = Len(Fields),
           path' = SubSeq(path, 1, Len(path) - 1), UNCHANGED <<schema, phase, i, size, busy>>
    PROVE  WalkInv'
<1> DEFINE n == Len(path)
<1>1. n \in Nat \ {0} /\ path \in Seq(Spot) /\ i \in Nat
  BY DEF IInv, TypeOK
<1>2. /\ path' \in Seq(Spot) /\ Len(path') = n - 1
      /\ \A k \in DOMAIN path' : k \in DOMAIN path /\ path'[k] = path[k]
  BY <1>1, LeaveKeeps
<1>3. Rooted'
  <2>1. path' # <<>> => 1 \in DOMAIN path'
    BY <1>2
  <2> QED
    BY <1>2, <2>1 DEF WalkInv, Rooted, schema, Same, Tuple
<1>4. \A k \in 1 .. Len(path') - 1 : Leads(k)'
  <2> SUFFICES ASSUME NEW k \in 1 .. Len(path') - 1 PROVE Leads(k)'
    OBVIOUS
  <2>1. k \in 1 .. n - 1 /\ path'[k] = path[k] /\ path'[k + 1] = path[k + 1]
    <3>1. k \in DOMAIN path' /\ k + 1 \in DOMAIN path'
      BY <1>1, <1>2
    <3> QED
      BY <1>1, <1>2, <3>1
  <2>2. Leads(k)
    BY <2>1 DEF WalkInv
  <2> QED
    BY <2>1, <2>2 DEF Leads, schema, Below, Tuple, List, Refers, Same
<1>5. ASSUME NEW c, Way(c)', Behind(c)' PROVE Len(c) <= size'[0]
  <2>1. Way(c) /\ Len(c) \in Nat \ {0}
    BY <1>5, WaysStay DEF Way
  <2>2. Behind(c) \/ (n <= Len(c) /\ Alike(c, n))
    <3>1. ASSUME NEW r \in DOMAIN names, c[1] = Tuple(names[r]), r < i, path' = <<>> \/ r < i - 1
          PROVE  Behind(c) \/ (n <= Len(c) /\ Alike(c, n))
      <4>1. CASE r < i - 1
        BY <3>1, <4>1 DEF Behind
      <4>2. CASE r = i - 1 /\ path' = <<>>
        <5>1. n = 1
          <6>1. path' = <<>>
            BY <4>2
          <6>2. Len(path') = 0
            BY ONLY <6>1
          <6> QED
            BY ONLY <1>1, <1>2, <6>2
        <5>2. Same(c[1], path[1])
          BY <3>1, <4>2 DEF WalkInv, Rooted, Same
        <5> QED
          BY <2>1, <5>1, <5>2 DEF Alike
      <4>3. r \in Nat
        <5>1. names \in Seq(Node)
          BY DEF IInv, TypeOK
        <5> QED
          BY <5>1
      <4> QED
        BY <1>1, <3>1, <4>1, <4>2, <4>3
    <3>2. ASSUME NEW k \in DOMAIN path', k < Len(c), Alike(c, k)', Gone(k, c[k + 1])'
          PROVE  Behind(c) \/ (n <= Len(c) /\ Alike(c, n))
      <4>1. k \in 1 .. n - 1 /\ k \in DOMAIN path /\ path'[k] = path[k]
        BY <1>1, <1>2
      <4>2. Alike(c, k)
        <5>1. \A l \in 1 .. k : path'[l] = path[l]
          BY <1>1, <1>2, <4>1
        <5> QED
          BY <3>2, <5>1 DEF Alike, Same
      <4>3. CASE Gone(k, c[k + 1])
        BY <3>2, <4>1, <4>2, <4>3 DEF Behind
      <4>4. CASE ~Gone(k, c[k + 1])
        <5>1. k = n - 1 /\ Leads(k)
          <6>1. k = n - 1
            <7>1. fields' = fields
              BY DEF schema
            <7>2. SUFFICES ASSUME k # n - 1 PROVE Gone(k, c[k + 1])
              BY <4>4
            <7>3. k # Len(path') /\ path'[k] = path[k]
              BY <1>1, <1>2, <4>1, <7>2
            <7> QED
              BY ONLY <3>2, <7>1, <7>3 DEF Gone, Below, Tuple, List, Refers
          <6> QED
            BY <4>1, <6>1 DEF WalkInv
        <5>2. Above(c[k], c[k + 1]) /\ Same(c[k], path[k])
          <6>1. k \in Nat \ {0} /\ k \in 1 .. k
            BY <1>1, <4>1
          <6>2. Above(c[k], c[k + 1])
            BY <2>1, <3>2, <6>1, NextSpot
          <6> QED
            BY <4>2, <6>1, <6>2 DEF Alike
        <5>3. Same(c[n], path[n])
          <6>1. CASE path[k].type = "list"
            <7>1. c[k].type = "list" /\ c[k].node = path[k].node
              BY <5>2, <6>1 DEF Same
            <7>2. c[k + 1] = Tuple(path[k].node)
              BY <5>2, <7>1 DEF Above
            <7>3. Same(path[k + 1], Tuple(path[k].node))
              BY <5>1, <6>1 DEF Leads
            <7> QED
              BY <1>1, <5>1, <7>2, <7>3 DEF Same
          <6>2. CASE path[k].type = "tuple"
            <7>1. Same(path[k + 1], Below(fields[path[k].node][path[k].pos]))
              BY <5>1, <6>2 DEF Leads
            <7>2. PICK j \in DOMAIN fields[path[k].node] :
                     /\ j < path[k].pos \/ j = path[k].pos
                     /\ Refers(fields[path[k].node][j]) /\ c[k + 1] = Below(fields[path[k].node][j])
              BY <3>2, <4>1, <6>2 DEF Gone, schema, Below, Tuple, List, Refers
            <7>3. j = path[k].pos
              BY <4>4, <6>2, <7>2 DEF Gone
            <7> QED
              BY <1>1, <5>1, <7>1, <7>2, <7>3 DEF Same
          <6> QED
            BY <5>1, <6>1, <6>2 DEF Leads
        <5>4. Alike(c, n)
          BY <1>1, <4>2, <5>1, <5>3 DEF Alike
        <5> QED
          BY <1>1, <2>1, <3>2, <5>1, <5>4
      <4> QED
        BY <4>3, <4>4
    <3> QED
      BY <1>5, <3>1, <3>2 DEF Behind, schema, Tuple
  <2>3. CASE Behind(c)
    BY <2>1, <2>3 DEF WalkInv
  <2>4. CASE n <= Len(c) /\ Alike(c, n)
    BY <2>1, <2>4, SpotMeasured
  <2> QED
    BY <2>2, <2>3, <2>4
<1> QED
  BY <1>3, <1>4, <1>5 DEF WalkInv

\* Stacks only grow.
LEMMA PushGrows ==
    ASSUME IInv, NEW s \in Slot, NEW new, Len(new) \in Nat, Len(new) <= size[s] + 1, Push(s, new)
    PROVE  /\ size' \in [Slot -> Nat \ {0}] /\ \A q \in Slot : size[q] <= size'[q]
           /\ \/ phase' = phase /\ path' = new
              \/ phase' = "failed"
<1>1. size \in [Slot -> Nat \ {0}]
  BY DEF IInv, TypeOK
<1>2. CASE size' = size
  BY <1>1, <1>2 DEF Push
<1>3. CASE size' = Ensure(s, Len(new))
  <2>1. size' \in [Slot -> Nat \ {0}]
    BY <1>1, <1>3, EnsureRoom
  <2>2. \A q \in Slot : size[q] <= size'[q]
    <3> SUFFICES ASSUME NEW q \in Slot PROVE size[q] <= size'[q]
      OBVIOUS
    <3>1. size[q] \in Nat /\ size[s] \in Nat
      BY <1>1
    <3> QED
      BY <1>1, <1>3, <3>1 DEF Ensure
  <2>3. (phase' = phase /\ path' = new) \/ phase' = "failed"
    BY DEF Push
  <2> QED
    BY <2>1, <2>2, <2>3
<1> QED
  BY <1>2, <1>3 DEF Push

\* A slot that has room for every way keeps it.
LEMMA RoomyGrows ==
    ASSUME NEW s \in Slot, Roomy(s), size[s] \in Nat, size'[s] \in Nat, size[s] <= size'[s], UNCHANGED schema
    PROVE  Roomy(s)'
<1> SUFFICES ASSUME NEW c, Way(c)' PROVE Len(c) <= size'[s]
  BY DEF Roomy
<1>1. Way(c)
  BY WaysStay
<1>2. Len(c) \in Nat
  BY <1>1 DEF Way
<1>3. Len(c) <= size[s]
  BY <1>1 DEF Roomy
<1> QED
  BY <1>2, <1>3

\* The walk begins at a root.
LEMMA StartMeasures == IInv /\ WalkInv /\ StartRoot => WalkInv'
<1> SUFFICES ASSUME IInv, WalkInv, StartRoot PROVE WalkInv'
  OBVIOUS
<1>1. /\ path = <<>> /\ path' = <<Tuple(names[i])>> /\ i' = i + 1 /\ i <= Len(names)
      /\ UNCHANGED <<schema, size>> /\ fields' = fields /\ names' = names /\ size' = size
      /\ i \in Nat \ {0} /\ names \in Seq(Node)
  BY DEF StartRoot, schema, IInv, TypeOK
<1>2. i \in DOMAIN names /\ i' - 1 = i /\ names[i] \in Node
  BY <1>1
<1>3. Len(path') = 1 /\ path'[1] = Tuple(names[i]) /\ DOMAIN path' = {1} /\ path' # <<>>
  BY <1>1
<1>4. Rooted'
  BY <1>1, <1>2, <1>3 DEF Rooted, Same, Tuple
<1>5. \A k \in 1 .. Len(path') - 1 : Leads(k)'
  BY <1>3
<1>6. ASSUME NEW c, Way(c)', Behind(c)' PROVE Len(c) <= size'[0]
  <2>1. Way(c)
    BY <1>1, <1>6, WaysStay
  <2>2. ~Gone(1, c[2])'
    <3>1. path'[1].pos = 0 /\ path'[1].type = "tuple" /\ path'[1].node = names[i]
      BY <1>3 DEF Tuple
    <3>2. fields[names[i]] \in Seq(Field)
      BY <1>2 DEF IInv, TypeOK
    <3> QED
      BY <1>1, <3>1, <3>2 DEF Gone
  <2>3. \E r \in DOMAIN names : c[1] = Tuple(names[r]) /\ r < i
    BY <1>1, <1>2, <1>3, <1>6, <2>2 DEF Behind, Tuple
  <2>4. Behind(c)
    BY <1>1, <2>3 DEF Behind
  <2> QED
    BY <1>1, <2>1, <2>4 DEF WalkInv
<1> QED
  BY <1>4, <1>5, <1>6 DEF WalkInv

\* Where the walk looks at fields and goes down to none of them, no way does.
LEMMA PassedOver ==
    ASSUME IInv, path # <<>>, Top.type = "tuple", NEW c, Way(c), NEW n, n = Len(path), n < Len(c), Alike(c, n),
           NEW j \in DOMAIN Fields, Refers(Fields[j]), c[n + 1] = Below(Fields[j])
    PROVE  Top.node \notin Enum /\ ~OnPath(Fields[j][2])
<1>1. n \in Nat \ {0} /\ path \in Seq(Spot) /\ n \in 1 .. n /\ path[n] = Top
  BY DEF IInv, TypeOK, Top
<1>2. Above(c[n], c[n + 1]) /\ (c[n].type = "tuple" => \A l \in 1 .. n : c[l].node # c[n + 1].node)
  BY <1>1, NextSpot
<1>3. c[n].type = "tuple" /\ c[n].node = Top.node
  BY <1>1 DEF Alike, Same
<1>4. c[n + 1].node = Fields[j][2]
  BY DEF Below, Tuple, List
<1>5. \A l \in DOMAIN path : path[l].node = c[l].node /\ l \in 1 .. n
  BY <1>1 DEF Alike, Same
<1> QED
  BY <1>2, <1>3, <1>4, <1>5 DEF Above, OnPath

\* The walk looks at the fields of a spot and goes down to none of them.
LEMMA AtLastMeasures == IInv /\ WalkInv /\ (SkipEnum \/ NothingBelow) => WalkInv'
<1> SUFFICES ASSUME IInv, WalkInv, SkipEnum \/ NothingBelow, NEW n, n = Len(path) PROVE WalkInv'
  OBVIOUS
<1>1. /\ path # <<>> /\ Top.type = "tuple" /\ path \in Seq(Spot) /\ path' = At(Len(Fields))
      /\ UNCHANGED <<schema, i>> /\ size' = size /\ fields' = fields
  BY DEF SkipEnum, NothingBelow, Walking, schema, IInv, TypeOK
<1>2. n \in Nat \ {0} /\ n \in DOMAIN path /\ Top = path[n] /\ Top \in Spot
  BY <1>1 DEF Top
<1>3. Fields \in Seq(Field) /\ Len(Fields) \in Nat /\ Fields = fields[Top.node]
  BY <1>2 DEF Fields, IInv, TypeOK, Spot
<1>4. /\ path' \in Seq(Spot) /\ Len(path') = n
      /\ \A k \in DOMAIN path : path'[k].type = path[k].type /\ path'[k].node = path[k].node
      /\ \A k \in DOMAIN path : k # n => path'[k] = path[k]
      /\ path'[n].pos = Len(Fields)
  BY <1>1, <1>3, AtKeeps
<1>5. ASSUME NEW c, Way(c), n < Len(c), Alike(c, n), Gone(n, c[n + 1])' PROVE Gone(n, c[n + 1])
  <2>1. path'[n].type = "tuple" /\ path'[n].node = Top.node
    BY <1>1, <1>2, <1>4
  <2>2. PICK j \in DOMAIN Fields : Refers(Fields[j]) /\ c[n + 1] = Below(Fields[j])
    <3>1. fields'[path'[n].node] = Fields
      BY <1>1, <1>3, <2>1
    <3>2. \E j \in DOMAIN fields'[path'[n].node] :
             Refers(fields'[path'[n].node][j]) /\ c[n + 1] = Below(fields'[path'[n].node][j])
      BY ONLY <1>5, <2>1 DEF Gone, Refers, Below, Tuple, List
    <3> QED
      BY ONLY <3>1, <3>2
  <2>3. Top.node \notin Enum /\ ~OnPath(Fields[j][2])
    BY <1>1, <1>2, <1>5, <2>2, PassedOver
  <2>4. NothingBelow /\ Ahead = {}
    BY <2>3 DEF SkipEnum, NothingBelow
  <2>5. Top.pos \in Nat /\ j \in 1 .. Len(Fields)
    BY <1>2, <1>3 DEF Spot
  <2>6. j <= Top.pos
    BY <1>3, <2>2, <2>3, <2>4, <2>5 DEF Ahead, Descends, Refers
  <2> QED
    BY <1>1, <1>2, <1>3, <2>2, <2>5, <2>6 DEF Gone
<1>6. size[0] \in Nat
  <2>1. 0 \in Slot
    BY PresizeAssumption DEF Slot
  <2> QED
    BY <2>1 DEF IInv, TypeOK
<1>7. (\A k \in 1 .. n : Same(path'[k], path[k])) /\ (\A k \in 1 .. n - 1 : path'[k] = path[k])
  BY <1>1, <1>2, <1>4 DEF Same
<1>8. ~(Len(path') = n + 1) /\ Len(path') \in {n, n + 1} /\ size[0] <= size'[0]
  BY <1>1, <1>2, <1>4, <1>6
<1> QED
  BY <1>1, <1>4, <1>5, <1>6, <1>7, <1>8, OnMeasures

\* The walk goes down to the next field that leads to a node off its path, or
\* fails.
LEMMA GoDownMeasures == IInv /\ WalkInv /\ GoDown => phase' = "failed" \/ WalkInv'
<1> SUFFICES ASSUME IInv, WalkInv, GoDown, phase' # "failed", NEW n, n = Len(path) PROVE WalkInv'
  OBVIOUS
<1>1. /\ path # <<>> /\ Top.type = "tuple" /\ path \in Seq(Spot) /\ phase = "walk"
      /\ UNCHANGED <<schema, i>> /\ fields' = fields
  BY DEF GoDown, Walking, schema, IInv, TypeOK
<1>2. n \in Nat \ {0} /\ n \in DOMAIN path /\ Top = path[n] /\ Top \in Spot
  BY <1>1 DEF Top
<1>3. Fields \in Seq(Field) /\ Len(Fields) \in Nat /\ Fields = fields[Top.node] /\ Top.pos \in Nat
  BY <1>2 DEF Fields, IInv, TypeOK, Spot
<1>4. PICK m \in Ahead : (\A k \in Ahead : m <= k) /\ Push(0, Append(At(m), Below(Fields[m])))
  BY DEF GoDown
<1>5. m \in DOMAIN Fields /\ m \in Nat /\ Top.pos < m /\ Refers(Fields[m])
  BY <1>3, <1>4 DEF Ahead, Descends, Refers
<1>6. Below(Fields[m]) \in Spot /\ Below(Fields[m]).pos = 0
  BY <1>3, <1>5 DEF Field, Below, Tuple, List, Spot
<1>7. /\ At(m) \in Seq(Spot) /\ Len(At(m)) = n
      /\ \A k \in DOMAIN path : At(m)[k].type = path[k].type /\ At(m)[k].node = path[k].node
      /\ \A k \in DOMAIN path : k # n => At(m)[k] = path[k]
      /\ At(m)[n].pos = m
  BY <1>1, <1>5, AtKeeps
<1>8. 0 \in Slot /\ size[0] \in Nat /\ n <= size[0]
  <2>1. 0 \in Slot
    BY PresizeAssumption DEF Slot
  <2> QED
    BY <1>1, <2>1 DEF IInv, TypeOK, InsideStack
<1>9. /\ size'[0] \in Nat /\ size[0] <= size'[0]
      /\ path' = Append(At(m), Below(Fields[m]))
  <2>1. Len(Append(At(m), Below(Fields[m]))) \in Nat /\ Len(Append(At(m), Below(Fields[m]))) <= size[0] + 1
    BY <1>2, <1>6, <1>7, <1>8
  <2> QED
    BY <1>4, <1>8, <2>1, PushGrows
<1>10. /\ path' \in Seq(Spot) /\ Len(path') = n + 1 /\ path'[n + 1] = Below(Fields[m])
       /\ \A k \in 1 .. n : path'[k] = At(m)[k]
  BY <1>2, <1>6, <1>7, <1>9
<1>11. \A k \in 1 .. n : k \in DOMAIN path
  BY <1>1, <1>2
<1>12. (\A k \in 1 .. n : Same(path'[k], path[k])) /\ (\A k \in 1 .. n - 1 : path'[k] = path[k])
  <2>1. \A k \in 1 .. n - 1 : k \in 1 .. n /\ k # n
    BY <1>2
  <2> QED
    BY <1>7, <1>10, <1>11, <2>1 DEF Same
<1>13. path'[n].type = "tuple" /\ path'[n].node = Top.node /\ path'[n].pos = m
  BY <1>1, <1>2, <1>7, <1>10
<1>14. fields'[path'[n].node] = Fields
  BY <1>1, <1>3, <1>13
<1>15. Leads(n)'
  <2>1. Same(path'[n + 1], Below(Fields[m]))
    BY <1>10 DEF Same
  <2> QED
    BY ONLY <1>5, <1>13, <1>14, <2>1 DEF Leads, Same, Refers, Below, Tuple, List
<1>16. ASSUME NEW c, Way(c), n < Len(c), Alike(c, n), Gone(n, c[n + 1])' PROVE Gone(n, c[n + 1])
  <2>1. n # Len(path')
    BY <1>2, <1>10
  <2>2. PICK j \in DOMAIN Fields : j < m /\ Refers(Fields[j]) /\ c[n + 1] = Below(Fields[j])
    <3>1. \E j \in DOMAIN fields'[path'[n].node] :
             /\ j < path'[n].pos
             /\ Refers(fields'[path'[n].node][j]) /\ c[n + 1] = Below(fields'[path'[n].node][j])
      BY ONLY <1>16, <1>13, <2>1 DEF Gone, Refers, Below, Tuple, List
    <3> QED
      BY ONLY <1>13, <1>14, <3>1
  <2>3. ~OnPath(Fields[j][2])
    BY <1>1, <1>16, <2>2, PassedOver
  <2>4. j \in Nat \ {0} /\ j <= Len(Fields)
    BY <1>3
  <2>5. j <= Top.pos
    <3> SUFFICES ASSUME ~(j <= Top.pos) PROVE FALSE
      OBVIOUS
    <3>1. j \in Ahead
      BY <1>3, <2>2, <2>3, <2>4 DEF Ahead, Descends, Refers
    <3> QED
      BY <1>4, <1>5, <2>2, <2>4, <3>1
  <2> QED
    BY <1>1, <1>2, <1>3, <2>2, <2>4, <2>5 DEF Gone
<1>17. Len(path') \in {n, n + 1} /\ (Len(path') = n + 1 => path'[Len(path')].pos = 0 /\ Leads(n)')
  BY <1>6, <1>10, <1>15
<1> QED
  BY <1>1, <1>9, <1>10, <1>12, <1>16, <1>17, OnMeasures

\* The walk goes from a list to its element, or fails.
LEMMA EnterElementMeasures == IInv /\ WalkInv /\ EnterElement => phase' = "failed" \/ WalkInv'
<1> SUFFICES ASSUME IInv, WalkInv, EnterElement, phase' # "failed", NEW n, n = Len(path) PROVE WalkInv'
  OBVIOUS
<1>1. /\ path # <<>> /\ Top.type = "list" /\ path \in Seq(Spot) /\ phase = "walk"
      /\ UNCHANGED <<schema, i>> /\ Push(0, Append(At(1), Tuple(Top.node)))
  BY DEF EnterElement, Walking, schema, IInv, TypeOK
<1>2. n \in Nat \ {0} /\ n \in DOMAIN path /\ Top = path[n] /\ Top \in Spot
  BY <1>1 DEF Top
<1>3. Tuple(Top.node) \in Spot /\ Tuple(Top.node).pos = 0
  BY <1>2 DEF Tuple, Spot
<1>4. /\ At(1) \in Seq(Spot) /\ Len(At(1)) = n
      /\ \A k \in DOMAIN path : At(1)[k].type = path[k].type /\ At(1)[k].node = path[k].node
      /\ \A k \in DOMAIN path : k # n => At(1)[k] = path[k]
      /\ At(1)[n].pos = 1
  BY <1>1, AtKeeps
<1>5. 0 \in Slot /\ size[0] \in Nat /\ n <= size[0]
  <2>1. 0 \in Slot
    BY PresizeAssumption DEF Slot
  <2> QED
    BY <1>1, <2>1 DEF IInv, TypeOK, InsideStack
<1>6. /\ size'[0] \in Nat /\ size[0] <= size'[0]
      /\ path' = Append(At(1), Tuple(Top.node))
  <2>1. Len(Append(At(1), Tuple(Top.node))) \in Nat /\ Len(Append(At(1), Tuple(Top.node))) <= size[0] + 1
    BY <1>2, <1>3, <1>4, <1>5
  <2> QED
    BY <1>1, <1>5, <2>1, PushGrows
<1>7. /\ path' \in Seq(Spot) /\ Len(path') = n + 1 /\ path'[n + 1] = Tuple(Top.node)
      /\ \A k \in 1 .. n : path'[k] = At(1)[k]
  BY <1>2, <1>3, <1>4, <1>6
<1>8. \A k \in 1 .. n : k \in DOMAIN path
  BY <1>1, <1>2
<1>9. (\A k \in 1 .. n : Same(path'[k], path[k])) /\ (\A k \in 1 .. n - 1 : path'[k] = path[k])
  <2>1. \A k \in 1 .. n - 1 : k \in 1 .. n /\ k # n
    BY <1>2
  <2> QED
    BY <1>4, <1>7, <1>8, <2>1 DEF Same
<1>10. path'[n].type = "list" /\ path'[n].node = Top.node /\ path'[n].pos = 1 /\ n # Len(path')
  BY <1>1, <1>2, <1>4, <1>7
<1>11. Leads(n)'
  BY ONLY <1>7, <1>10 DEF Leads, Same, Tuple
<1>12. ASSUME NEW c, Gone(n, c[n + 1])' PROVE FALSE
  BY ONLY <1>10, <1>12 DEF Gone
<1>13. Len(path') \in {n, n + 1} /\ (Len(path') = n + 1 => path'[Len(path')].pos = 0 /\ Leads(n)')
  BY <1>3, <1>7, <1>11
<1> QED
  BY <1>1, <1>6, <1>7, <1>9, <1>12, <1>13, OnMeasures

\* Every step keeps what is known of the depth: at the end of the walk, the
\* stack of slot 0 has room for every way, and then one slot after the other.
LEMMA DepthKeeps == IInv /\ DepthInv /\ [Next]_vars => DepthInv'
<1> SUFFICES ASSUME IInv, DepthInv, [Next]_vars PROVE DepthInv'
  OBVIOUS
<1> USE DEF DepthInv
<1>1. 0 \in Slot /\ size \in [Slot -> Nat \ {0}] /\ \A s \in Slot : s \in Nat
  BY PresizeAssumption DEF Slot, IInv, TypeOK
<1>2. ASSUME NEW s \in Slot, Roomy(s), UNCHANGED schema, size'[s] \in Nat, size[s] <= size'[s] PROVE Roomy(s)'
  BY <1>1, <1>2, RoomyGrows
<1>3. CASE StartRoot
  <2>1. phase = "walk" /\ phase' = "walk"
    BY <1>3 DEF StartRoot
  <2> QED
    BY <1>3, <2>1, StartMeasures
<1>4. CASE SkipEnum \/ NothingBelow
  <2>1. phase = "walk" /\ phase' = "walk"
    BY <1>4 DEF SkipEnum, NothingBelow, Walking
  <2> QED
    BY <1>4, <2>1, AtLastMeasures
<1>5. CASE LeaveTuple \/ LeaveList
  <2>1. /\ phase = "walk" /\ path # <<>> /\ path' = SubSeq(path, 1, Len(path) - 1)
        /\ UNCHANGED <<schema, phase, i, size, busy>>
        /\ (Top.type = "list" /\ Top.pos > 0) \/ (Top.type = "tuple" /\ Top.pos = Len(Fields))
    BY <1>5 DEF LeaveTuple, LeaveList, Walking
  <2>2. WalkInv'
    BY <2>1, PopMeasures
  <2> QED
    BY <2>1, <2>2
<1>6. CASE GoDown
  <2>1. phase = "walk" /\ (phase' = "walk" \/ phase' = "failed")
    BY <1>6 DEF GoDown, Walking, Push
  <2> QED
    BY <1>6, <2>1, GoDownMeasures
<1>7. CASE EnterElement
  <2>1. phase = "walk" /\ (phase' = "walk" \/ phase' = "failed")
    BY <1>7 DEF EnterElement, Walking, Push
  <2> QED
    BY <1>7, <2>1, EnterElementMeasures
<1>8. CASE EndWalk
  <2>1. /\ phase = "walk" /\ path = <<>> /\ i > Len(names) /\ phase' = "resize" /\ i' = 1
        /\ UNCHANGED <<schema, size>> /\ i \in Nat /\ names \in Seq(Node)
    BY <1>8 DEF EndWalk, IInv, TypeOK
  <2>2. Roomy(0)
    <3> SUFFICES ASSUME NEW c, Way(c) PROVE Len(c) <= size[0]
      BY DEF Roomy
    <3>1. PICK r \in DOMAIN names : c[1] = Tuple(names[r])
      BY DEF Way
    <3>2. r < i
      BY <2>1, <3>1
    <3>3. Behind(c)
      BY <2>1, <3>1, <3>2 DEF Behind
    <3> QED
      BY <2>1, <3>3 DEF WalkInv
  <2>3. \A s \in Slot : s = 0 \/ s < 1 => s = 0
    BY <1>1
  <2>4. size' = size /\ size[0] \in Nat
    BY <1>1, <2>1
  <2>5. Roomy(0)'
    BY <1>1, <1>2, <2>1, <2>2, <2>4
  <2> QED
    BY <2>1, <2>3, <2>5
<1>9. CASE Resize
  <2>1. /\ phase = "resize" /\ i \in Nat \ {0} /\ i <= LastSlot /\ UNCHANGED schema /\ i \in Slot
        /\ \A s \in Slot : s = 0 \/ s < i => Roomy(s)
    BY <1>9, PresizeAssumption DEF Resize, IInv, TypeOK, Slot
  <2>2. CASE size' = [size EXCEPT ![i] = IF @ >= size[0] THEN @ ELSE size[0]] /\ i' = i + 1 /\ UNCHANGED phase
    <3>1. /\ \A s \in Slot : s # i => size'[s] = size[s]
          /\ size'[i] = IF size[i] >= size[0] THEN size[i] ELSE size[0]
      BY <1>1, <2>1, <2>2
    <3>2. ASSUME NEW s \in Slot, s = 0 \/ s < i + 1 PROVE Roomy(s)'
      <4>1. CASE s # i
        <5>1. Roomy(s) /\ size'[s] = size[s] /\ size[s] \in Nat
          BY <1>1, <2>1, <3>1, <3>2, <4>1
        <5> QED
          BY <1>2, <2>1, <5>1
      <4>2. CASE s = i
        <5>1. size[0] <= size'[i] /\ size'[i] \in Nat /\ size[0] \in Nat
          BY <1>1, <2>1, <3>1
        <5>2. ASSUME NEW c, Way(c)' PROVE Len(c) <= size'[i]
          <6>1. Way(c)
            BY <2>1, <5>2, WaysStay
          <6>2. Len(c) \in Nat
            BY <6>1 DEF Way
          <6>3. Len(c) <= size[0]
            BY <1>1, <2>1, <6>1 DEF Roomy
          <6> QED
            BY <5>1, <6>2, <6>3
        <5> QED
          BY <4>2, <5>2 DEF Roomy
      <4> QED
        BY <4>1, <4>2
    <3> QED
      BY <2>1, <2>2, <3>2
  <2>3. CASE phase' = "failed"
    BY <2>3
  <2> QED
    BY <1>9, <2>2, <2>3 DEF Resize
<1>10. CASE Serve
  <2>1. phase = "resize" /\ phase' = "serve" /\ i > LastSlot /\ UNCHANGED <<schema, size>> /\ i \in Nat
    BY <1>10 DEF Serve, IInv, TypeOK
  <2>2. \A s \in Slot : Roomy(s)
    BY <2>1, PresizeAssumption DEF Slot
  <2> QED
    BY <1>1, <1>2, <2>1, <2>2
<1>11. ASSUME phase = "serve", UNCHANGED schema, phase' \in {"serve", "failed"},
              size' \in [Slot -> Nat \ {0}], \A s \in Slot : size[s] <= size'[s]
       PROVE  DepthInv'
  <2>1. ASSUME NEW s \in Slot PROVE Roomy(s)'
    BY <1>2, <1>11
  <2> QED
    BY <1>11, <2>1
<1>12. CASE Root \/ Unnest
  <2>1. phase = "serve" /\ UNCHANGED <<schema, phase, size>>
    BY <1>12 DEF Root, Unnest
  <2>2. \A s \in Slot : size[s] <= size'[s]
    BY <1>1, <2>1
  <2> QED
    BY <1>1, <1>11, <2>1, <2>2
<1>13. CASE Nest
  <2>1. phase = "serve" /\ path # <<>> /\ UNCHANGED schema /\ path \in Seq(Spot) /\ busy \in Slot /\ Len(path) <= size[busy]
    BY <1>13 DEF Nest, IInv, TypeOK, InsideStack
  <2>2. PICK t : Push(busy, Append(path, t))
    BY <1>13 DEF Nest
  <2>3. Len(Append(path, t)) \in Nat /\ Len(Append(path, t)) <= size[busy] + 1
    <3>1. Len(Append(path, t)) = Len(path) + 1
      BY <2>1
    <3> QED
      BY <1>1, <2>1, <3>1
  <2>4. size' \in [Slot -> Nat \ {0}] /\ (\A q \in Slot : size[q] <= size'[q]) /\ (phase' = phase \/ phase' = "failed")
    BY <2>1, <2>2, <2>3, PushGrows
  <2> QED
    BY <1>11, <2>1, <2>4
<1>14. CASE UNCHANGED vars
  <2>1. UNCHANGED <<schema, phase, i, size>> /\ path' = path /\ fields' = fields /\ names' = names
    BY <1>14 DEF vars, schema
  <2>2. phase = "walk" => WalkInv'
    <3> SUFFICES ASSUME WalkInv PROVE WalkInv'
      BY DEF DepthInv
    <3>1. \A c : Way(c)' <=> Way(c)
      BY <2>1, WaysStay
    <3> QED
      BY <2>1, <3>1 DEF WalkInv, Rooted, Leads, Behind, Alike, Gone, Same, Tuple, List, Below, Refers
  <2>3. ASSUME NEW s \in Slot, Roomy(s) PROVE Roomy(s)'
    BY <1>1, <1>2, <2>1, <2>3
  <2> QED
    BY <2>1, <2>2, <2>3
<1> QED
  BY <1>3, <1>4, <1>5, <1>6, <1>7, <1>8, <1>9, <1>10, <1>12, <1>13, <1>14 DEF Next, Load

-----------------------------------------------------------------------------
(* What a codec is inside of is as deep as some way, unless a message is     *)
(* inside itself                                                             *)

\* In the schemas that a parser builds, the node of a oneof is below one field,
\* nothing else refers to it, and it holds no oneof; an enum refers to nothing.
IsOneof(o) == \E m \in Node : \E j \in DOMAIN fields[m] : fields[m][j][1] = "oneof" /\ fields[m][j][2] = o
OneofsOwned ==
    /\ \A m, n \in Node : \A j \in DOMAIN fields[m], k \in DOMAIN fields[n] :
        /\ fields[m][j][1] = "oneof"
        /\ Refers(fields[n][k])
        /\ fields[n][k][2] = fields[m][j][2]
        => n = m /\ fields[n][k][1] = "oneof"
    /\ \A o \in Node : IsOneof(o) =>
        /\ o \notin Enum /\ \A r \in DOMAIN names : names[r] # o
        /\ \A k \in DOMAIN fields[o] : fields[o][k][1] # "oneof"
    /\ \A e \in Enum : \A k \in DOMAIN fields[e] : ~Refers(fields[e][k])

\* The codec has met a message inside itself, up to spot k.
Twice(k) == \E l, m \in 1 .. k : l < m /\ path[l].type = "tuple" /\ path[l].node = path[m].node

\* A way that comes to where spot k of the codec is, by its nodes and oneofs.
Along(c, k) ==
    /\ Way(c) /\ k <= Len(c) /\ Same(c[Len(c)], path[k])
    /\ \A l \in DOMAIN c : (\E m \in 1 .. k : c[l].node = path[m].node) \/ IsOneof(c[l].node)

Known(k) == Twice(k) \/ \E c : Along(c, k)

CodecInv ==
    phase = "serve" =>
        /\ \A k \in 1 .. Len(path) - 1 : path[k].type = "list" => path[k + 1].node = path[k].node /\ path[k + 1].type = "tuple"
        /\ \A k \in DOMAIN path : Known(k)

-----------------------------------------------------------------------------

\* A way goes on where a spot can stand above its last.
LEMMA WayOn ==
    ASSUME NEW c, Way(c), NEW t \in Spot, Above(c[Len(c)], t),
           c[Len(c)].type = "tuple" => \A l \in DOMAIN c : c[l].node # t.node
    PROVE  /\ Way(Append(c, t)) /\ Len(Append(c, t)) = Len(c) + 1
           /\ \A l \in DOMAIN Append(c, t) :
                (l \in DOMAIN c /\ Append(c, t)[l] = c[l]) \/ (l = Len(c) + 1 /\ Append(c, t)[l] = t)
<1> DEFINE d == Append(c, t)
<1>1. c \in Seq(Spot) /\ c # <<>> /\ Len(c) \in Nat \ {0} /\ DOMAIN c = 1 .. Len(c)
  BY DEF Way
<1>2. d \in Seq(Spot) /\ Len(d) = Len(c) + 1 /\ d # <<>>
  BY <1>1
<1>3. d[Len(c) + 1] = t /\ \A l \in 1 .. Len(c) : d[l] = c[l]
  BY <1>1
<1>4. \E r \in DOMAIN names : d[1] = Tuple(names[r])
  BY <1>1, <1>3 DEF Way
<1>5. ASSUME NEW k \in 1 .. Len(c)
      PROVE  Above(d[k], d[k + 1]) /\ (d[k].type = "tuple" => \A l \in 1 .. k : d[l].node # d[k + 1].node)
  <2>1. CASE k = Len(c)
    <3>1. d[k] = c[k] /\ d[k + 1] = t /\ \A l \in 1 .. k : l \in DOMAIN c /\ d[l] = c[l]
      BY <1>1, <1>3, <2>1
    <3> QED
      BY <2>1, <3>1
  <2>2. CASE k < Len(c)
    <3>1. k \in 1 .. Len(c) - 1 /\ d[k] = c[k] /\ d[k + 1] = c[k + 1] /\ \A l \in 1 .. k : d[l] = c[l]
      BY <1>1, <1>2, <1>3, <2>2
    <3>2. Above(c[k], c[k + 1]) /\ (c[k].type = "tuple" => \A l \in 1 .. k : c[l].node # c[k + 1].node)
      BY <3>1 DEF Way
    <3> QED
      BY <3>1, <3>2
  <2>3. k = Len(c) \/ k < Len(c)
    <3>1. k \in 1 .. Len(c) /\ Len(c) \in Nat
      BY <1>1
    <3> QED
      BY ONLY <3>1
  <2> QED
    BY ONLY <2>1, <2>2, <2>3
<1>6. Way(d)
  <2>1. Len(d) - 1 = Len(c)
    BY <1>1, <1>2
  <2> HIDE DEF d
  <2> QED
    BY <1>2, <1>4, <1>5, <2>1 DEF Way
<1> QED
  BY <1>1, <1>2, <1>3, <1>6

\* A way that has come to the owner of a oneof has not been inside the oneof.
LEMMA OwnerFirst ==
    ASSUME TypeOK, OneofsOwned, NEW c, Way(c), NEW m \in Node, c[Len(c)].type = "tuple", c[Len(c)].node = m,
           NEW j \in DOMAIN fields[m], fields[m][j][1] = "oneof", NEW l \in DOMAIN c
    PROVE  c[l].node # fields[m][j][2]
<1> DEFINE o == fields[m][j][2]
<1> SUFFICES ASSUME c[l].node = o PROVE FALSE
  OBVIOUS
<1>1. c \in Seq(Spot) /\ Len(c) \in Nat \ {0} /\ DOMAIN c = 1 .. Len(c)
  BY DEF Way
<1>2. o \in Node /\ IsOneof(o)
  <2>1. fields[m] \in Seq(Field)
    BY DEF TypeOK
  <2> QED
    BY <2>1 DEF Field, IsOneof
<1>3. \A n \in Node : \A k \in DOMAIN fields[n] :
        Refers(fields[n][k]) /\ fields[n][k][2] = o => n = m /\ fields[n][k][1] = "oneof"
  BY DEF OneofsOwned
<1>4. c[1].node # o /\ c[1].type = "tuple"
  BY <1>2 DEF OneofsOwned, Way, Tuple
<1>5. ASSUME NEW k \in 2 .. Len(c), c[k].node = o
      PROVE  c[k - 1].type = "tuple" => c[k - 1].node = m
  <2>1. k - 1 \in Nat \ {0} /\ k - 1 < Len(c) /\ (k - 1) + 1 = k /\ k - 1 \in DOMAIN c
    BY <1>1
  <2>2. Above(c[k - 1], c[k]) /\ c[k - 1] \in Spot
    BY <1>1, <2>1, NextSpot
  <2>3. c[k - 1].node \in Node
    BY <2>2 DEF Spot
  <2>4. ASSUME c[k - 1].type = "tuple" PROVE c[k - 1].node = m
    <3>1. PICK q \in DOMAIN fields[c[k - 1].node] :
             Refers(fields[c[k - 1].node][q]) /\ c[k] = Below(fields[c[k - 1].node][q])
      BY <2>2, <2>4 DEF Above
    <3>2. fields[c[k - 1].node][q][2] = o
      BY <1>5, <3>1 DEF Below, Tuple, List
    <3> QED
      BY <1>3, <2>3, <3>1, <3>2
  <2> QED
    BY <2>4
<1>6. ASSUME NEW k \in DOMAIN c, c[k].type = "list" PROVE c[k].node # o
  <2>1. k \in 2 .. Len(c)
    BY <1>1, <1>4, <1>6
  <2>2. k - 1 \in Nat \ {0} /\ k - 1 < Len(c) /\ (k - 1) + 1 = k /\ k - 1 \in DOMAIN c
    BY <1>1, <2>1
  <2>3. Above(c[k - 1], c[k]) /\ c[k - 1] \in Spot
    BY <1>1, <2>2, NextSpot
  <2>4. PICK q \in DOMAIN fields[c[k - 1].node] :
           Refers(fields[c[k - 1].node][q]) /\ c[k] = Below(fields[c[k - 1].node][q])
    BY <1>6, <2>3 DEF Above, Tuple
  <2>5. fields[c[k - 1].node][q][1] = "many" /\ fields[c[k - 1].node][q][2] = c[k].node /\ c[k - 1].node \in Node
    BY <1>6, <2>3, <2>4 DEF Below, Tuple, List, Spot
  <2> QED
    BY <1>3, <2>4, <2>5
<1>7. l \in 2 .. Len(c)
  BY <1>1, <1>4
<1>8. l - 1 \in DOMAIN c /\ c[l - 1] \in Spot
  BY <1>1, <1>7
<1>9. c[l - 1].type = "tuple" /\ c[l - 1].node = m
  <2>1. CASE c[l - 1].type = "list"
    <3>1. l - 1 \in Nat \ {0} /\ l - 1 < Len(c) /\ (l - 1) + 1 = l
      BY <1>1, <1>7
    <3>2. Above(c[l - 1], c[l])
      BY <3>1, NextSpot
    <3>3. c[l - 1].node = o
      BY <2>1, <3>2 DEF Above, Tuple
    <3> QED
      BY <1>6, <1>8, <2>1, <3>3
  <2>2. CASE c[l - 1].type = "tuple"
    BY <1>5, <1>7, <2>2
  <2> QED
    BY <1>8, <2>1, <2>2 DEF Spot
<1>10. m # o
  BY <1>2 DEF OneofsOwned
<1> DEFINE n == Len(c)
<1>11. n # l /\ n - 1 \in Nat \ {0} /\ n - 1 < Len(c) /\ (n - 1) + 1 = n /\ n - 1 \in DOMAIN c /\ c[n - 1] \in Spot
       /\ l - 1 \in 1 .. n - 1 /\ l - 1 \in 1 .. n - 2
  BY <1>1, <1>7, <1>10
<1>12. Above(c[n - 1], c[n]) /\ (c[n - 1].type = "tuple" => \A k \in 1 .. n - 1 : c[k].node # c[n].node)
  BY <1>11, NextSpot
<1>13. CASE c[n - 1].type = "tuple"
  BY <1>9, <1>11, <1>12, <1>13
<1>14. CASE c[n - 1].type = "list"
  <2>1. c[n - 1].node = m /\ n - 1 # 1 /\ l - 1 # n - 1
    BY <1>4, <1>9, <1>12, <1>14 DEF Above, Tuple
  <2>2. n - 2 \in Nat \ {0} /\ n - 2 < Len(c) /\ (n - 2) + 1 = n - 1 /\ l - 1 \in 1 .. n - 2
    BY <1>1, <1>11, <2>1
  <2>3. Above(c[n - 2], c[n - 1]) /\ (c[n - 2].type = "tuple" => \A k \in 1 .. n - 2 : c[k].node # c[n - 1].node)
    BY <2>2, NextSpot
  <2>4. c[n - 2].type = "tuple"
    BY <1>14, <2>3 DEF Above, Tuple
  <2> QED
    BY <1>9, <2>1, <2>2, <2>3, <2>4
<1> QED
  BY <1>11, <1>13, <1>14 DEF Spot

\* Field f is field j of the message, or an alternative of it if it is a oneof.
Within(m, j, f) ==
    \/ fields[m][j] = f /\ f[1] # "oneof"
    \/ /\ fields[m][j][1] = "oneof" /\ Refers(f)
       /\ \E k \in DOMAIN fields[fields[m][j][2]] : fields[fields[m][j][2]][k] = f
\* A way from c to spot t of a field f, with no other node but oneofs.
Onward(d, c, f, t) ==
    /\ Way(d) /\ Len(d) >= Len(c) + 1 /\ Same(d[Len(d)], t)
    /\ \A l \in DOMAIN d : (\E k \in DOMAIN c : d[l].node = c[k].node) \/ d[l].node = f[2] \/ IsOneof(d[l].node)

\* One spot deeper: what a codec goes down to from a message is on a way too.
LEMMA GoesAlong ==
    ASSUME TypeOK, OneofsOwned, NEW c, Way(c), NEW m \in Node, c[Len(c)].type = "tuple", c[Len(c)].node = m,
           NEW f \in Field, NEW j \in DOMAIN fields[m], Refers(fields[m][j]), Within(m, j, f),
           \A l \in DOMAIN c : c[l].node # f[2],
           NEW t, t = Below(f) \/ (f[1] = "many" /\ t = Tuple(f[2]))
    PROVE  \E d : Onward(d, c, f, t)
<1>1. /\ c \in Seq(Spot) /\ Len(c) \in Nat \ {0} /\ DOMAIN c = 1 .. Len(c)
      /\ \A n \in Node : fields[n] \in Seq(Field)
  BY DEF Way, TypeOK
<1>2. m \notin Enum
  BY DEF OneofsOwned
<1>3. f[2] \in Node /\ f[1] \in Kind
  BY DEF Field
<1>4. /\ Below(f) \in Spot /\ Below(f).node = f[2] /\ Tuple(f[2]) \in Spot
      /\ Tuple(f[2]).node = f[2] /\ Tuple(f[2]).type = "tuple"
      /\ f[1] = "many" => Below(f) = List(f[2]) /\ Below(f).type = "list"
  BY <1>3 DEF Below, Spot, Tuple, List
\* First the way down to the field, through the oneof if it is in one.
<1>5. \E b : /\ Way(b) /\ Len(b) >= Len(c) /\ b[Len(b)].type = "tuple" /\ Above(b[Len(b)], Below(f))
             /\ \A l \in DOMAIN b : b[l].node # f[2] /\ ((\E k \in DOMAIN c : b[l].node = c[k].node) \/ IsOneof(b[l].node))
  <2>1. CASE fields[m][j] = f /\ f[1] # "oneof"
    <3>1. Above(c[Len(c)], Below(f))
      BY <1>2, <2>1 DEF Above
    <3>2. Len(c) >= Len(c)
      BY <1>1
    <3> QED
      BY <3>1, <3>2
  <2>2. CASE /\ fields[m][j][1] = "oneof" /\ Refers(f)
             /\ \E k \in DOMAIN fields[fields[m][j][2]] : fields[fields[m][j][2]][k] = f
    <3> DEFINE o == fields[m][j][2]
               b == Append(c, Tuple(o))
    <3>1. fields[m][j] \in Field /\ o \in Node /\ IsOneof(o) /\ Below(fields[m][j]) = Tuple(o)
      BY <1>1, <2>2 DEF Field, Below, IsOneof
    <3>2. Tuple(o) \in Spot /\ Tuple(o).node = o /\ Tuple(o).type = "tuple"
      BY <3>1 DEF Tuple, Spot
    <3>3. Above(c[Len(c)], Tuple(o))
      BY <1>2, <3>1 DEF Above
    <3>4. \A l \in DOMAIN c : c[l].node # o
      BY <2>2, OwnerFirst
    <3>5. /\ Way(b) /\ Len(b) = Len(c) + 1
          /\ \A l \in DOMAIN b : (l \in DOMAIN c /\ b[l] = c[l]) \/ (l = Len(c) + 1 /\ b[l] = Tuple(o))
      <4> HIDE DEF o
      <4> QED
        BY <3>2, <3>3, <3>4, WayOn
    <3>6. o # f[2]
      <4>1. PICK k \in DOMAIN fields[o] : fields[o][k] = f
        BY <2>2
      <4>2. f[1] # "oneof"
        BY <3>1, <4>1 DEF OneofsOwned
      <4>3. f[2] = o => f[1] = "oneof"
        BY <2>2, <3>1, <4>1 DEF OneofsOwned
      <4> QED
        BY <4>2, <4>3
    <3>7. b[Len(b)] = Tuple(o)
      BY <1>1, <3>2
    <3>8. Above(b[Len(b)], Below(f))
      <4>1. o \notin Enum
        BY <3>1 DEF OneofsOwned
      <4> QED
        BY <2>2, <3>2, <3>7, <4>1 DEF Above
    <3>9. Len(b) >= Len(c)
      BY <1>1, <3>5
    <3>10. \A l \in DOMAIN b : b[l].node # f[2] /\ ((\E k \in DOMAIN c : b[l].node = c[k].node) \/ IsOneof(b[l].node))
      BY <3>1, <3>2, <3>5, <3>6
    <3> HIDE DEF b
    <3> QED
      BY <3>2, <3>5, <3>7, <3>8, <3>9, <3>10
  <2> QED
    BY <2>1, <2>2 DEF Within
<1>6. PICK b : /\ Way(b) /\ Len(b) >= Len(c) /\ b[Len(b)].type = "tuple" /\ Above(b[Len(b)], Below(f))
               /\ \A l \in DOMAIN b :
                    b[l].node # f[2] /\ ((\E k \in DOMAIN c : b[l].node = c[k].node) \/ IsOneof(b[l].node))
  BY <1>5
<1>7. Len(b) \in Nat /\ b \in Seq(Spot)
  BY <1>6 DEF Way
<1> DEFINE d == Append(b, Below(f))
<1>8. /\ Way(d) /\ Len(d) = Len(b) + 1
      /\ \A l \in DOMAIN d : (l \in DOMAIN b /\ d[l] = b[l]) \/ (l = Len(b) + 1 /\ d[l] = Below(f))
  BY <1>4, <1>6, WayOn
<1>9. d[Len(d)] = Below(f)
  BY <1>4, <1>7
<1>10. \A l \in DOMAIN d : (\E k \in DOMAIN c : d[l].node = c[k].node) \/ d[l].node = f[2] \/ IsOneof(d[l].node)
  BY <1>4, <1>6, <1>8
<1>11. Len(d) >= Len(c) + 1 /\ Len(d) \in Nat /\ d \in Seq(Spot)
  BY <1>1, <1>4, <1>6, <1>7, <1>8
<1> HIDE DEF d
<1>12. CASE t = Below(f)
  BY <1>8, <1>9, <1>10, <1>11, <1>12 DEF Same, Onward
<1>13. CASE f[1] = "many" /\ t = Tuple(f[2])
  <2> DEFINE e == Append(d, t)
  <2>1. Above(d[Len(d)], t) /\ d[Len(d)].type = "list"
    BY <1>4, <1>9, <1>13 DEF Above
  <2>2. /\ Way(e) /\ Len(e) = Len(d) + 1
        /\ \A l \in DOMAIN e : (l \in DOMAIN d /\ e[l] = d[l]) \/ (l = Len(d) + 1 /\ e[l] = t)
    BY <1>4, <1>8, <1>13, <2>1, WayOn
  <2>3. e[Len(e)] = t
    BY <1>4, <1>11, <1>13
  <2>4. \A l \in DOMAIN e : (\E k \in DOMAIN c : e[l].node = c[k].node) \/ e[l].node = f[2] \/ IsOneof(e[l].node)
    BY <1>4, <1>10, <1>13, <2>2
  <2>5. Len(e) >= Len(c) + 1
    BY <1>1, <1>11, <2>2
  <2> HIDE DEF e
  <2> QED
    BY <2>2, <2>3, <2>4, <2>5 DEF Same, Onward
<1> QED
  BY <1>12, <1>13

\* Where a codec is inside of the same spots as before, so it is known.
LEMMA KnownStays ==
    ASSUME UNCHANGED schema, NEW k \in Nat \ {0}, \A l \in 1 .. k : path'[l] = path[l], Known(k)
    PROVE  Known(k)'
<1>1. k \in 1 .. k
  OBVIOUS
<1>2. ASSUME Twice(k) PROVE Twice(k)'
  BY <1>2 DEF Twice
<1>3. ASSUME NEW c, Along(c, k) PROVE Along(c, k)'
  <2>1. Way(c)' /\ fields' = fields
    BY <1>3, WaysStay DEF Along, schema
  <2>2. path'[k] = path[k]
    BY <1>1
  <2> QED
    BY <1>3, <2>1, <2>2 DEF Along, Same, IsOneof
<1> QED
  BY <1>2, <1>3 DEF Known

\* A codec starts where a way does.
LEMMA RootKnown ==
    ASSUME TypeOK, NEW r \in DOMAIN names, path' = <<Tuple(names[r])>>, UNCHANGED schema
    PROVE  Known(1)'
<1> SUFFICES ASSUME NEW c, c = <<Tuple(names[r])>>
             PROVE  Known(1)'
  OBVIOUS
<1>1. names[r] \in Node /\ fields' = fields
  BY DEF TypeOK, schema
<1>2. c \in Seq(Spot) /\ c # <<>> /\ Len(c) = 1 /\ c[1] = Tuple(names[r]) /\ DOMAIN c = {1} /\ 1 .. Len(c) - 1 = {}
  BY <1>1 DEF Tuple, Spot
<1>3. Way(c)
  BY <1>2 DEF Way
<1>4. Way(c)'
  BY <1>3, WaysStay
<1>5. path' = c /\ 1 <= Len(c) /\ 1 \in 1 .. 1
  BY <1>2
<1>6. Along(c, 1)'
  BY ONLY <1>2, <1>4, <1>5 DEF Along, Same
<1> QED
  BY <1>6 DEF Known

\* A way to a spot is one in the next state, where the path goes on to it.
LEMMA AlongNext ==
    ASSUME UNCHANGED schema, NEW c, Way(c), NEW n \in Nat \ {0}, n <= Len(c), Same(c[Len(c)], path'[n]),
           \A l \in DOMAIN c : (\E m \in 1 .. n : c[l].node = path'[m].node) \/ IsOneof(c[l].node)
    PROVE  Known(n)'
<1>1. Way(c)' /\ fields' = fields
  BY WaysStay DEF schema
<1>2. Along(c, n)'
  BY <1>1 DEF Along, Same, IsOneof
<1> QED
  BY <1>2 DEF Known

\* What has been met twice stays so one spot deeper.
LEMMA TwiceStays ==
    ASSUME NEW n \in Nat \ {0}, \A l \in 1 .. n : path'[l] = path[l], Twice(n)
    PROVE  Twice(n + 1)'
<1>1. \A l \in 1 .. n : l \in 1 .. n + 1
  OBVIOUS
<1> QED
  BY <1>1 DEF Twice

\* From a list the codec goes to its element.
LEMMA ElementKnown ==
    ASSUME TypeOK, path # <<>>, NEW n, n = Len(path), Top.type = "list", Known(n),
           path' = Append(path, Tuple(Top.node)), UNCHANGED schema
    PROVE  Known(n + 1)'
<1>1. n \in Nat \ {0} /\ path \in Seq(Spot) /\ n \in DOMAIN path /\ Top = path[n] /\ Top \in Spot
  BY DEF TypeOK, Top
<1>2. /\ \A l \in 1 .. n : path'[l] = path[l]
      /\ path'[n + 1] = Tuple(Top.node)
      /\ Tuple(Top.node) \in Spot /\ Tuple(Top.node).node = Top.node
  BY <1>1 DEF Spot, Tuple
<1>3. CASE Twice(n)
  BY <1>1, <1>2, <1>3, TwiceStays DEF Known
<1>4. ASSUME NEW c, Along(c, n) PROVE Known(n + 1)'
  <2> DEFINE t == Tuple(Top.node)
             d == Append(c, t)
  <2>1. Way(c) /\ n <= Len(c) /\ Same(c[Len(c)], Top) /\ Len(c) \in Nat
    BY <1>1, <1>4 DEF Along, Way
  <2>2. Above(c[Len(c)], t) /\ c[Len(c)].type = "list"
    BY <2>1 DEF Same, Above, Tuple
  <2>3. /\ Way(d) /\ Len(d) = Len(c) + 1
        /\ \A l \in DOMAIN d : (l \in DOMAIN c /\ d[l] = c[l]) \/ (l = Len(c) + 1 /\ d[l] = t)
    BY <1>2, <2>1, <2>2, WayOn
  <2>4. Len(d) \in DOMAIN d /\ Len(d) # Len(c)
    BY <2>1, <2>3 DEF Way
  <2>5. d[Len(d)] = t
    <3>1. ~(Len(d) \in DOMAIN c)
      BY <2>1, <2>3 DEF Way
    <3> QED
      BY <2>3, <2>4, <3>1
  <2>6. Same(d[Len(d)], path'[n + 1])
    BY <1>2, <2>5 DEF Same
  <2>7. ASSUME NEW l \in DOMAIN d
        PROVE  (\E m \in 1 .. n + 1 : d[l].node = path'[m].node) \/ IsOneof(d[l].node)
    <3>1. \A m \in 1 .. n : m \in 1 .. n + 1 /\ path'[m] = path[m]
      BY <1>1, <1>2
    <3>2. n + 1 \in 1 .. n + 1
      BY <1>1
    <3>3. CASE l \in DOMAIN c /\ d[l] = c[l]
      BY <1>4, <3>1, <3>3 DEF Along
    <3>4. CASE d[l] = t
      BY <1>2, <3>2, <3>4
    <3> QED
      BY <2>3, <3>3, <3>4
  <2>8. n + 1 <= Len(d) /\ n + 1 \in Nat \ {0}
    BY <1>1, <2>1, <2>3
  <2> HIDE DEF d
  <2> QED
    BY <2>3, <2>6, <2>7, <2>8, AlongNext
<1> QED
  BY <1>3, <1>4 DEF Known

\* From a message the codec goes to a field, or to what a oneof of it holds.
LEMMA MessageKnown ==
    ASSUME TypeOK, OneofsOwned, path # <<>>, NEW n, n = Len(path), Top.type = "tuple", Known(n),
           \A k \in 1 .. n - 1 : path[k].type = "list" => path[k + 1].node = path[k].node /\ path[k + 1].type = "tuple",
           NEW f \in Reaches, NEW t, t = Below(f) \/ (f[1] = "many" /\ t = Tuple(f[2])),
           path' = Append(path, t), UNCHANGED schema
    PROVE  Known(n + 1)'
<1>1. /\ n \in Nat \ {0} /\ path \in Seq(Spot) /\ n \in DOMAIN path /\ Top = path[n] /\ Top \in Spot
      /\ \A m \in Node : fields[m] \in Seq(Field)
  BY DEF TypeOK, Top
<1> SUFFICES ASSUME NEW m \in Node, m = Top.node
             PROVE  Known(n + 1)'
  BY <1>1 DEF Spot
<1>2. PICK j \in DOMAIN fields[m] : Refers(fields[m][j]) /\ Within(m, j, f)
  BY DEF Reaches, Fields, Refers, Within
<1>3. f \in Field /\ Refers(f) /\ f[2] \in Node
  BY <1>1, <1>2 DEF Field, Within
<1>4. f[1] # "oneof" /\ ~IsOneof(f[2])
  <2>1. CASE fields[m][j] = f /\ f[1] # "oneof"
    BY <1>2, <2>1 DEF OneofsOwned, IsOneof
  <2>2. CASE /\ fields[m][j][1] = "oneof"
             /\ \E k \in DOMAIN fields[fields[m][j][2]] : fields[fields[m][j][2]][k] = f
    <3>1. IsOneof(fields[m][j][2]) /\ fields[m][j][2] \in Node
      BY <1>1, <2>2 DEF IsOneof, Field
    <3>2. PICK k \in DOMAIN fields[fields[m][j][2]] : fields[fields[m][j][2]][k] = f
      BY <2>2
    <3>3. f[1] # "oneof"
      BY <3>1, <3>2 DEF OneofsOwned
    <3> QED
      BY <1>3, <3>1, <3>2, <3>3 DEF OneofsOwned, IsOneof
  <2> QED
    BY <1>2, <2>1, <2>2 DEF Within
<1>5. t \in Spot /\ t.node = f[2]
  BY <1>3 DEF Below, Tuple, List, Spot
<1>6. /\ \A l \in 1 .. n : path'[l] = path[l] /\ l \in 1 .. n + 1
      /\ path'[n + 1] = t /\ n + 1 \in 1 .. n + 1
  BY <1>1, <1>5
<1>7. CASE Twice(n)
  BY <1>1, <1>6, <1>7, TwiceStays DEF Known
<1>8. CASE \E l \in 1 .. n : path[l].node = f[2]
  <2>1. PICK l \in 1 .. n : path[l].node = f[2]
    BY <1>8
  <2>2. CASE path[l].type = "tuple"
    <3>1. l < n + 1
      BY <1>1
    <3>2. Twice(n + 1)'
      BY <1>5, <1>6, <2>1, <2>2, <3>1 DEF Twice
    <3> QED
      BY <3>2 DEF Known
  <2>3. CASE path[l].type = "list"
    <3>1. l # n /\ l \in 1 .. n - 1 /\ l + 1 \in 1 .. n /\ l + 1 < n + 1
      BY <1>1, <2>3
    <3>2. path[l + 1].type = "tuple" /\ path[l + 1].node = f[2]
      BY <2>1, <2>3, <3>1
    <3>3. Twice(n + 1)'
      BY <1>5, <1>6, <3>1, <3>2 DEF Twice
    <3> QED
      BY <3>3 DEF Known
  <2>4. path[l] \in Spot
    BY <1>1
  <2>5. path[l].type = "tuple" \/ path[l].type = "list"
    BY <2>4 DEF Spot
  <2> QED
    BY ONLY <2>2, <2>3, <2>5
<1>9. ASSUME NEW c, Along(c, n), \A l \in 1 .. n : path[l].node # f[2]
      PROVE  Known(n + 1)'
  <2>1. Way(c) /\ n <= Len(c) /\ c[Len(c)].type = "tuple" /\ c[Len(c)].node = m /\ Len(c) \in Nat
    BY <1>1, <1>9 DEF Along, Way, Same
  <2>2. \A l \in DOMAIN c : c[l].node # f[2]
    BY <1>4, <1>9 DEF Along
  <2>3. PICK d : Onward(d, c, f, t)
    BY ONLY TypeOK, OneofsOwned, <1>2, <1>3, <2>1, <2>2, t = Below(f) \/ (f[1] = "many" /\ t = Tuple(f[2])), GoesAlong
  <2>4. ASSUME NEW l \in DOMAIN d
        PROVE  (\E k \in 1 .. n + 1 : d[l].node = path'[k].node) \/ IsOneof(d[l].node)
    <3>1. CASE \E k \in DOMAIN c : d[l].node = c[k].node
      BY <1>6, <1>9, <3>1 DEF Along
    <3>2. CASE d[l].node = f[2]
      BY <1>5, <1>6, <3>2
    <3> QED
      BY <2>3, <3>1, <3>2 DEF Onward
  <2>5. n + 1 <= Len(d) /\ n + 1 \in Nat \ {0}
    <3>1. Len(d) \in Nat
      BY <2>3 DEF Way, Onward
    <3> QED
      BY <1>1, <2>1, <2>3, <3>1 DEF Onward
  <2>6. Same(d[Len(d)], path'[n + 1])
    BY <1>6, <2>3 DEF Onward
  <2> QED
    BY <2>3, <2>4, <2>5, <2>6, AlongNext DEF Onward
<1> QED
  BY <1>7, <1>8, <1>9 DEF Known

\* A codec that has gone one spot deeper is known there, and was so before.
LEMMA PushedKnown ==
    ASSUME TypeOK, CodecInv, phase = "serve", UNCHANGED schema, path # <<>>, NEW t, path' = Append(path, t),
           NEW n, n = Len(path), Known(n + 1)', Top.type = "list" => t = Tuple(Top.node)
    PROVE  CodecInv'
<1>1. n \in Nat \ {0} /\ path \in Seq(Spot) /\ Top = path[n] /\ DOMAIN path = 1 .. n
  BY DEF TypeOK, Top
<1>2. (\A l \in 1 .. n : path'[l] = path[l]) /\ path'[n + 1] = t /\ Len(path') = n + 1 /\ DOMAIN path' = 1 .. n + 1
  BY <1>1
<1>3. ASSUME NEW k \in DOMAIN path' PROVE Known(k)'
  <2>1. CASE k = n + 1
    BY <2>1
  <2>2. CASE k \in 1 .. n
    <3>1. k \in Nat \ {0} /\ \A l \in 1 .. k : path'[l] = path[l]
      BY <1>1, <1>2, <2>2
    <3>2. Known(k)
      BY <1>1, <2>2 DEF CodecInv
    <3> QED
      BY <3>1, <3>2, KnownStays
  <2> QED
    BY <1>1, <1>2, <2>1, <2>2
<1>4. ASSUME NEW k \in 1 .. Len(path') - 1, path'[k].type = "list"
      PROVE  path'[k + 1].node = path'[k].node /\ path'[k + 1].type = "tuple"
  <2>1. k \in 1 .. n /\ path'[k] = path[k]
    BY <1>1, <1>2
  <2>2. CASE k = n
    BY <1>1, <1>2, <1>4, <2>1, <2>2 DEF Tuple
  <2>3. CASE k \in 1 .. n - 1
    <3>1. path'[k + 1] = path[k + 1]
      BY <1>1, <1>2, <2>3
    <3> QED
      BY <1>1, <1>4, <2>1, <2>3, <3>1 DEF CodecInv
  <2> QED
    BY <1>1, <2>1, <2>2, <2>3
<1> QED
  BY <1>3, <1>4 DEF CodecInv

\* What Nest appends, where _realloc has given the room.
LEMMA NestKnown ==
    ASSUME IInv, OneofsOwned, CodecInv, Nest, phase' = "serve"
    PROVE  path # <<>> /\ (\E t : path' = Append(path, t)) /\ CodecInv'
<1> SUFFICES ASSUME NEW n, n = Len(path)
             PROVE  path # <<>> /\ (\E t : path' = Append(path, t)) /\ CodecInv'
  OBVIOUS
<1>1. phase = "serve" /\ path # <<>> /\ UNCHANGED schema /\ TypeOK /\ path \in Seq(Spot) /\ n \in DOMAIN path /\ Known(n)
  BY DEF Nest, IInv, TypeOK, CodecInv
<1>2. \A t : Push(busy, Append(path, t)) => path' = Append(path, t)
  BY <1>1 DEF Push
<1>3. CASE Top.type = "list"
  <2>1. path' = Append(path, Tuple(Top.node))
    BY <1>2, <1>3 DEF Nest
  <2>2. Known(n + 1)'
    BY <1>1, <1>3, <2>1, ElementKnown
  <2> QED
    BY <1>1, <2>1, <2>2, PushedKnown
<1>4. CASE Top.type # "list"
  <2>1. PICK f, t : f \in Reaches /\ (t = Below(f) \/ (f[1] = "many" /\ t = Tuple(f[2]))) /\ path' = Append(path, t)
    BY <1>2, <1>4 DEF Nest
  <2>2. Top.type = "tuple"
    <3>1. Top \in Spot
      BY <1>1 DEF Top
    <3> QED
      BY <1>4, <3>1 DEF Spot
  <2>3. \A k \in 1 .. n - 1 : path[k].type = "list" => path[k + 1].node = path[k].node /\ path[k + 1].type = "tuple"
    BY <1>1 DEF CodecInv
  <2>4. Known(n + 1)'
    BY <1>1, <2>1, <2>2, <2>3, MessageKnown
  <2> QED
    BY <1>1, <1>4, <2>1, <2>4, PushedKnown
<1> QED
  BY <1>3, <1>4

\* Every step keeps what is known of a codec.
LEMMA CodecKeeps == IInv /\ OneofsOwned /\ CodecInv /\ [Next]_vars => CodecInv'
<1> SUFFICES ASSUME IInv, OneofsOwned, CodecInv, [Next]_vars, phase' = "serve" PROVE CodecInv'
  BY DEF CodecInv
<1>1. CASE StartRoot \/ SkipEnum \/ LeaveTuple \/ GoDown \/ NothingBelow \/ EnterElement \/ LeaveList \/ EndWalk \/ Resize
  BY <1>1 DEF StartRoot, SkipEnum, LeaveTuple, GoDown, NothingBelow, EnterElement, LeaveList, EndWalk, Resize, Walking, Push
<1>2. CASE Serve
  <2>1. path' = <<>>
    BY <1>2 DEF Serve, IInv
  <2> QED
    BY <2>1 DEF CodecInv
<1>3. CASE Root
  <2>1. PICK r \in DOMAIN names : path' = <<Tuple(names[r])>>
    BY <1>3 DEF Root
  <2>2. UNCHANGED schema /\ TypeOK
    BY <1>3 DEF Root, IInv
  <2>3. Known(1)'
    BY <2>1, <2>2, RootKnown
  <2>4. DOMAIN path' = {1} /\ 1 .. Len(path') - 1 = {}
    BY <2>1
  <2> QED
    BY <2>3, <2>4 DEF CodecInv
<1>4. CASE Nest
  BY <1>4, NestKnown
<1>5. CASE Unnest
  <2>1. /\ phase = "serve" /\ path # <<>> /\ path' = SubSeq(path, 1, Len(path) - 1)
        /\ UNCHANGED schema /\ path \in Seq(Spot)
    BY <1>5 DEF Unnest, IInv, TypeOK
  <2>2. Len(path') = Len(path) - 1 /\ DOMAIN path' = 1 .. Len(path) - 1 /\ \A l \in 1 .. Len(path) - 1 : path'[l] = path[l]
    <3> SUFFICES ASSUME NEW q, q = path'
                 PROVE  Len(q) = Len(path) - 1 /\ DOMAIN q = 1 .. Len(path) - 1 /\ \A l \in 1 .. Len(path) - 1 : q[l] = path[l]
      OBVIOUS
    <3>1. /\ q \in Seq(Spot) /\ Len(q) = Len(path) - 1
          /\ \A k \in DOMAIN q : k \in DOMAIN path /\ q[k] = path[k]
      BY <2>1, LeaveKeeps
    <3> QED
      BY <3>1
  <2>3. ASSUME NEW k \in DOMAIN path' PROVE Known(k)'
    <3>1. k \in Nat \ {0} /\ k \in DOMAIN path /\ \A l \in 1 .. k : path'[l] = path[l]
      BY <2>1, <2>2
    <3> QED
      BY <2>1, <3>1, KnownStays DEF CodecInv
  <2>4. ASSUME NEW k \in 1 .. Len(path') - 1, path'[k].type = "list"
        PROVE  path'[k + 1].node = path'[k].node /\ path'[k + 1].type = "tuple"
    <3>1. k \in 1 .. Len(path) - 1 /\ path'[k] = path[k] /\ path'[k + 1] = path[k + 1]
      BY <2>1, <2>2
    <3> QED
      BY <2>1, <2>4, <3>1 DEF CodecInv
  <2> QED
    BY <2>3, <2>4 DEF CodecInv
<1>6. CASE UNCHANGED vars
  <2>1. phase = "serve" /\ path' = path /\ UNCHANGED schema
    BY <1>6 DEF vars
  <2>2. ASSUME NEW k \in DOMAIN path' PROVE Known(k)'
    <3>1. path \in Seq(Spot)
      BY DEF IInv, TypeOK
    <3>2. k \in Nat \ {0} /\ k \in DOMAIN path
      BY <2>1, <3>1
    <3> QED
      BY <2>1, <3>2, KnownStays DEF CodecInv
  <2> QED
    BY <2>1, <2>2 DEF CodecInv
<1> QED
  BY <1>1, <1>2, <1>3, <1>4, <1>5, <1>6 DEF Next, Load

-----------------------------------------------------------------------------

WInv == IInv /\ DepthInv /\ OneofsOwned /\ CodecInv

\* Before the walk, nothing is behind it and no codec is at work.
LEMMA WalkStarts == Init /\ OneofsOwned => WInv
<1> SUFFICES ASSUME Init, OneofsOwned PROVE WInv
  OBVIOUS
<1>1. phase = "walk" /\ i = 1 /\ path = <<>> /\ names \in Seq(Node)
  BY DEF Init
<1>2. \A c : Way(c) => ~Behind(c)
  BY <1>1 DEF Way, Behind
<1>3. WalkInv
  BY <1>1, <1>2 DEF WalkInv, Rooted
<1> QED
  BY <1>1, <1>3, InitHolds DEF WInv, DepthInv, CodecInv

\* A step changes nothing of the schema, and so not who owns its oneofs.
LEMMA WalkKeeps == WInv /\ [Next]_vars => WInv'
<1> SUFFICES ASSUME WInv, [Next]_vars PROVE WInv'
  OBVIOUS
<1>1. UNCHANGED schema
  BY DEF Next, Load, vars, StartRoot, SkipEnum, LeaveTuple, GoDown, NothingBelow, EnterElement, LeaveList, EndWalk,
         Resize, Serve, Root, Nest, Unnest
<1>2. OneofsOwned'
  BY <1>1 DEF WInv, OneofsOwned, IsOneof, schema
<1> QED
  BY <1>2, NextKeeps, DepthKeeps, CodecKeeps DEF WInv

\* A codec reallocates its stack only where a message is inside itself.
LEMMA StackSuffices == WInv /\ [Next]_vars => (phase = "serve" /\ size' # size => Recursive')
<1> SUFFICES ASSUME WInv, [Next]_vars, phase = "serve", size' # size PROVE Recursive'
  OBVIOUS
<1>1. Nest /\ IInv /\ OneofsOwned /\ CodecInv /\ \A s \in Slot : Roomy(s)
  BY DEF WInv, DepthInv, Next, Load, vars, StartRoot, SkipEnum, LeaveTuple, GoDown, NothingBelow, EnterElement, LeaveList,
         EndWalk, Resize, Serve, Root, Unnest, Walking
<1>2. PICK new : path' = new /\ size' = Ensure(busy, Len(new)) /\ phase' = phase
  BY <1>1 DEF Nest, Push
<1>3. Len(path') > size[busy]
  BY <1>2 DEF Ensure
<1>4. PICK t : path # <<>> /\ path' = Append(path, t) /\ CodecInv'
  BY <1>1, <1>2, NestKnown
<1> SUFFICES ASSUME NEW n, n = Len(path')
             PROVE  Recursive'
  OBVIOUS
<1>5. path \in Seq(Spot) /\ n \in Nat \ {0} /\ DOMAIN path' = 1 .. n /\ busy \in Slot /\ size[busy] \in Nat
  BY <1>1, <1>4 DEF IInv, TypeOK
<1>6. Known(n)'
  BY <1>2, <1>4, <1>5 DEF CodecInv
<1>7. UNCHANGED schema
  BY <1>1 DEF Nest
<1>8. ASSUME NEW c, Along(c, n)' PROVE FALSE
  <2>1. Way(c) /\ n <= Len(c)
    BY <1>7, <1>8, WaysStay DEF Along
  <2>2. Len(c) <= size[busy] /\ Len(c) \in Nat
    BY <1>1, <1>5, <2>1 DEF Roomy, Way
  <2> QED
    BY <1>3, <1>5, <2>1, <2>2
<1>9. Twice(n)'
  BY <1>6, <1>8 DEF Known
<1> QED
  BY <1>5, <1>9 DEF Twice, Recursive

\* After a load, encode and decode never reallocate a stack, whichever slot
\* they take and whatever refers to whatever, unless a message is inside
\* itself: for every schema whose oneofs stand below one field each.
THEOREM PresizedForEverySchema == Spec /\ OneofsOwned => PresizedForAll
<1>1. WInv /\ [Next]_vars => [phase = "serve" /\ size' # size => Recursive']_vars
  BY StackSuffices
<1>2. Spec /\ OneofsOwned => []WInv
  BY WalkStarts, WalkKeeps, PTL DEF Spec
<1> QED
  BY <1>1, <1>2, PTL DEF Spec, PresizedForAll
=============================================================================
