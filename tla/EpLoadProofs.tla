---------------------------- MODULE EpLoadProofs ----------------------------
(***************************************************************************)
(* Proofs about a load, for all definition lists: that the parser stays    *)
(* inside the arrays it allocated, that every node it makes has one owner, *)
(* that a load which fails, at whatever point, frees all of them once, as  *)
(* does the end of the cache it made; and that what it builds is as the    *)
(* walk needs it, so that all that is proved of the walk holds after it.   *)
(***************************************************************************)
EXTENDS EpLoad, EpPresizeProofs, EpInduction, FiniteSetTheorems

-----------------------------------------------------------------------------
(* The inductive invariant *)

\* protobuf knows no map in a oneof; free_node does not look for one there.
MapsOutside(item) ==
    item[1] = "oneof" =>
        \A k \in DOMAIN item[4] : item[4][k][1] = "field" => item[4][k][5][1] # "map"
NoMapInOneof ==
    \A list \in DefLists : \A k \in DOMAIN list :
        list[k][1] \in {"msg", "group"} => \A j \in DOMAIN list[k][3] : MapsOutside(list[k][3][j])

NodeParts == {"kind", "name", "proto", "size", "fields", "vsize", "vfields", "dense"}
FieldParts == {"name", "rnum", "type", "occ", "sub", "subName", "fnum", "proto", "oneof", "packed"}

\* A node is a record; an owned one, or one with a node below it, counts all of
\* its fields, and v_fields are as many as were counted.
Whole(n) ==
    /\ DOMAIN n = NodeParts
    /\ n.kind \in Parser!Message \cup {"oneof", "enum"}
    /\ Parser!IsSequence(n.fields) /\ n.size \in Nat
    /\ n.kind # "enum" =>
        /\ \A k \in DOMAIN n.fields : DOMAIN n.fields[k] = FieldParts
        /\ n.size \in {0, Len(n.fields)}
        /\ n.kind \in Parser!Owning => n.size = Len(n.fields)
    /\ n.vsize \in Nat
    /\ n.vfields # <<>> => Len(n.vfields) = n.vsize

\* Field k of node a owns the node below it.
Hangs(h, a, k) == h[a].kind # "enum" /\ h[a].fields[k].type \in Parser!Owning
SubOf(h, a, k) == h[a].fields[k].sub

\* The nodes of maps and oneofs are those below a field, each below one.
Hung(h) ==
    \A a \in DOMAIN h : \A k \in DOMAIN h[a].fields : Hangs(h, a, k) =>
        /\ SubOf(h, a, k) \in DOMAIN h /\ h[SubOf(h, a, k)].kind = h[a].fields[k].type
        /\ h[a].size = Len(h[a].fields)
HungOnce(h) ==
    \A a, b \in DOMAIN h : \A k \in DOMAIN h[a].fields, j \in DOMAIN h[b].fields :
        Hangs(h, a, k) /\ Hangs(h, b, j) /\ SubOf(h, a, k) = SubOf(h, b, j) => a = b /\ k = j
AllHung(h) ==
    \A n \in DOMAIN h : h[n].kind \in Parser!Owning =>
        \E a \in DOMAIN h : \E k \in DOMAIN h[a].fields : Hangs(h, a, k) /\ SubOf(h, a, k) = n
Shallow(h) ==
    NoMapInOneof => \A a \in DOMAIN h : h[a].kind \in Parser!Owning =>
                        \A k \in DOMAIN h[a].fields : ~Hangs(h, a, k)

Sound(h) ==
    /\ Parser!IsSequence(h) /\ \A a \in DOMAIN h : Whole(h[a])
    /\ Hung(h) /\ HungOnce(h) /\ AllHung(h) /\ Shallow(h)

\* The numbers of the fields before field m: its own, and those of its oneofs.
Own(h, a, m) == {k \in DOMAIN h[a].fields : k < m /\ h[a].fields[k].type \notin {"oneof", "unknown"}}
Oneofs(h, a, m) ==
    {h[a].fields[k].sub : k \in {j \in DOMAIN h[a].fields : j < m /\ h[a].fields[j].type = "oneof"}}
Alternatives(h, a, m) == UNION {{b} \X DOMAIN h[b].fields : b \in Oneofs(h, a, m)}

\* A call in progress: the fields behind the current one are blank, and so is
\* the current one, unless the node below it has been read.
Blank(f) == f.type = "unknown" /\ f.sub = Parser!Null
Current(h, f) == Len(h[f.node].fields) - Len(f.items) + 1
Matches(type, item) ==
    \/ type = "map" /\ item[1] = "field" /\ item[5][1] = "map"
    \/ type = "oneof" /\ item[1] = "oneof"
Reads(kind, items) ==
    /\ kind \in {"msg", "group"} => \A k \in DOMAIN items : Parser!ItemAssumption(items[k])
    /\ kind \in {"msg", "group"} /\ NoMapInOneof => \A k \in DOMAIN items : MapsOutside(items[k])
    /\ kind = "map" => \A k \in DOMAIN items : items[k][1] = "field" /\ items[k][5][1] # "map"
    /\ kind = "oneof" /\ NoMapInOneof =>
        \A k \in DOMAIN items : items[k][1] = "field" => items[k][5][1] # "map"
Calls(h, f) ==
    LET n == h[f.node]
        m == Current(h, f)
    IN  /\ DOMAIN f = {"node", "items"}
        /\ f.node \in DOMAIN h
        /\ Parser!IsSequence(f.items) /\ Len(f.items) <= Len(n.fields)
        /\ n.vfields = <<>>
        /\ n.kind = "enum" => Len(f.items) = Len(n.fields)
        /\ n.kind # "enum" =>
            /\ n.size = Len(n.fields)
            /\ \A k \in DOMAIN n.fields :
                /\ k > m => Blank(n.fields[k])
                /\ k = m => Blank(n.fields[k]) \/ (Hangs(h, f.node, k) /\ Matches(n.fields[k].type, Head(f.items)))
            /\ n.kind \in Parser!Message =>
                n.vsize = Cardinality(Own(h, f.node, m)) + Cardinality(Alternatives(h, f.node, m))
            /\ Reads(n.kind, f.items)

TypesInv ==
    /\ defs \in DefLists
    /\ stage \in {"count", "create", "define", "fields", "unwind", "link", "discard",
                  "loaded", "failed", "destroyed"}
    /\ proto \in {2, 3}
    /\ node \in {Parser!Null} \cup DOMAIN heap
    /\ denied \in BOOLEAN /\ corrupt \in BOOLEAN

CacheInv ==
    /\ DOMAIN cache = {"size", "ids", "names"}
    /\ Parser!IsSequence(cache.ids) /\ cache.size \in Nat /\ Len(cache.ids) <= cache.size
    /\ \A k \in DOMAIN cache.ids : cache.ids[k] \in DOMAIN heap
    /\ \A j, k \in DOMAIN cache.ids : cache.ids[j] = cache.ids[k] => j = k

\* The cache has room for the definitions that are still to be read.
Unread == {k \in Parser!Definitions : k > Len(defs) - Len(todo)}
RoomInv ==
    /\ stage \in {"count", "create"} => cache = Parser!NoCache /\ heap = <<>>
    /\ stage \in {"define", "fields"} =>
        /\ Parser!IsSequence(todo) /\ Len(todo) <= Len(defs)
        /\ \A k \in DOMAIN todo : todo[k] = defs[Len(defs) - Len(todo) + k]
        /\ Len(cache.ids) + Cardinality(Unread) <= cache.size
    /\ stage \in {"create", "define", "fields"} => \A k \in DOMAIN defs : defs[k] # <<"bad">>
    /\ stage = "fields" => todo # <<>> /\ Head(todo)[1] \notin Parser!Header \cup {"tail"} /\ node # Parser!Null

\* The other nodes are in the cache, or are the one being read.
Held == stage \in {"fields", "unwind"} /\ node # Parser!Null
RootsInv ==
    stage \notin {"failed", "destroyed"} =>
        /\ \A a \in DOMAIN heap :
            heap[a].kind \notin Parser!Owning <=> (a \in {cache.ids[k] : k \in DOMAIN cache.ids} \/ (Held /\ a = node))
        /\ Held => \A k \in DOMAIN cache.ids : cache.ids[k] # node

AliveInv ==
    /\ stage \notin {"failed", "destroyed"} => live = DOMAIN heap /\ ~corrupt
    /\ stage \in {"failed", "destroyed"} => live \subseteq DOMAIN heap
    /\ stage \in {"failed", "destroyed"} /\ NoMapInOneof => live = {} /\ ~corrupt

FramesInv ==
    /\ Parser!IsSequence(frames)
    /\ stage # "fields" => frames = <<>>
    /\ \A k \in DOMAIN frames : Calls(heap, frames[k])
    /\ \A j, k \in DOMAIN frames : frames[j].node = frames[k].node => j = k

LoadInv == TypesInv /\ CacheInv /\ RoomInv /\ Sound(heap) /\ RootsInv /\ AliveInv /\ FramesInv

-----------------------------------------------------------------------------
(* Sequences, whatever their elements *)

LEMMA ListParts ==
    ASSUME NEW s, Parser!IsSequence(s)
    PROVE  Len(s) \in Nat /\ DOMAIN s = 1 .. Len(s) /\ s = [k \in 1 .. Len(s) |-> s[k]]
BY DEF Parser!IsSequence

LEMMA ListFinite ==
    ASSUME NEW s, Parser!IsSequence(s)
    PROVE  IsFiniteSet(DOMAIN s) /\ Cardinality(DOMAIN s) = Len(s) /\ DOMAIN s \subseteq Nat
<1>1. Len(s) \in Nat /\ DOMAIN s = 1 .. Len(s)
  BY ListParts
<1>2. IsFiniteSet(1 .. Len(s)) /\ Cardinality(1 .. Len(s)) = IF 1 > Len(s) THEN 0 ELSE Len(s) - 1 + 1
  BY <1>1, FS_Interval
<1> QED BY <1>1, <1>2

LEMMA ListMade ==
    ASSUME NEW n \in Nat, NEW s, s = [k \in 1 .. n |-> s[k]]
    PROVE  Parser!IsSequence(s) /\ Len(s) = n
<1>1. \A k \in 1 .. n : s[k] \in Parser!ToSet(s)
  BY DEF Parser!ToSet
<1>2. s \in Seq(Parser!ToSet(s))
  BY <1>1
<1>3. DOMAIN s = 1 .. n
  OBVIOUS
<1>4. Len(s) = n
  BY <1>2, <1>3
<1> QED BY <1>2, <1>4 DEF Parser!IsSequence

LEMMA ListAppended ==
    ASSUME NEW s, Parser!IsSequence(s), NEW e
    PROVE  LET t == Append(s, e) IN
           /\ Parser!IsSequence(t) /\ Len(t) = Len(s) + 1 /\ DOMAIN t = DOMAIN s \cup {Len(s) + 1}
           /\ Len(s) + 1 \notin DOMAIN s
           /\ t[Len(s) + 1] = e /\ \A k \in DOMAIN s : t[k] = s[k]
<1> DEFINE S == Parser!ToSet(s) \cup {e}
           t == Append(s, e)
<1>1. s \in Seq(S) /\ e \in S
  BY DEF Parser!IsSequence
<1> HIDE DEF S
<1>2. t \in Seq(S) /\ Len(t) = Len(s) + 1 /\ t[Len(s) + 1] = e /\ \A k \in 1 .. Len(s) : t[k] = s[k]
  BY <1>1
<1>3. t = [k \in 1 .. Len(s) + 1 |-> t[k]] /\ Len(s) + 1 \in Nat
  <2> HIDE DEF t
  <2> QED BY <1>2, <1>1
<1>4. Parser!IsSequence(t)
  BY <1>3, ListMade
<1>5. DOMAIN s = 1 .. Len(s) /\ DOMAIN t = 1 .. Len(s) + 1
  BY <1>1, <1>3
<1> QED BY <1>1, <1>2, <1>4, <1>5

LEMMA ListTail ==
    ASSUME NEW s, Parser!IsSequence(s), s # <<>>
    PROVE  /\ Parser!IsSequence(Tail(s)) /\ Len(Tail(s)) = Len(s) - 1 /\ Len(s) > 0 /\ 1 \in DOMAIN s
           /\ Head(s) = s[1] /\ \A k \in DOMAIN Tail(s) : Tail(s)[k] = s[k + 1] /\ k + 1 \in DOMAIN s
<1> DEFINE S == Parser!ToSet(s)
           t == Tail(s)
<1>1. s \in Seq(S)
  BY DEF Parser!IsSequence
<1> HIDE DEF S
<1>2. t \in Seq(S) /\ Len(t) = Len(s) - 1 /\ Len(s) > 0 /\ Head(s) = s[1] /\ \A k \in 1 .. Len(t) : t[k] = s[k + 1]
  BY <1>1
<1>3. t = [k \in 1 .. Len(s) - 1 |-> t[k]] /\ Len(s) - 1 \in Nat
  <2> HIDE DEF t
  <2> QED BY <1>2, <1>1
<1>4. Parser!IsSequence(t)
  BY <1>3, ListMade
<1>5. DOMAIN t = 1 .. Len(t) /\ DOMAIN s = 1 .. Len(s)
  BY <1>2, <1>1
<1> QED BY <1>1, <1>2, <1>4, <1>5

LEMMA ListExcept ==
    ASSUME NEW s, Parser!IsSequence(s), NEW a, NEW e
    PROVE  LET t == [s EXCEPT ![a] = e] IN
           /\ Parser!IsSequence(t) /\ Len(t) = Len(s) /\ DOMAIN t = DOMAIN s
           /\ \A k \in DOMAIN s : t[k] = IF k = a THEN e ELSE s[k]
<1> DEFINE t == [s EXCEPT ![a] = e]
<1>1. Len(s) \in Nat /\ DOMAIN s = 1 .. Len(s)
  BY ListParts
<1>2. t = [k \in 1 .. Len(s) |-> t[k]]
  BY <1>1
<1>3. \A k \in DOMAIN s : t[k] = IF k = a THEN e ELSE s[k]
  OBVIOUS
<1> HIDE DEF t
<1>4. Parser!IsSequence(t) /\ Len(t) = Len(s)
  BY <1>1, <1>2, ListMade
<1> QED BY <1>1, <1>3, <1>4 DEF t

LEMMA ListFront ==
    ASSUME NEW s, Parser!IsSequence(s), s # <<>>
    PROVE  LET t == Parser!Front(s) IN
           /\ Parser!IsSequence(t) /\ Len(t) = Len(s) - 1 /\ DOMAIN t = DOMAIN s \ {Len(s)}
           /\ Len(s) \in DOMAIN s /\ Parser!Last(s) = s[Len(s)]
           /\ \A k \in DOMAIN t : t[k] = s[k]
<1> DEFINE t == Parser!Front(s)
<1>1. Len(s) \in Nat /\ DOMAIN s = 1 .. Len(s) /\ s = [k \in 1 .. Len(s) |-> s[k]]
  BY ListParts
<1>2. Len(s) # 0
  BY DEF Parser!IsSequence
<1>3. t = [k \in 1 .. Len(s) - 1 |-> s[k]]
  BY <1>1, <1>2 DEF Parser!Front, Parser!IsSequence
<1>4. Len(s) - 1 \in Nat /\ t = [k \in 1 .. Len(s) - 1 |-> t[k]]
  BY <1>1, <1>2, <1>3
<1>5. Parser!IsSequence(t) /\ Len(t) = Len(s) - 1
  BY <1>4, ListMade
<1> QED BY <1>1, <1>2, <1>3, <1>5 DEF Parser!Last

-----------------------------------------------------------------------------
(* What a step does to the nodes: their fields are written or sorted, *)

Permutes(p, D) ==
    /\ p \in [D -> D]
    /\ \A j, k \in D : p[j] = p[k] => j = k
    /\ \A j \in D : \E k \in D : p[k] = j

\* Field k of node a in g owns what field j does in h.
Keeps(h, g, a, j, k) ==
    /\ Hangs(g, a, k) <=> Hangs(h, a, j)
    /\ Hangs(g, a, k) =>
        g[a].fields[k].type = h[a].fields[j].type /\ SubOf(g, a, k) = SubOf(h, a, j)

SameShape(n, m) ==
    /\ n.kind = m.kind /\ n.size = m.size
    /\ DOMAIN n.fields = DOMAIN m.fields /\ Len(n.fields) = Len(m.fields)

Rearranged(h, g) ==
    /\ DOMAIN g = DOMAIN h
    /\ \A a \in DOMAIN h :
        /\ SameShape(g[a], h[a])
        /\ \E p : Permutes(p, DOMAIN h[a].fields) /\ \A k \in DOMAIN h[a].fields : Keeps(h, g, a, p[k], k)

LEMMA SoundRearranged ==
    ASSUME NEW h, NEW g, Sound(h), Parser!IsSequence(g), \A a \in DOMAIN g : Whole(g[a]), Rearranged(h, g)
    PROVE  Sound(g)
<1>1. DOMAIN g = DOMAIN h /\ \A a \in DOMAIN h : SameShape(g[a], h[a])
  BY DEF Rearranged
<1> DEFINE Moved(a, p) == Permutes(p, DOMAIN h[a].fields) /\ \A k \in DOMAIN h[a].fields : Keeps(h, g, a, p[k], k)
           P(a) == CHOOSE p : Moved(a, p)
<1>2. ASSUME NEW a \in DOMAIN h PROVE Moved(a, P(a))
  <2>1. \E p : Moved(a, p)
    BY DEF Rearranged
  <2> HIDE DEF Moved
  <2> QED BY <2>1
<1> HIDE DEF P
<1>3. ASSUME NEW a \in DOMAIN h, NEW k \in DOMAIN g[a].fields
      PROVE  P(a)[k] \in DOMAIN h[a].fields /\ Keeps(h, g, a, P(a)[k], k) /\ k \in DOMAIN h[a].fields
  BY <1>1, <1>2 DEF SameShape, Permutes
<1>4. Hung(g)
  <2> SUFFICES ASSUME NEW a \in DOMAIN g, NEW k \in DOMAIN g[a].fields, Hangs(g, a, k)
               PROVE  /\ SubOf(g, a, k) \in DOMAIN g /\ g[SubOf(g, a, k)].kind = g[a].fields[k].type
                      /\ g[a].size = Len(g[a].fields)
    BY DEF Hung
  <2>1. /\ P(a)[k] \in DOMAIN h[a].fields /\ Hangs(h, a, P(a)[k])
        /\ g[a].fields[k].type = h[a].fields[P(a)[k]].type /\ SubOf(g, a, k) = SubOf(h, a, P(a)[k])
    BY <1>1, <1>3 DEF Keeps
  <2>2. /\ SubOf(h, a, P(a)[k]) \in DOMAIN h
        /\ h[SubOf(h, a, P(a)[k])].kind = h[a].fields[P(a)[k]].type
        /\ h[a].size = Len(h[a].fields)
    BY <1>1, <2>1 DEF Sound, Hung
  <2> QED BY <1>1, <2>1, <2>2 DEF SameShape
<1>5. HungOnce(g)
  <2> SUFFICES ASSUME NEW a \in DOMAIN g, NEW b \in DOMAIN g, NEW k \in DOMAIN g[a].fields, NEW j \in DOMAIN g[b].fields,
                      Hangs(g, a, k), Hangs(g, b, j), SubOf(g, a, k) = SubOf(g, b, j)
               PROVE  a = b /\ k = j
    BY DEF HungOnce
  <2>1. a = b /\ P(a)[k] = P(b)[j]
    BY <1>1, <1>3 DEF Keeps, Sound, HungOnce
  <2> QED BY <1>1, <1>2, <1>3, <2>1 DEF Permutes
<1>6. AllHung(g)
  <2> SUFFICES ASSUME NEW n \in DOMAIN g, g[n].kind \in Parser!Owning
               PROVE  \E a \in DOMAIN g : \E k \in DOMAIN g[a].fields : Hangs(g, a, k) /\ SubOf(g, a, k) = n
    BY DEF AllHung
  <2>1. PICK a \in DOMAIN h : \E j \in DOMAIN h[a].fields : Hangs(h, a, j) /\ SubOf(h, a, j) = n
    BY <1>1 DEF Sound, AllHung, SameShape
  <2>2. PICK j \in DOMAIN h[a].fields : Hangs(h, a, j) /\ SubOf(h, a, j) = n
    BY <2>1
  <2>3. PICK k \in DOMAIN h[a].fields : P(a)[k] = j
    BY <1>2 DEF Permutes
  <2>4. k \in DOMAIN g[a].fields
    BY <1>1 DEF SameShape
  <2> QED BY <1>1, <1>3, <2>2, <2>3, <2>4 DEF Keeps
<1>7. Shallow(g)
  BY <1>1, <1>3 DEF Keeps, Sound, Shallow, SameShape
<1> QED BY <1>4, <1>5, <1>6, <1>7 DEF Sound

\* Where no field is moved.
LEMMA StaysInPlace ==
    ASSUME NEW h, NEW g, NEW a, \A k \in DOMAIN h[a].fields : Keeps(h, g, a, k, k)
    PROVE  \E p : Permutes(p, DOMAIN h[a].fields) /\ \A k \in DOMAIN h[a].fields : Keeps(h, g, a, p[k], k)
<1> DEFINE p == [k \in DOMAIN h[a].fields |-> k]
<1>1. Permutes(p, DOMAIN h[a].fields) /\ \A k \in DOMAIN h[a].fields : Keeps(h, g, a, p[k], k)
  BY DEF Permutes
<1> QED BY <1>1

\* a node is made for a definition,
LEMMA SoundRooted ==
    ASSUME NEW h, NEW new, Sound(h), Whole(new), new.kind \notin Parser!Owning,
           \A k \in DOMAIN new.fields : new.kind # "enum" => new.fields[k].type \notin Parser!Owning
    PROVE  Sound(Append(h, new))
<1> DEFINE g == Append(h, new)
           n == Len(h) + 1
<1>1. /\ Parser!IsSequence(g) /\ DOMAIN g = DOMAIN h \cup {n} /\ n \notin DOMAIN h
      /\ g[n] = new /\ \A b \in DOMAIN h : g[b] = h[b]
  BY ListAppended DEF Sound
<1> HIDE DEF g, n
<1>2. \A b \in DOMAIN g : Whole(g[b])
  BY <1>1 DEF Sound
<1>3. \A b \in DOMAIN g : \A k \in DOMAIN g[b].fields :
          Hangs(g, b, k) => b \in DOMAIN h /\ k \in DOMAIN h[b].fields /\ Hangs(h, b, k) /\ SubOf(g, b, k) = SubOf(h, b, k)
  BY <1>1 DEF Hangs, SubOf
<1>4. Hung(g)
  BY <1>1, <1>3 DEF Hung, Sound, SubOf
<1>5. HungOnce(g)
  BY <1>1, <1>3 DEF HungOnce, Sound
<1>6. AllHung(g)
  BY <1>1 DEF AllHung, Sound, Hangs, SubOf
<1>7. Shallow(g)
  BY <1>1 DEF Shallow, Sound, Hangs
<1> QED BY <1>1, <1>2, <1>4, <1>5, <1>6, <1>7 DEF Sound, g

\* or one is made and hung below a field that has none.
Grown(h, g, a, m, x, new) ==
    LET n == Len(h) + 1 IN
    /\ Parser!IsSequence(g) /\ DOMAIN g = DOMAIN h \cup {n} /\ n \notin DOMAIN h /\ g[n] = new
    /\ \A b \in DOMAIN h : b # a => g[b] = h[b]
    /\ DOMAIN g[a] = NodeParts /\ g[a].kind = h[a].kind /\ g[a].size = h[a].size
    /\ g[a].vsize = h[a].vsize /\ g[a].vfields = h[a].vfields
    /\ Parser!IsSequence(g[a].fields) /\ Len(g[a].fields) = Len(h[a].fields)
    /\ DOMAIN g[a].fields = DOMAIN h[a].fields
    /\ \A j \in DOMAIN h[a].fields : g[a].fields[j] = IF j = m THEN x ELSE h[a].fields[j]

LEMMA NodeGrown ==
    ASSUME NEW h, Sound(h), NEW a \in DOMAIN h, NEW m, NEW x, NEW new,
           NEW g, g = Append([h EXCEPT ![a].fields[m] = x], new)
    PROVE  Grown(h, g, a, m, x, new)
<1>1. Parser!IsSequence(h) /\ Parser!IsSequence(h[a].fields) /\ DOMAIN h[a] = NodeParts
  BY DEF Sound, Whole
<1> DEFINE t == [h[a].fields EXCEPT ![m] = x]
           r == [h[a] EXCEPT !.fields = t]
           e == [h EXCEPT ![a] = r]
           n == Len(h) + 1
<1>2. DOMAIN r = NodeParts /\ r.fields = t /\ \A k \in NodeParts : k # "fields" => r[k] = h[a][k]
  BY <1>1 DEF NodeParts
<1>3. g = Append(e, new)
  BY <1>1
<1>4. /\ Parser!IsSequence(t) /\ Len(t) = Len(h[a].fields) /\ DOMAIN t = DOMAIN h[a].fields
      /\ \A j \in DOMAIN h[a].fields : t[j] = IF j = m THEN x ELSE h[a].fields[j]
  BY ONLY <1>1, ListExcept
<1> HIDE DEF t, r
<1>5. /\ Parser!IsSequence(e) /\ Len(e) = Len(h) /\ DOMAIN e = DOMAIN h
      /\ \A b \in DOMAIN h : e[b] = IF b = a THEN r ELSE h[b]
  BY ONLY <1>1, ListExcept
<1> HIDE DEF e
<1> DEFINE y == Append(e, new)
<1>6. /\ Parser!IsSequence(y) /\ DOMAIN y = DOMAIN e \cup {n} /\ n \notin DOMAIN e
      /\ y[n] = new /\ \A b \in DOMAIN e : y[b] = e[b]
  BY ONLY <1>5, ListAppended
<1>7. g = y
  BY <1>3
<1> HIDE DEF y, n
<1>8. r.kind = h[a].kind /\ r.size = h[a].size /\ r.vsize = h[a].vsize /\ r.vfields = h[a].vfields
  BY ONLY <1>2 DEF NodeParts
<1>9. g[a] = r /\ \A b \in DOMAIN h : b # a => g[b] = h[b]
  BY ONLY <1>5, <1>6, <1>7, a \in DOMAIN h
<1>10. Parser!IsSequence(g) /\ DOMAIN g = DOMAIN h \cup {n} /\ n \notin DOMAIN h /\ g[n] = new
  BY ONLY <1>5, <1>6, <1>7
<1> QED BY ONLY <1>2, <1>4, <1>8, <1>9, <1>10 DEF Grown, n

LEMMA SoundHung ==
    ASSUME NEW h, NEW a \in DOMAIN h, NEW k \in DOMAIN h[a].fields, NEW f, NEW new, Sound(h),
           h[a].kind # "enum", ~Hangs(h, a, k), h[a].size = Len(h[a].fields),
           NoMapInOneof => h[a].kind \notin Parser!Owning,
           DOMAIN f = FieldParts, f.type = new.kind, f.sub = Len(h) + 1,
           Whole(new), new.kind \in Parser!Owning,
           \A j \in DOMAIN new.fields : new.fields[j].type \notin Parser!Owning,
           NEW g, Grown(h, g, a, k, f, new)
    PROVE  Sound(g)
<1> DEFINE n == Len(h) + 1
<1>2. /\ Parser!IsSequence(g) /\ DOMAIN g = DOMAIN h \cup {n} /\ n \notin DOMAIN h /\ g[n] = new
  BY DEF Grown
<1>5. \A b \in DOMAIN h : b # a => g[b] = h[b]
  BY DEF Grown
<1>m. g[a].kind = h[a].kind /\ g[a].size = h[a].size /\ DOMAIN g[a] = NodeParts
  BY DEF Grown
<1>4. /\ Parser!IsSequence(g[a].fields) /\ Len(g[a].fields) = Len(h[a].fields) /\ DOMAIN g[a].fields = DOMAIN h[a].fields
      /\ \A j \in DOMAIN h[a].fields : g[a].fields[j] = IF j = k THEN f ELSE h[a].fields[j]
  BY DEF Grown
<1> HIDE DEF n
<1>6. Whole(g[a])
  <2>1. Whole(h[a])
    BY DEF Sound
  <2>2. g[a].vsize = h[a].vsize /\ g[a].vfields = h[a].vfields
    BY DEF Grown
  <2> QED BY <2>1, <2>2, <1>m, <1>4 DEF Whole
<1>7. \A b \in DOMAIN g : Whole(g[b])
  BY <1>2, <1>5, <1>6 DEF Sound
<1>8. \A b \in DOMAIN h : g[b].kind = h[b].kind /\ DOMAIN g[b].fields = DOMAIN h[b].fields /\ g[b].size = h[b].size
                          /\ Len(g[b].fields) = Len(h[b].fields)
  BY <1>4, <1>5, <1>m
<1>9. Hangs(g, a, k) /\ SubOf(g, a, k) = n /\ g[a].fields[k].type = new.kind
  BY <1>4, <1>5, <1>8 DEF Hangs, SubOf, n
<1>10. ASSUME NEW b \in DOMAIN g, NEW j \in DOMAIN g[b].fields
       PROVE  \/ b = a /\ j = k
              \/ /\ ~(b = a /\ j = k) /\ b \in DOMAIN h /\ j \in DOMAIN h[b].fields /\ (Hangs(g, b, j) <=> Hangs(h, b, j))
                 /\ SubOf(g, b, j) = SubOf(h, b, j) /\ g[b].fields[j] = h[b].fields[j]
              \/ b = n /\ ~Hangs(g, b, j)
  BY <1>2, <1>4, <1>5, <1>8 DEF Hangs, SubOf
<1>11. \A b \in DOMAIN h : \A j \in DOMAIN h[b].fields : Hangs(h, b, j) => SubOf(h, b, j) # n
  BY <1>2 DEF Sound, Hung
<1>12. Hung(g)
  <2> SUFFICES ASSUME NEW b \in DOMAIN g, NEW j \in DOMAIN g[b].fields, Hangs(g, b, j)
               PROVE  /\ SubOf(g, b, j) \in DOMAIN g /\ g[SubOf(g, b, j)].kind = g[b].fields[j].type
                      /\ g[b].size = Len(g[b].fields)
    BY DEF Hung
  <2>1. CASE b = a /\ j = k
    BY <2>1, <1>2, <1>8, <1>9
  <2>2. CASE b # a \/ j # k
    <3>1. b \in DOMAIN h /\ j \in DOMAIN h[b].fields /\ Hangs(h, b, j) /\ SubOf(g, b, j) = SubOf(h, b, j)
          /\ g[b].fields[j] = h[b].fields[j]
      BY <2>2, <1>10
    <3>2. SubOf(h, b, j) \in DOMAIN h /\ h[SubOf(h, b, j)].kind = h[b].fields[j].type /\ h[b].size = Len(h[b].fields)
      BY <3>1 DEF Sound, Hung
    <3> QED BY <3>1, <3>2, <1>2, <1>8
  <2> QED BY <2>1, <2>2
<1>13. HungOnce(g)
  <2> SUFFICES ASSUME NEW b \in DOMAIN g, NEW c \in DOMAIN g, NEW i1 \in DOMAIN g[b].fields, NEW j \in DOMAIN g[c].fields,
                      Hangs(g, b, i1), Hangs(g, c, j), SubOf(g, b, i1) = SubOf(g, c, j)
               PROVE  b = c /\ i1 = j
    BY DEF HungOnce
  <2>1. HungOnce(h)
    BY DEF Sound
  <2> QED BY <2>1, <1>9, <1>10, <1>11 DEF HungOnce
<1>14. AllHung(g)
  <2> SUFFICES ASSUME NEW b \in DOMAIN g, g[b].kind \in Parser!Owning
               PROVE  \E c \in DOMAIN g : \E j \in DOMAIN g[c].fields : Hangs(g, c, j) /\ SubOf(g, c, j) = b
    BY DEF AllHung
  <2>1. CASE b = n
    BY <2>1, <1>2, <1>4, <1>5, <1>9
  <2>2. CASE b # n
    <3>1. PICK c \in DOMAIN h : \E j \in DOMAIN h[c].fields : Hangs(h, c, j) /\ SubOf(h, c, j) = b
      BY <2>2, <1>2, <1>8 DEF Sound, AllHung
    <3>2. PICK j \in DOMAIN h[c].fields : Hangs(h, c, j) /\ SubOf(h, c, j) = b
      BY <3>1
    <3>3. c # a \/ j # k
      BY <3>2
    <3>4. j \in DOMAIN g[c].fields /\ c \in DOMAIN g
      BY <1>2, <1>8
    <3>5. Hangs(g, c, j) /\ SubOf(g, c, j) = b
      BY <3>2, <3>3, <3>4, <1>2, <1>10
    <3> QED BY <3>4, <3>5
  <2> QED BY <2>1, <2>2
<1>15. Shallow(g)
  <2> SUFFICES ASSUME NoMapInOneof, NEW b \in DOMAIN g, g[b].kind \in Parser!Owning, NEW j \in DOMAIN g[b].fields
               PROVE  ~Hangs(g, b, j)
    BY DEF Shallow
  <2>1. Shallow(h)
    BY DEF Sound
  <2> QED BY <2>1, <1>8, <1>10 DEF Shallow
<1> QED BY <1>2, <1>7, <1>12, <1>13, <1>14, <1>15 DEF Sound

-----------------------------------------------------------------------------
(* Counting the numbers of a message *)

LEMMA FieldsListed ==
    ASSUME NEW h, Sound(h)
    PROVE  /\ IsFiniteSet(DOMAIN h)
           /\ \A b \in DOMAIN h : /\ Parser!IsSequence(h[b].fields) /\ IsFiniteSet(DOMAIN h[b].fields)
                                 /\ Len(h[b].fields) \in Nat /\ Cardinality(DOMAIN h[b].fields) = Len(h[b].fields)
                                 /\ DOMAIN h[b].fields = 1 .. Len(h[b].fields) /\ DOMAIN h[b].fields \subseteq Nat
<1>1. Parser!IsSequence(h) /\ \A b \in DOMAIN h : Parser!IsSequence(h[b].fields)
  BY DEF Sound, Whole
<1> QED BY <1>1, ListParts, ListFinite

LEMMA NumbersFinite ==
    ASSUME NEW h, Sound(h), NEW a \in DOMAIN h, h[a].kind # "enum", NEW m
    PROVE  /\ IsFiniteSet(Own(h, a, m)) /\ IsFiniteSet(Alternatives(h, a, m))
           /\ Cardinality(Own(h, a, m)) \in Nat /\ Cardinality(Alternatives(h, a, m)) \in Nat
           /\ Oneofs(h, a, m) \subseteq DOMAIN h
<1>1. IsFiniteSet(DOMAIN h) /\ \A b \in DOMAIN h : IsFiniteSet(DOMAIN h[b].fields)
  BY FieldsListed
<1>2. IsFiniteSet(Own(h, a, m))
  <2>1. Own(h, a, m) \in SUBSET DOMAIN h[a].fields
    BY DEF Own
  <2> QED BY <1>1, <2>1, FS_Subset
<1>3. Oneofs(h, a, m) \subseteq DOMAIN h
  BY DEF Oneofs, Sound, Hung, Hangs, SubOf, Parser!Owning
<1>4. IsFiniteSet(Alternatives(h, a, m))
  <2> DEFINE S == Oneofs(h, a, m)
             f == [b \in S |-> {b} \X DOMAIN h[b].fields]
             T == {{b} \X DOMAIN h[b].fields : b \in S}
  <2>1. IsFiniteSet(S)
    BY <1>1, <1>3, FS_Subset
  <2>2. f \in Surjection(S, T)
    <3> HIDE DEF S
    <3> QED BY DEF Surjection
  <2>3. IsFiniteSet(T)
    <3> HIDE DEF S, T, f
    <3> QED BY <2>1, <2>2, FS_Surjection
  <2>4. \A t \in T : IsFiniteSet(t)
    <3> SUFFICES ASSUME NEW b \in S PROVE IsFiniteSet({b} \X DOMAIN h[b].fields)
      OBVIOUS
    <3>1. IsFiniteSet({b}) /\ IsFiniteSet(DOMAIN h[b].fields)
      BY <1>1, <1>3, FS_Singleton
    <3> QED BY <3>1, FS_Product
  <2>5. IsFiniteSet(UNION T)
    <3> HIDE DEF T
    <3> QED BY <2>3, <2>4, FS_UNION
  <2> QED BY <2>5 DEF Alternatives
<1> QED BY <1>2, <1>3, <1>4, FS_CardinalityType

\* The next field of its own,
LEMMA OwnCount ==
    ASSUME NEW h, Sound(h), NEW a \in DOMAIN h, h[a].kind # "enum", NEW m \in DOMAIN h[a].fields
    PROVE  Cardinality(Own(h, a, m + 1)) =
               Cardinality(Own(h, a, m)) + (IF h[a].fields[m].type \in {"oneof", "unknown"} THEN 0 ELSE 1)
<1>1. IsFiniteSet(Own(h, a, m)) /\ m \notin Own(h, a, m)
  <2>1. IsFiniteSet(Own(h, a, m))
    BY NumbersFinite
  <2>2. m \in Nat
    BY FieldsListed
  <2> QED BY <2>1, <2>2 DEF Own
<1>2. DOMAIN h[a].fields \subseteq Nat
  BY FieldsListed
<1>3. Own(h, a, m + 1) = IF h[a].fields[m].type \in {"oneof", "unknown"} THEN Own(h, a, m) ELSE Own(h, a, m) \cup {m}
  BY <1>2 DEF Own
<1>4. Cardinality(Own(h, a, m)) \in Nat
  BY NumbersFinite
<1>5. Cardinality(Own(h, a, m) \cup {m}) = Cardinality(Own(h, a, m)) + 1
  BY <1>1, FS_AddElement
<1> QED BY <1>3, <1>4, <1>5

\* and those of its next oneof, which no other field has.
LEMMA AlternativesCount ==
    ASSUME NEW h, Sound(h), NEW a \in DOMAIN h, h[a].kind # "enum", NEW m \in DOMAIN h[a].fields
    PROVE  Cardinality(Alternatives(h, a, m + 1)) =
               Cardinality(Alternatives(h, a, m))
               + (IF h[a].fields[m].type = "oneof" THEN Len(h[SubOf(h, a, m)].fields) ELSE 0)
<1>0. DOMAIN h[a].fields \subseteq Nat
  BY FieldsListed
<1>n. /\ IsFiniteSet(Alternatives(h, a, m)) /\ Cardinality(Alternatives(h, a, m)) \in Nat
      /\ Oneofs(h, a, m) \subseteq DOMAIN h
  BY NumbersFinite
<1>1. CASE h[a].fields[m].type # "oneof"
  <2>1. Oneofs(h, a, m + 1) = Oneofs(h, a, m)
    BY <1>0, <1>1 DEF Oneofs
  <2> QED BY <1>1, <1>n, <2>1 DEF Alternatives
<1>2. CASE h[a].fields[m].type = "oneof"
  <2> DEFINE s == SubOf(h, a, m)
             D == {s} \X DOMAIN h[s].fields
  <2>1. Oneofs(h, a, m + 1) = Oneofs(h, a, m) \cup {s}
    BY <1>0, <1>2 DEF Oneofs, SubOf
  <2>2. Hangs(h, a, m)
    BY <1>2 DEF Hangs, Parser!Owning
  <2>3. s \in DOMAIN h
    BY <2>2 DEF Sound, Hung
  <2>4. s \notin Oneofs(h, a, m)
    <3> SUFFICES ASSUME NEW k \in DOMAIN h[a].fields, k < m, h[a].fields[k].type = "oneof", h[a].fields[k].sub = s
                 PROVE  FALSE
      BY DEF Oneofs
    <3>1. Hangs(h, a, k) /\ SubOf(h, a, k) = SubOf(h, a, m)
      BY DEF Hangs, SubOf, Parser!Owning
    <3>2. k = m
      BY <2>2, <3>1 DEF Sound, HungOnce
    <3> QED BY <1>0, <3>2
  <2>5. Alternatives(h, a, m + 1) = Alternatives(h, a, m) \cup D
    BY <2>1 DEF Alternatives
  <2>6. Alternatives(h, a, m) \cap D = {}
    BY <2>4 DEF Alternatives
  <2>7. IsFiniteSet(D) /\ Cardinality(D) = Len(h[s].fields) /\ Len(h[s].fields) \in Nat
    <3>1. Len(h[s].fields) \in Nat
      BY <2>3, FieldsListed
    <3>2. IsFiniteSet(DOMAIN h[s].fields) /\ Cardinality(DOMAIN h[s].fields) = Len(h[s].fields)
      BY <2>3, FieldsListed
    <3>3. IsFiniteSet({s}) /\ Cardinality({s}) = 1
      BY FS_Singleton
    <3>4. IsFiniteSet(D) /\ Cardinality(D) = 1 * Len(h[s].fields)
      BY <3>2, <3>3, FS_Product
    <3> QED BY <3>1, <3>4
  <2> HIDE DEF D, s
  <2>8. Cardinality({}) = 0
    BY FS_EmptySet
  <2>9. Cardinality(Alternatives(h, a, m) \cup D) =
            Cardinality(Alternatives(h, a, m)) + Cardinality(D) - Cardinality(Alternatives(h, a, m) \cap D)
    BY <1>n, <2>7, FS_Union
  <2>10. Cardinality(Alternatives(h, a, m + 1)) = Cardinality(Alternatives(h, a, m)) + Len(h[s].fields)
    <3>1. Cardinality(Alternatives(h, a, m + 1)) =
              Cardinality(Alternatives(h, a, m)) + Cardinality(D) - Cardinality({})
      BY <2>5, <2>6, <2>9, Zenon
    <3> QED BY <1>n, <2>7, <2>8, <3>1
  <2> QED BY <1>2, <2>10 DEF s
<1> QED BY <1>1, <1>2

\* They do not depend on what else happens to the nodes.
LEMMA SameNumbers ==
    ASSUME NEW h, NEW g, NEW a, NEW m, DOMAIN g[a].fields = DOMAIN h[a].fields,
           \A k \in DOMAIN h[a].fields : k < m =>
               g[a].fields[k].type = h[a].fields[k].type /\ SubOf(g, a, k) = SubOf(h, a, k),
           \A b \in Oneofs(h, a, m) : DOMAIN g[b].fields = DOMAIN h[b].fields
    PROVE  Own(g, a, m) = Own(h, a, m) /\ Alternatives(g, a, m) = Alternatives(h, a, m)
<1>1. Own(g, a, m) = Own(h, a, m)
  BY DEF Own
<1>2. Oneofs(g, a, m) = Oneofs(h, a, m)
  BY DEF Oneofs, SubOf
<1>3. Alternatives(g, a, m) = Alternatives(h, a, m)
  BY <1>2 DEF Alternatives
<1> QED BY <1>1, <1>3

-----------------------------------------------------------------------------
(* Sorting *)

\* The places of the entries f when they are sorted, each coming from one of them.
Place(f) == 1 .. Cardinality(DOMAIN f)
Moves(q, f, s) == q \in Parser!Bijection(Place(f), DOMAIN f) /\ s = [k \in Place(f) |-> f[q[k]]]

LEMMA SameCardinality ==
    ASSUME NEW S
    PROVE  Parser!Cardinality(S) = Cardinality(S)
BY DEF Parser!Cardinality, Cardinality

LEMMA SortingMoves ==
    ASSUME NEW f, NEW key, NEW s \in Parser!Sortings(f, key)
    PROVE  \E q : Moves(q, f, s)
<1>1. Place(f) = 1 .. Parser!Cardinality(DOMAIN f)
  BY SameCardinality DEF Place
<1>2. \E q \in Parser!Bijection(Place(f), DOMAIN f) : s = [k \in Place(f) |-> f[q[k]]]
  BY <1>1 DEF Parser!Sortings
<1> QED BY <1>2 DEF Moves

\* What qsort makes of the entries f, when it puts the one at q[k] at k.
LEMMA SortedEntries ==
    ASSUME NEW f, IsFiniteSet(DOMAIN f), NEW q, NEW s, Moves(q, f, s)
    PROVE  Parser!IsSequence(s) /\ Len(s) = Cardinality(DOMAIN f) /\ DOMAIN s = Place(f)
<1>1. Cardinality(DOMAIN f) \in Nat
  BY FS_CardinalityType
<1>2. s = [k \in 1 .. Cardinality(DOMAIN f) |-> s[k]]
  BY DEF Place, Moves
<1> QED BY <1>1, <1>2, ListMade DEF Place

\* Those of a table are permuted.
LEMMA SortedTable ==
    ASSUME NEW f, Parser!IsSequence(f), NEW q, NEW s, Moves(q, f, s)
    PROVE  /\ Parser!IsSequence(s) /\ Len(s) = Len(f) /\ DOMAIN s = DOMAIN f
           /\ Permutes(q, DOMAIN f) /\ \A k \in DOMAIN f : s[k] = f[q[k]]
<1>1. IsFiniteSet(DOMAIN f) /\ Cardinality(DOMAIN f) = Len(f)
  BY ListFinite
<1>2. Place(f) = DOMAIN f
  BY <1>1, ListParts DEF Place
<1>3. Parser!IsSequence(s) /\ Len(s) = Len(f) /\ DOMAIN s = Place(f)
  BY <1>1, SortedEntries
<1>4. Permutes(q, DOMAIN f)
  BY <1>2 DEF Moves, Permutes, Parser!Bijection, Parser!Injection, Parser!Surjection, Parser!IsInjective
<1> QED BY <1>2, <1>3, <1>4 DEF Moves

\* v_fields has the numbers that were counted.
LEMMA NumbersOfMessage ==
    ASSUME Sound(heap), NEW a \in DOMAIN heap, heap[a].kind \in Parser!Message,
           NEW q, Permutes(q, DOMAIN heap[a].fields),
           NEW s, DOMAIN s = DOMAIN heap[a].fields, \A k \in DOMAIN s : s[k] = heap[a].fields[q[k]],
           NEW m, m = Len(heap[a].fields) + 1
    PROVE  LET D == DOMAIN Parser!VFields(a, s) IN
           /\ IsFiniteSet(D)
           /\ Cardinality(D) = Cardinality(Own(heap, a, m)) + Cardinality(Alternatives(heap, a, m))
           /\ Parser!OneofsOf(s) = Oneofs(heap, a, m)
<1>0. heap[a].kind # "enum" /\ heap[a].kind # "oneof"
  BY DEF Parser!Message
<1>1. \A k \in DOMAIN s : k < m
  BY FieldsListed
<1> DEFINE own == {k \in DOMAIN s : s[k].type \notin {"oneof", "unknown"}}
           D == DOMAIN Parser!VFields(a, s)
<1>2. Parser!OneofsOf(s) = Oneofs(heap, a, m)
  BY <1>1 DEF Permutes, Parser!OneofsOf, Oneofs
<1>3. D = ({a} \X own) \cup Alternatives(heap, a, m)
  BY <1>2 DEF Parser!VFields, Alternatives
<1>4. /\ IsFiniteSet(Own(heap, a, m)) /\ IsFiniteSet(Alternatives(heap, a, m))
      /\ Cardinality(Own(heap, a, m)) \in Nat /\ Cardinality(Alternatives(heap, a, m)) \in Nat
      /\ Oneofs(heap, a, m) \subseteq DOMAIN heap
  BY <1>0, NumbersFinite
<1>5. IsFiniteSet(own) /\ Cardinality(own) = Cardinality(Own(heap, a, m))
  <2>1. IsFiniteSet(own)
    BY FieldsListed, FS_Subset
  <2> DEFINE r == [k \in own |-> q[k]]
             T == Own(heap, a, m)
  <2>2. r \in Bijection(own, T)
    <3>1. r \in [own -> T]
      BY <1>1 DEF Permutes, Own
    <3>2. \A j, k \in own : r[j] = r[k] => j = k
      BY DEF Permutes
    <3>3. \A j \in T : \E k \in own : r[k] = j
      BY DEF Permutes, Own
    <3> HIDE DEF r, T, own
    <3> QED BY <3>1, <3>2, <3>3 DEF Bijection, Injection, Surjection, IsInjective
  <2>3. ExistsBijection(own, T)
    BY <2>2 DEF ExistsBijection
  <2> HIDE DEF own, T
  <2>4. Cardinality(T) = Cardinality(own)
    BY <2>1, <2>3, FS_Bijection
  <2> QED BY <2>1, <2>4 DEF T
<1> HIDE DEF own, D
<1>6. IsFiniteSet({a} \X own) /\ Cardinality({a} \X own) = Cardinality(own)
  <2>1. IsFiniteSet({a}) /\ Cardinality({a}) = 1 /\ Cardinality(own) \in Nat
    BY <1>4, <1>5, FS_Singleton
  <2>2. IsFiniteSet({a} \X own) /\ Cardinality({a} \X own) = 1 * Cardinality(own)
    BY <1>5, <2>1, FS_Product
  <2> QED BY <2>1, <2>2
<1>7. ({a} \X own) \cap Alternatives(heap, a, m) = {}
  <2>1. a \notin Oneofs(heap, a, m)
    <3> SUFFICES ASSUME NEW k \in DOMAIN heap[a].fields, heap[a].fields[k].type = "oneof", heap[a].fields[k].sub = a
                 PROVE  FALSE
      BY DEF Oneofs
    <3>1. Hangs(heap, a, k) /\ SubOf(heap, a, k) = a
      BY <1>0 DEF Hangs, SubOf, Parser!Owning
    <3> QED BY <1>0, <3>1 DEF Sound, Hung
  <2> QED BY <2>1 DEF Alternatives
<1>8. /\ IsFiniteSet(D)
      /\ Cardinality(D) = Cardinality({a} \X own) + Cardinality(Alternatives(heap, a, m)) - Cardinality({})
  <2> DEFINE U == {a} \X own
             V == Alternatives(heap, a, m)
  <2>1. IsFiniteSet(U) /\ IsFiniteSet(V) /\ U \cap V = {} /\ D = U \cup V
    BY <1>3, <1>4, <1>6, <1>7
  <2> HIDE DEF U, V
  <2>2. IsFiniteSet(U \cup V) /\ Cardinality(U \cup V) = Cardinality(U) + Cardinality(V) - Cardinality(U \cap V)
    BY <2>1, FS_Union
  <2>3. IsFiniteSet(D) /\ Cardinality(D) = Cardinality(U) + Cardinality(V) - Cardinality({})
    BY <2>1, <2>2, Zenon
  <2> QED BY <2>3 DEF U, V
<1>9. Cardinality({}) = 0
  BY FS_EmptySet
<1>10. Cardinality(D) = Cardinality(Own(heap, a, m)) + Cardinality(Alternatives(heap, a, m))
  BY <1>4, <1>5, <1>6, <1>8, <1>9
<1> QED BY <1>2, <1>8, <1>10 DEF D

-----------------------------------------------------------------------------
(* Calls in progress *)

\* A node that a call reads has not changed for it.
SameNode(h, g, a) ==
    /\ SameShape(g[a], h[a]) /\ g[a].vsize = h[a].vsize /\ g[a].vfields = h[a].vfields
    /\ h[a].kind # "enum" =>
        \A k \in DOMAIN h[a].fields : g[a].fields[k].type = h[a].fields[k].type /\ SubOf(g, a, k) = SubOf(h, a, k)
SameLists(h, g) ==
    DOMAIN h \subseteq DOMAIN g /\ \A b \in DOMAIN h : DOMAIN g[b].fields = DOMAIN h[b].fields

LEMMA CallKept ==
    ASSUME NEW h, NEW g, NEW f, Sound(h), Calls(h, f), SameLists(h, g), SameNode(h, g, f.node)
    PROVE  Calls(g, f)
<1> DEFINE a == f.node
           m == Current(h, f)
<1>1. /\ DOMAIN f = {"node", "items"} /\ a \in DOMAIN h
      /\ Parser!IsSequence(f.items) /\ Len(f.items) <= Len(h[a].fields) /\ h[a].vfields = <<>>
  BY DEF Calls
<1>2. Current(g, f) = m
  BY DEF Current, SameNode, SameShape
<1>3. /\ a \in DOMAIN g /\ Len(f.items) <= Len(g[a].fields) /\ g[a].vfields = <<>>
      /\ g[a].kind = h[a].kind /\ g[a].size = h[a].size /\ g[a].vsize = h[a].vsize
      /\ DOMAIN g[a].fields = DOMAIN h[a].fields /\ Len(g[a].fields) = Len(h[a].fields)
  BY <1>1 DEF SameNode, SameShape, SameLists
<1>4. ASSUME h[a].kind # "enum"
      PROVE  /\ g[a].size = Len(g[a].fields)
             /\ \A k \in DOMAIN g[a].fields :
                 /\ k > m => Blank(g[a].fields[k])
                 /\ k = m => Blank(g[a].fields[k]) \/ (Hangs(g, a, k) /\ Matches(g[a].fields[k].type, Head(f.items)))
             /\ Reads(g[a].kind, f.items)
  <2>1. /\ h[a].size = Len(h[a].fields)
        /\ \A k \in DOMAIN h[a].fields :
            /\ k > m => Blank(h[a].fields[k])
            /\ k = m => Blank(h[a].fields[k]) \/ (Hangs(h, a, k) /\ Matches(h[a].fields[k].type, Head(f.items)))
        /\ Reads(h[a].kind, f.items)
    BY <1>4 DEF Calls
  <2>2. \A k \in DOMAIN h[a].fields : g[a].fields[k].type = h[a].fields[k].type /\ g[a].fields[k].sub = h[a].fields[k].sub
    BY <1>4 DEF SameNode, SubOf
  <2> QED BY <1>3, <2>1, <2>2 DEF Blank, Hangs
<1>5. ASSUME h[a].kind \in Parser!Message
      PROVE  g[a].vsize = Cardinality(Own(g, a, m)) + Cardinality(Alternatives(g, a, m))
  <2>1. h[a].kind # "enum"
    BY <1>5 DEF Parser!Message
  <2>2. h[a].vsize = Cardinality(Own(h, a, m)) + Cardinality(Alternatives(h, a, m))
    BY <1>5, <2>1 DEF Calls
  <2>3. Oneofs(h, a, m) \subseteq DOMAIN h
    BY <1>1, <2>1, NumbersFinite
  <2>4. Own(g, a, m) = Own(h, a, m) /\ Alternatives(g, a, m) = Alternatives(h, a, m)
    BY <1>1, <1>3, <2>1, <2>3, SameNumbers DEF SameNode, SameLists
  <2> QED BY <1>3, <2>2, <2>4
<1> HIDE DEF m
<1> QED BY <1>1, <1>2, <1>3, <1>4, <1>5 DEF Calls

\* A field of a node is written, and the count of its numbers.
Written(h, g, a, m, x, v) ==
    /\ Parser!IsSequence(g) /\ DOMAIN g = DOMAIN h
    /\ \A b \in DOMAIN h : b # a => g[b] = h[b]
    /\ DOMAIN g[a] = NodeParts /\ g[a].vsize = v
    /\ g[a].kind = h[a].kind /\ g[a].size = h[a].size /\ g[a].vfields = h[a].vfields
    /\ Parser!IsSequence(g[a].fields) /\ Len(g[a].fields) = Len(h[a].fields)
    /\ DOMAIN g[a].fields = DOMAIN h[a].fields
    /\ \A k \in DOMAIN h[a].fields : g[a].fields[k] = IF k = m THEN x ELSE h[a].fields[k]

LEMMA NodeWritten ==
    ASSUME NEW h, Sound(h), NEW a \in DOMAIN h, NEW m, NEW x, NEW v,
           NEW g, g = [h EXCEPT ![a].fields[m] = x, ![a].vsize = v]
    PROVE  Written(h, g, a, m, x, v)
<1>1. Parser!IsSequence(h) /\ Parser!IsSequence(h[a].fields) /\ DOMAIN h[a] = NodeParts
  BY DEF Sound, Whole
<1> DEFINE t == [h[a].fields EXCEPT ![m] = x]
           n == [h[a] EXCEPT !.fields = t, !.vsize = v]
<1>2. DOMAIN n = NodeParts /\ n.fields = t /\ n.vsize = v /\ \A k \in NodeParts : k \notin {"fields", "vsize"} => n[k] = h[a][k]
  BY <1>1 DEF NodeParts
<1>3. g = [h EXCEPT ![a] = n]
  BY <1>1
<1>4. /\ Parser!IsSequence(t) /\ Len(t) = Len(h[a].fields) /\ DOMAIN t = DOMAIN h[a].fields
      /\ \A k \in DOMAIN h[a].fields : t[k] = IF k = m THEN x ELSE h[a].fields[k]
  BY <1>1, ListExcept
<1> HIDE DEF t, n
<1>5. Parser!IsSequence(g) /\ DOMAIN g = DOMAIN h /\ \A b \in DOMAIN h : g[b] = IF b = a THEN n ELSE h[b]
  <2> DEFINE e == [h EXCEPT ![a] = n]
  <2>1. Parser!IsSequence(e) /\ DOMAIN e = DOMAIN h /\ \A b \in DOMAIN h : e[b] = IF b = a THEN n ELSE h[b]
    BY <1>1, ListExcept
  <2>2. g = e
    BY <1>3
  <2> HIDE DEF e
  <2> QED BY ONLY <2>1, <2>2
<1>6. n.kind = h[a].kind /\ n.size = h[a].size /\ n.vfields = h[a].vfields
  BY <1>2 DEF NodeParts
<1> QED BY ONLY <1>2, <1>4, <1>5, <1>6, a \in DOMAIN h DEF Written

\* The items behind the one that was read.
LEMMA ReadsOn ==
    ASSUME NEW kind, NEW items, Parser!IsSequence(items), items # <<>>, Reads(kind, items)
    PROVE  Reads(kind, Tail(items))
<1>1. \A k \in DOMAIN Tail(items) : Tail(items)[k] = items[k + 1] /\ k + 1 \in DOMAIN items
  BY ListTail
<1> DEFINE t == Tail(items)
<1> HIDE DEF t
<1>2. \A k \in DOMAIN t : \E j \in DOMAIN items : t[k] = items[j]
  BY <1>1 DEF t
<1>3. Reads(kind, t)
  BY <1>2 DEF Reads
<1> QED BY <1>3 DEF t

\* A field is complete: the call goes on with the next.
Turned(f, f2) == f2 = [f EXCEPT !.items = Tail(f.items)]
StaysOwner(h, a, m, x) ==
    IF Hangs(h, a, m) THEN x.type = h[a].fields[m].type /\ x.sub = SubOf(h, a, m)
    ELSE x.type \notin Parser!Owning
CountedWith(h, a, x, v) ==
    v = IF h[a].kind = "oneof" THEN h[a].vsize
        ELSE h[a].vsize + (IF x.type \in {"oneof", "unknown"} THEN 0 ELSE 1)
                        + (IF x.type = "oneof" THEN Len(h[x.sub].fields) ELSE 0)

LEMMA CallAdvances ==
    ASSUME NEW h, Sound(h), NEW f, Calls(h, f), NEW a, a = f.node, h[a].kind # "enum", f.items # <<>>,
           NEW m, m = Current(h, f), NEW x, DOMAIN x = FieldParts, StaysOwner(h, a, m, x),
           NEW v, CountedWith(h, a, x, v), NEW g, Written(h, g, a, m, x, v), NEW f2, Turned(f, f2)
    PROVE  /\ Sound(g) /\ Calls(g, f2) /\ DOMAIN g = DOMAIN h /\ SameLists(h, g) /\ f2.node = a
           /\ \A b \in DOMAIN h : g[b].kind = h[b].kind
           /\ \A b \in DOMAIN h : b # a => g[b] = h[b]
<1>1. /\ DOMAIN f = {"node", "items"} /\ a \in DOMAIN h
      /\ Parser!IsSequence(f.items) /\ Len(f.items) <= Len(h[a].fields) /\ h[a].vfields = <<>>
      /\ h[a].size = Len(h[a].fields)
      /\ \A k \in DOMAIN h[a].fields : k > m => Blank(h[a].fields[k])
      /\ Reads(h[a].kind, f.items)
  BY DEF Calls
<1>2. Whole(h[a]) /\ DOMAIN h[a] = NodeParts /\ h[a].kind \in Parser!Message \cup {"oneof"} /\ h[a].vsize \in Nat
  BY <1>1 DEF Sound, Whole
<1>3. Parser!IsSequence(Tail(f.items)) /\ Len(Tail(f.items)) = Len(f.items) - 1 /\ Len(f.items) > 0
  BY <1>1, ListTail
<1>4. Len(h[a].fields) \in Nat /\ DOMAIN h[a].fields = 1 .. Len(h[a].fields) /\ Len(f.items) \in Nat
  BY <1>1, FieldsListed, ListParts
<1>5. m \in DOMAIN h[a].fields /\ m \in Nat /\ m = Len(h[a].fields) - Len(f.items) + 1
  BY <1>1, <1>3, <1>4 DEF Current
<1>n. m \in Nat /\ \A k \in DOMAIN h[a].fields : k \in Nat
  BY <1>4, <1>5
<1>6. DOMAIN f2 = {"node", "items"} /\ f2.node = a /\ f2.items = Tail(f.items)
  BY <1>1 DEF Turned
<1>7. /\ Parser!IsSequence(g) /\ DOMAIN g = DOMAIN h
      /\ \A b \in DOMAIN h : b # a => g[b] = h[b]
      /\ DOMAIN g[a] = NodeParts /\ g[a].vsize = v
      /\ Parser!IsSequence(g[a].fields) /\ Len(g[a].fields) = Len(h[a].fields)
      /\ DOMAIN g[a].fields = DOMAIN h[a].fields
      /\ \A k \in DOMAIN h[a].fields : g[a].fields[k] = IF k = m THEN x ELSE h[a].fields[k]
  BY DEF Written
<1>8. g[a].kind = h[a].kind /\ g[a].size = h[a].size /\ g[a].vfields = h[a].vfields
  BY DEF Written
<1>9. v \in Nat
  <2>1. CASE x.type # "oneof"
    BY <2>1, <1>2 DEF CountedWith
  <2>2. CASE x.type = "oneof"
    <3>1. Hangs(h, a, m) /\ x.sub = SubOf(h, a, m)
      BY <2>2 DEF Parser!Owning, StaysOwner
    <3>2. x.sub \in DOMAIN h
      BY <1>1, <1>5, <3>1 DEF Sound, Hung
    <3> QED BY <1>2, <2>2, <3>2, FieldsListed DEF CountedWith
  <2> QED BY <2>1, <2>2
<1>10. \A b \in DOMAIN g : Whole(g[b])
  <2>1. Whole(g[a])
    BY <1>1, <1>2, <1>7, <1>8, <1>9 DEF Whole
  <2> QED BY <1>7, <2>1 DEF Sound
<1>11. Rearranged(h, g)
  <2>1. \A b \in DOMAIN h : SameShape(g[b], h[b])
    BY <1>7, <1>8 DEF SameShape
  <2>2. ASSUME NEW b \in DOMAIN h, NEW k \in DOMAIN h[b].fields PROVE Keeps(h, g, b, k, k)
    <3>1. CASE b # a
      BY <3>1, <1>7 DEF Keeps, Hangs, SubOf
    <3>2. CASE b = a /\ k # m
      BY <3>2, <1>7, <1>8 DEF Keeps, Hangs, SubOf
    <3>3. CASE b = a /\ k = m
      BY <3>3, <1>5, <1>7, <1>8 DEF Keeps, Hangs, SubOf, StaysOwner
    <3> QED BY <3>1, <3>2, <3>3
  <2> QED BY <1>7, <2>1, <2>2, StaysInPlace DEF Rearranged
<1>12. Sound(g)
  BY <1>7, <1>10, <1>11, SoundRearranged
<1>13. SameLists(h, g) /\ \A b \in DOMAIN h : g[b].kind = h[b].kind
  BY <1>7, <1>8 DEF SameLists
<1>14. Current(g, f2) = m + 1
  <2>1. Len(g[f2.node].fields) = Len(h[a].fields) /\ Len(f2.items) = Len(f.items) - 1
    BY <1>3, <1>6, <1>7
  <2> QED BY ONLY <2>1, <1>4, <1>5 DEF Current
<1>15. ASSUME h[a].kind \in Parser!Message
       PROVE  v = Cardinality(Own(g, a, m + 1)) + Cardinality(Alternatives(g, a, m + 1))
  <2>1. h[a].vsize = Cardinality(Own(h, a, m)) + Cardinality(Alternatives(h, a, m))
    BY <1>15 DEF Calls
  <2>2. Oneofs(h, a, m) \subseteq DOMAIN h
    BY <1>1, NumbersFinite
  <2>3. Own(g, a, m) = Own(h, a, m) /\ Alternatives(g, a, m) = Alternatives(h, a, m)
    <3>1. \A k \in DOMAIN h[a].fields : k < m =>
              g[a].fields[k].type = h[a].fields[k].type /\ SubOf(g, a, k) = SubOf(h, a, k)
      <4> SUFFICES ASSUME NEW k \in DOMAIN h[a].fields, k < m PROVE g[a].fields[k] = h[a].fields[k]
        BY DEF SubOf
      <4>1. k # m
        BY ONLY <1>n, k < m
      <4> QED BY <1>7, <4>1
    <3> QED BY <1>7, <1>13, <2>2, <3>1, SameNumbers DEF SameLists
  <2>4. /\ Cardinality(Own(g, a, m)) \in Nat /\ Cardinality(Alternatives(g, a, m)) \in Nat
        /\ Cardinality(Own(g, a, m + 1)) =
               Cardinality(Own(g, a, m)) + (IF g[a].fields[m].type \in {"oneof", "unknown"} THEN 0 ELSE 1)
        /\ Cardinality(Alternatives(g, a, m + 1)) =
               Cardinality(Alternatives(g, a, m))
               + (IF g[a].fields[m].type = "oneof" THEN Len(g[SubOf(g, a, m)].fields) ELSE 0)
    <3>1. a \in DOMAIN g /\ g[a].kind # "enum" /\ m \in DOMAIN g[a].fields
      BY <1>1, <1>5, <1>7, <1>8
    <3>2. Cardinality(Own(g, a, m)) \in Nat /\ Cardinality(Alternatives(g, a, m)) \in Nat
      BY <3>1, <1>12, NumbersFinite
    <3>3. Cardinality(Own(g, a, m + 1)) =
              Cardinality(Own(g, a, m)) + (IF g[a].fields[m].type \in {"oneof", "unknown"} THEN 0 ELSE 1)
      BY <3>1, <1>12, OwnCount
    <3>4. Cardinality(Alternatives(g, a, m + 1)) =
              Cardinality(Alternatives(g, a, m))
              + (IF g[a].fields[m].type = "oneof" THEN Len(g[SubOf(g, a, m)].fields) ELSE 0)
      BY <3>1, <1>12, AlternativesCount
    <3> QED BY <3>2, <3>3, <3>4
  <2>5. g[a].fields[m] = x /\ SubOf(g, a, m) = x.sub
    BY <1>5, <1>7 DEF SubOf
  <2>6. x.type = "oneof" => Len(g[x.sub].fields) = Len(h[x.sub].fields)
    <3>1. SUFFICES ASSUME x.type = "oneof" PROVE Len(g[x.sub].fields) = Len(h[x.sub].fields)
      OBVIOUS
    <3>2. Hangs(h, a, m) /\ x.sub = SubOf(h, a, m)
      BY <3>1 DEF Parser!Owning, StaysOwner
    <3>3. x.sub \in DOMAIN h
      BY <1>1, <1>5, <3>2 DEF Sound, Hung
    <3> QED BY <1>7, <3>3
  <2>7. h[a].kind # "oneof"
    BY <1>15 DEF Parser!Message
  <2> QED BY <2>1, <2>3, <2>4, <2>5, <2>6, <2>7 DEF CountedWith
<1>16. Reads(g[a].kind, Tail(f.items))
  BY <1>1, <1>8, ReadsOn
<1>17. Calls(g, f2)
  <2>1. a \in DOMAIN g /\ Len(f2.items) <= Len(g[a].fields) /\ g[a].vfields = <<>> /\ g[a].size = Len(g[a].fields)
    BY <1>1, <1>3, <1>4, <1>6, <1>7, <1>8
  <2>2. \A k \in DOMAIN g[a].fields : k >= m + 1 => Blank(g[a].fields[k])
    BY <1>1, <1>4, <1>5, <1>7
  <2>3. \A k \in DOMAIN g[a].fields : (k > m + 1 => k >= m + 1) /\ (k = m + 1 => k >= m + 1)
    <3> SUFFICES ASSUME NEW k \in DOMAIN h[a].fields PROVE (k > m + 1 => k >= m + 1) /\ (k = m + 1 => k >= m + 1)
      BY <1>7
    <3> QED BY ONLY <1>n, k \in DOMAIN h[a].fields
  <2> QED BY <1>3, <1>6, <1>7, <1>8, <1>14, <1>15, <1>16, <2>1, <2>2, <2>3 DEF Calls
<1> QED BY <1>6, <1>7, <1>12, <1>13, <1>17

\* A node as alloc_node and its calloc leave it.
FreshNode(n, kind, length, used) ==
    /\ Whole(n) /\ n.kind = kind /\ n.size = used /\ n.vsize = 0 /\ n.vfields = <<>>
    /\ Len(n.fields) = length /\ DOMAIN n.fields = 1 .. length
    /\ kind # "enum" => \A k \in DOMAIN n.fields : Blank(n.fields[k])

LEMMA NodeMade ==
    ASSUME NEW kind \in Parser!Message \cup {"oneof", "enum"}, NEW name, NEW protoV,
           NEW length \in Nat, NEW used \in {0, length}, kind \in Parser!Owning => used = length
    PROVE  FreshNode(Parser!MakeNode(kind, name, protoV, length, used), kind, length, used)
<1> DEFINE n == Parser!MakeNode(kind, name, protoV, length, used)
           t == [k \in 1 .. length |-> IF kind = "enum" THEN Parser!ZeroSymbol ELSE Parser!ZeroField]
<1>1. DOMAIN n = NodeParts /\ n.kind = kind /\ n.size = used /\ n.vsize = 0 /\ n.vfields = <<>> /\ n.fields = t
  BY DEF Parser!MakeNode, NodeParts
<1>2. t = [k \in 1 .. length |-> t[k]] /\ DOMAIN t = 1 .. length
  OBVIOUS
<1>3. \A k \in DOMAIN t : kind # "enum" => t[k] = Parser!ZeroField
  OBVIOUS
<1> HIDE DEF n, t
<1>4. Parser!IsSequence(t) /\ Len(t) = length
  BY <1>2, ListMade
<1>5. DOMAIN Parser!ZeroField = FieldParts /\ Blank(Parser!ZeroField)
  BY DEF Parser!ZeroField, FieldParts, Blank
<1>6. Whole(n)
  BY <1>1, <1>3, <1>4, <1>5 DEF Whole
<1> QED BY <1>1, <1>2, <1>3, <1>4, <1>5, <1>6 DEF FreshNode, n

LEMMA CallStarts ==
    ASSUME NEW g, NEW n \in DOMAIN g, NEW kind, NEW length \in Nat, FreshNode(g[n], kind, length, length),
           NEW items, Parser!IsSequence(items), Len(items) = length, Reads(kind, items)
    PROVE  Calls(g, [node |-> n, items |-> items])
<1> DEFINE f == [node |-> n, items |-> items]
<1>1. DOMAIN f = {"node", "items"} /\ f.node = n /\ f.items = items
  OBVIOUS
<1> HIDE DEF f
<1>2. Current(g, f) = 1
  BY <1>1 DEF Current, FreshNode
<1>3. \A k \in DOMAIN g[n].fields : k >= 1
  BY DEF FreshNode
<1>4. \A k \in DOMAIN g[n].fields : ~(k < 1)
  BY <1>3 DEF FreshNode
<1>5. Own(g, n, 1) = {} /\ Alternatives(g, n, 1) = {}
  <2>1. Own(g, n, 1) = {}
    BY <1>4 DEF Own
  <2>2. Oneofs(g, n, 1) = {}
    BY <1>4 DEF Oneofs
  <2> QED BY <2>1, <2>2 DEF Alternatives
<1>6. Cardinality({}) = 0
  BY FS_EmptySet
<1>7. 0 = Cardinality(Own(g, n, 1)) + Cardinality(Alternatives(g, n, 1))
  <2>1. Cardinality(Own(g, n, 1)) = 0 /\ Cardinality(Alternatives(g, n, 1)) = 0
    BY ONLY <1>5, <1>6, Zenon
  <2> QED BY ONLY <2>1
<1> QED BY <1>1, <1>2, <1>7 DEF Calls, FreshNode, f

\* A node is made and hung below the current field, and read next.
EnterParts(h, f, a, m, x, kind, length, new, g) ==
    /\ Sound(h) /\ Calls(h, f) /\ a = f.node /\ h[a].kind # "enum" /\ f.items # <<>>
    /\ m = Current(h, f) /\ (h[a].fields[m].sub = Parser!Null \/ ~Hangs(h, a, m))
    /\ DOMAIN x = FieldParts /\ kind \in Parser!Owning /\ x.type = kind /\ x.sub = Len(h) + 1
    /\ Matches(kind, Head(f.items)) /\ (kind = "oneof" => h[a].kind \in Parser!Message)
    /\ length \in Nat /\ FreshNode(new, kind, length, length)
    /\ Grown(h, g, a, m, x, new) /\ Parser!Null \notin DOMAIN h

Entered(h, f, a, new, g) ==
    /\ Sound(g) /\ DOMAIN g = DOMAIN h \cup {Len(h) + 1} /\ Len(h) + 1 \notin DOMAIN h
    /\ g[Len(h) + 1] = new /\ SameLists(h, g) /\ Calls(g, f)
    /\ \A b \in DOMAIN h : g[b].kind = h[b].kind
    /\ \A b \in DOMAIN h : b # a => g[b] = h[b]

LEMMA CallEnters ==
    ASSUME NEW h, NEW f, NEW a, NEW m, NEW x, NEW kind, NEW length, NEW new, NEW g,
           EnterParts(h, f, a, m, x, kind, length, new, g)
    PROVE  Entered(h, f, a, new, g)
<1>0. /\ Sound(h) /\ Calls(h, f) /\ a = f.node /\ h[a].kind # "enum" /\ f.items # <<>>
      /\ m = Current(h, f) /\ (h[a].fields[m].sub = Parser!Null \/ ~Hangs(h, a, m))
      /\ DOMAIN x = FieldParts /\ kind \in Parser!Owning /\ x.type = kind /\ x.sub = Len(h) + 1
      /\ Matches(kind, Head(f.items)) /\ (kind = "oneof" => h[a].kind \in Parser!Message)
      /\ length \in Nat /\ FreshNode(new, kind, length, length)
      /\ Grown(h, g, a, m, x, new) /\ Parser!Null \notin DOMAIN h
  BY DEF EnterParts
<1> USE <1>0
<1>1. /\ a \in DOMAIN h /\ Parser!IsSequence(f.items) /\ Len(f.items) <= Len(h[a].fields)
      /\ h[a].size = Len(h[a].fields) /\ Reads(h[a].kind, f.items)
  BY DEF Calls
<1>2. Len(f.items) > 0 /\ Len(f.items) \in Nat /\ 1 \in DOMAIN f.items /\ Head(f.items) = f.items[1]
  BY <1>1, ListTail, ListParts
<1>3. Len(h[a].fields) \in Nat /\ DOMAIN h[a].fields = 1 .. Len(h[a].fields)
  BY <1>1, FieldsListed
<1>4. m \in DOMAIN h[a].fields /\ m \in Nat
  <2> DEFINE p == Len(h[a].fields)
             q == Len(f.items)
  <2>1. m = p - q + 1 /\ p \in Nat /\ q \in Nat /\ q > 0 /\ q <= p
    BY <1>1, <1>2, <1>3 DEF Current
  <2> HIDE DEF p, q
  <2>2. m \in 1 .. p
    BY ONLY <2>1
  <2> USE DEF p
  <2> QED BY ONLY <2>2, <1>3
<1>5. ~Hangs(h, a, m)
  BY <1>1, <1>4 DEF Sound, Hung, SubOf
<1>6. NoMapInOneof => h[a].kind \notin Parser!Owning
  BY <1>1, <1>2 DEF Reads, Matches, Parser!Owning, Parser!Message
<1>7. \A j \in DOMAIN new.fields : new.fields[j].type \notin Parser!Owning
  BY DEF FreshNode, Blank, Parser!Owning
<1>8. Whole(new) /\ new.kind = kind
  BY DEF FreshNode
<1> DEFINE n == Len(h) + 1
<1>s. Sound(g)
  BY <1>1, <1>4, <1>5, <1>6, <1>7, <1>8, SoundHung
<1>9. /\ DOMAIN g = DOMAIN h \cup {n} /\ n \notin DOMAIN h /\ g[n] = new
      /\ \A b \in DOMAIN h : b # a => g[b] = h[b]
  BY DEF Grown
<1> HIDE DEF n
<1>11. /\ g[a].kind = h[a].kind /\ g[a].size = h[a].size
       /\ g[a].vsize = h[a].vsize /\ g[a].vfields = h[a].vfields
  BY DEF Grown
<1>12. /\ DOMAIN g[a].fields = DOMAIN h[a].fields /\ Len(g[a].fields) = Len(h[a].fields)
       /\ \A j \in DOMAIN h[a].fields : g[a].fields[j] = IF j = m THEN x ELSE h[a].fields[j]
  BY DEF Grown
<1>13. \A b \in DOMAIN h : g[b].kind = h[b].kind /\ DOMAIN g[b].fields = DOMAIN h[b].fields
  BY ONLY <1>1, <1>9, <1>11, <1>12
<1>14. SameLists(h, g)
  BY ONLY <1>9, <1>13 DEF SameLists
<1>15. Calls(g, f)
  <2>1. Current(g, f) = m
    BY ONLY <1>11, <1>12, <1>0 DEF Current
  <2>2. ASSUME h[a].kind \in Parser!Message
        PROVE  g[a].vsize = Cardinality(Own(g, a, m)) + Cardinality(Alternatives(g, a, m))
    <3>1. h[a].vsize = Cardinality(Own(h, a, m)) + Cardinality(Alternatives(h, a, m))
      BY <2>2 DEF Calls
    <3>2. Oneofs(h, a, m) \subseteq DOMAIN h
      BY <1>1, NumbersFinite
    <3>3. \A k \in DOMAIN h[a].fields : k < m =>
              g[a].fields[k].type = h[a].fields[k].type /\ SubOf(g, a, k) = SubOf(h, a, k)
      <4> SUFFICES ASSUME NEW k \in DOMAIN h[a].fields, k < m PROVE g[a].fields[k] = h[a].fields[k]
        BY DEF SubOf
      <4>2. k # m
        BY ONLY <1>4, k < m
      <4> QED BY ONLY <1>12, <4>2, k \in DOMAIN h[a].fields
    <3>4. Own(g, a, m) = Own(h, a, m) /\ Alternatives(g, a, m) = Alternatives(h, a, m)
      BY ONLY <1>12, <1>13, <3>2, <3>3, SameNumbers
    <3> QED BY ONLY <1>11, <3>1, <3>4
  <2>3. \A k \in DOMAIN g[a].fields :
            /\ k > m => Blank(g[a].fields[k])
            /\ k = m => Hangs(g, a, k) /\ Matches(g[a].fields[k].type, Head(f.items))
    <3>0. DOMAIN g[a].fields = DOMAIN h[a].fields
      BY <1>12
    <3> SUFFICES ASSUME NEW k \in DOMAIN g[a].fields
                 PROVE  (k > m => Blank(g[a].fields[k]))
                        /\ (k = m => Hangs(g, a, k) /\ Matches(g[a].fields[k].type, Head(f.items)))
      OBVIOUS
    <3>k. k \in DOMAIN h[a].fields
      BY ONLY <3>0, k \in DOMAIN g[a].fields
    <3>1. CASE k = m
      <4>2. ~(k > m)
        BY ONLY <3>1, <1>4
      <4> QED BY <3>1, <4>2, <1>11, <1>12 DEF Hangs
    <3>2. CASE k # m
      <4>1. k > m => Blank(h[a].fields[k])
        BY <3>k DEF Calls
      <4> QED BY <3>k, <3>2, <4>1, <1>12
    <3> QED BY <3>1, <3>2
  <2>4. DOMAIN f = {"node", "items"} /\ h[a].vfields = <<>>
    BY DEF Calls
  <2>5. /\ a \in DOMAIN g /\ Len(f.items) <= Len(g[a].fields) /\ g[a].vfields = <<>>
        /\ g[a].size = Len(g[a].fields) /\ Reads(g[a].kind, f.items)
    BY ONLY <1>1, <1>9, <1>11, <1>12, <2>4
  <2> QED BY ONLY <1>1, <1>11, <2>1, <2>2, <2>3, <2>4, <2>5, <1>0 DEF Calls
<1> QED BY ONLY <1>s, <1>9, <1>13, <1>14, <1>15 DEF n, Entered

-----------------------------------------------------------------------------
(* The steps of parse_node *)

\* What reading the items of a node may do beside its calls.
Reading ==
    /\ stage = "fields" /\ stage' \in {"fields", "unwind"}
    /\ UNCHANGED <<defs, todo, proto, cache, corrupt, node>> /\ denied' \in BOOLEAN
    /\ live' = DOMAIN heap'
    /\ DOMAIN heap \subseteq DOMAIN heap' /\ \A b \in DOMAIN heap : heap'[b].kind = heap[b].kind
    /\ \A b \in DOMAIN heap' \ DOMAIN heap : heap'[b].kind \in Parser!Owning

LEMMA ReadingSteps ==
    ASSUME LoadInv, Reading, Sound(heap'), FramesInv'
    PROVE  LoadInv'
<1>1. TypesInv'
  BY DEF LoadInv, TypesInv, Reading
<1>2. CacheInv'
  BY DEF LoadInv, CacheInv, Reading
<1>3. RoomInv'
  BY DEF LoadInv, RoomInv, Reading, Unread, Parser!Definitions
<1>4. RootsInv'
  <2>1. Held' = Held
    BY DEF Held, Reading
  <2>2. \A b \in DOMAIN heap :
            heap[b].kind \notin Parser!Owning <=> (b \in {cache.ids[k] : k \in DOMAIN cache.ids} \/ (Held /\ b = node))
    BY DEF LoadInv, RootsInv, Reading
  <2>3. Held => \A k \in DOMAIN cache.ids : cache.ids[k] # node
    BY DEF LoadInv, RootsInv, Reading
  <2>4. {cache.ids[k] : k \in DOMAIN cache.ids} \subseteq DOMAIN heap /\ (Held => node \in DOMAIN heap)
    BY DEF LoadInv, CacheInv, TypesInv, Held
  <2>5. \A b \in DOMAIN heap' :
            heap'[b].kind \notin Parser!Owning <=> (b \in {cache.ids[k] : k \in DOMAIN cache.ids} \/ (Held /\ b = node))
    BY <2>2, <2>4 DEF Reading
  <2> QED BY <2>1, <2>3, <2>5 DEF RootsInv, Reading
<1>5. AliveInv'
  BY DEF LoadInv, AliveInv, Reading
<1>6. Sound(heap)'
  OBVIOUS
<1> QED BY <1>1, <1>2, <1>3, <1>4, <1>5, <1>6 DEF LoadInv

LEMMA NoFrames ==
    ASSUME frames' = <<>>
    PROVE  FramesInv'
<1>1. Parser!IsSequence(frames') /\ DOMAIN frames' = {}
  BY DEF Parser!IsSequence
<1> QED BY <1>1 DEF FramesInv

\* An error is met, or memory runs out.
LEMMA ReadingFails ==
    ASSUME LoadInv, stage = "fields", Parser!Fail, UNCHANGED <<heap, live, defs, todo, proto, cache, corrupt, node>>,
           denied' \in BOOLEAN
    PROVE  LoadInv'
<1>1. Reading
  BY DEF Reading, Parser!Fail, LoadInv, AliveInv
<1>2. FramesInv'
  BY NoFrames DEF Parser!Fail
<1> QED BY <1>1, <1>2, ReadingSteps DEF LoadInv

LEMMA TopCall ==
    ASSUME LoadInv, frames # <<>>
    PROVE  /\ Len(frames) \in DOMAIN frames /\ Parser!Top = frames[Len(frames)]
           /\ Calls(heap, Parser!Top) /\ Parser!Top.node \in DOMAIN heap
           /\ Parser!IsSequence(frames) /\ DOMAIN Parser!Top = {"node", "items"}
           /\ \A k \in DOMAIN frames : k # Len(frames) => frames[k].node # Parser!Top.node
<1>1. Parser!IsSequence(frames)
  BY DEF LoadInv, FramesInv
<1>2. Len(frames) \in DOMAIN frames /\ Parser!Top = frames[Len(frames)]
  BY <1>1, ListFront DEF Parser!Top
<1>3. Calls(heap, Parser!Top) /\ \A k \in DOMAIN frames : k # Len(frames) => frames[k].node # Parser!Top.node
  BY <1>2 DEF LoadInv, FramesInv
<1>4. Parser!Top.node \in DOMAIN heap /\ DOMAIN Parser!Top = {"node", "items"}
  BY <1>3 DEF Calls
<1> QED BY <1>1, <1>2, <1>3, <1>4

\* The calls below the current one.
LEMMA CallsBelow ==
    ASSUME LoadInv, frames # <<>>, NEW g, SameLists(heap, g),
           \A b \in DOMAIN heap : b # Parser!Top.node => SameNode(heap, g, b),
           NEW k \in DOMAIN frames, k # Len(frames)
    PROVE  Calls(g, frames[k])
<1>1. frames[k].node # Parser!Top.node
  BY TopCall
<1>2. Calls(heap, frames[k]) /\ Sound(heap)
  BY DEF LoadInv, FramesInv
<1>3. frames[k].node \in DOMAIN heap
  BY <1>2 DEF Calls
<1> QED BY <1>1, <1>2, <1>3, CallKept

\* The current call goes on,
LEMMA FramesTurn ==
    ASSUME LoadInv, stage' = "fields", frames # <<>>, SameLists(heap, heap'),
           \A b \in DOMAIN heap : b # Parser!Top.node => SameNode(heap, heap', b),
           frames' = [frames EXCEPT ![Len(frames)].items = Tail(@)],
           \A f : Turned(Parser!Top, f) => Calls(heap', f) /\ f.node = Parser!Top.node
    PROVE  FramesInv'
<1> DEFINE n == Len(frames)
           f == [frames[n] EXCEPT !.items = Tail(frames[n].items)]
           t == [frames EXCEPT ![n] = f]
<1>1. /\ n \in DOMAIN frames /\ Parser!Top = frames[n] /\ Parser!IsSequence(frames)
      /\ \A k \in DOMAIN frames : k # n => frames[k].node # Parser!Top.node
  BY TopCall
<1>2. Turned(Parser!Top, f)
  BY <1>1 DEF Turned
<1>3. frames' = t
  OBVIOUS
<1>4. Calls(heap', f) /\ f.node = Parser!Top.node
  <2> HIDE DEF f
  <2> QED BY <1>2
<1> HIDE DEF f
<1>5. /\ Parser!IsSequence(t) /\ DOMAIN t = DOMAIN frames
      /\ \A k \in DOMAIN frames : t[k] = IF k = n THEN f ELSE frames[k]
  BY ONLY <1>1, ListExcept
<1> HIDE DEF t, n
<1>6. \A k \in DOMAIN frames : k # n => Calls(heap', frames[k])
  BY CallsBelow DEF n
<1>7. \A j, k \in DOMAIN frames : frames[j].node = frames[k].node => j = k
  BY DEF LoadInv, FramesInv
<1>8. \A k \in DOMAIN frames : frames'[k] = IF k = n THEN f ELSE frames[k]
  BY ONLY <1>3, <1>5
<1>9. Parser!IsSequence(frames') /\ DOMAIN frames' = DOMAIN frames
  BY ONLY <1>3, <1>5
<1>10. \A k \in DOMAIN frames' : Calls(heap', frames'[k])
  BY ONLY <1>4, <1>6, <1>8, <1>9
<1>11. \A j, k \in DOMAIN frames' : frames'[j].node = frames'[k].node => j = k
  BY ONLY <1>1, <1>4, <1>7, <1>8, <1>9
<1> QED BY ONLY <1>9, <1>10, <1>11, stage' = "fields" DEF FramesInv

\* another is made,
LEMMA FramesEnter ==
    ASSUME LoadInv, stage' = "fields", frames # <<>>, SameLists(heap, heap'),
           \A b \in DOMAIN heap : b # Parser!Top.node => SameNode(heap, heap', b),
           Calls(heap', Parser!Top), NEW f, Calls(heap', f), f.node \notin DOMAIN heap,
           frames' = Append(frames, f)
    PROVE  FramesInv'
<1> DEFINE n == Len(frames)
           t == Append(frames, f)
<1>1. n \in DOMAIN frames /\ Parser!Top = frames[n] /\ Parser!IsSequence(frames)
  BY TopCall
<1>2. /\ Parser!IsSequence(t) /\ DOMAIN t = DOMAIN frames \cup {n + 1}
      /\ t[n + 1] = f /\ \A k \in DOMAIN frames : t[k] = frames[k]
  BY ONLY <1>1, ListAppended
<1>3. frames' = t
  OBVIOUS
<1> HIDE DEF t, n
<1>4. \A k \in DOMAIN frames : Calls(heap', frames[k])
  BY <1>1, CallsBelow DEF n
<1>5. \A j, k \in DOMAIN frames : frames[j].node = frames[k].node => j = k
  BY DEF LoadInv, FramesInv
<1>6. \A k \in DOMAIN frames : frames[k].node # f.node
  BY DEF LoadInv, FramesInv, Calls
<1>7. \A k \in DOMAIN frames' : Calls(heap', frames'[k])
  BY ONLY <1>2, <1>3, <1>4, Calls(heap', f)
<1>8. \A j, k \in DOMAIN frames' : frames'[j].node = frames'[k].node => j = k
  BY ONLY <1>2, <1>3, <1>5, <1>6
<1> QED BY ONLY <1>2, <1>3, <1>7, <1>8, stage' = "fields" DEF FramesInv

\* or the current one returns.
LEMMA FramesReturn ==
    ASSUME LoadInv, stage' = "fields", frames # <<>>, SameLists(heap, heap'),
           \A b \in DOMAIN heap : b # Parser!Top.node => SameNode(heap, heap', b),
           frames' = Parser!Front(frames)
    PROVE  FramesInv'
<1> DEFINE n == Len(frames)
           t == Parser!Front(frames)
<1>1. Parser!IsSequence(frames)
  BY TopCall
<1>2. Parser!IsSequence(t) /\ DOMAIN t = DOMAIN frames \ {n} /\ \A k \in DOMAIN t : t[k] = frames[k]
  BY <1>1, ListFront
<1>3. frames' = t
  OBVIOUS
<1> HIDE DEF t
<1>4. \A k \in DOMAIN t : Calls(heap', frames[k])
  BY <1>2, CallsBelow
<1>5. \A j, k \in DOMAIN frames : frames[j].node = frames[k].node => j = k
  BY DEF LoadInv, FramesInv
<1> QED BY ONLY <1>2, <1>3, <1>4, <1>5, stage' = "fields" DEF FramesInv

\* A field is complete.
NumbersOf(h, x) ==
    (IF x.type \in {"oneof", "unknown"} THEN 0 ELSE 1) + (IF x.type = "oneof" THEN Len(h[x.sub].fields) ELSE 0)
Items == Parser!Top.items
Position == Current(heap, Parser!Top)

LEMMA Completes ==
    ASSUME LoadInv, stage = "fields", frames # <<>>, Parser!Kind # "enum", Items # <<>>,
           NEW x, NEW numbers, Parser!Complete(x, numbers),
           UNCHANGED <<defs, todo, proto, cache, corrupt, node>>,
           DOMAIN x = FieldParts, StaysOwner(heap, Parser!Top.node, Position, x),
           Parser!Kind # "oneof" => numbers = NumbersOf(heap, x)
    PROVE  LoadInv'
<1> DEFINE a == Parser!Top.node
           m == Position
           y == IF Parser!Kind = "oneof" THEN x ELSE [x EXCEPT !.proto = heap[a].proto]
           v == IF Parser!Kind = "oneof" THEN heap[a].vsize ELSE heap[a].vsize + numbers
<1>1. /\ heap' = [heap EXCEPT ![a].fields[m] = y, ![a].vsize = v]
      /\ frames' = [frames EXCEPT ![Len(frames)].items = Tail(@)]
      /\ UNCHANGED <<stage, live, denied>>
  BY DEF Parser!Complete, Parser!Here, Position, Current
<1>2. Sound(heap) /\ Calls(heap, Parser!Top) /\ a \in DOMAIN heap
  BY TopCall DEF LoadInv
<1>3. DOMAIN y = FieldParts /\ y.type = x.type /\ y.sub = x.sub
  BY DEF FieldParts
<1>4. Parser!Kind = heap[a].kind
  BY DEF Parser!Kind
<1>5. CountedWith(heap, a, y, v)
  <2>1. heap[a].vsize \in Nat
    BY <1>2 DEF Sound, Whole
  <2>2. CASE Parser!Kind = "oneof"
    BY <2>2, <1>4 DEF CountedWith
  <2>3. CASE Parser!Kind # "oneof"
    <3>1. numbers = NumbersOf(heap, y)
      BY <2>3, <1>3 DEF NumbersOf
    <3>2. y.type = "oneof" => Len(heap[y.sub].fields) \in Nat
      <4> SUFFICES ASSUME y.type = "oneof" PROVE Len(heap[y.sub].fields) \in Nat
        OBVIOUS
      <4>1. Hangs(heap, a, m) /\ y.sub = SubOf(heap, a, m)
        BY <1>3 DEF StaysOwner, Parser!Owning
      <4>2. m \in DOMAIN heap[a].fields
        <5>1. Len(Items) \in Nat /\ Len(Items) > 0 /\ Len(Items) <= Len(heap[a].fields)
          BY <1>2, ListTail, ListParts DEF Calls, Items
        <5>2. DOMAIN heap[a].fields = 1 .. Len(heap[a].fields) /\ Len(heap[a].fields) \in Nat
          BY <1>2, FieldsListed
        <5>3. m = Len(heap[a].fields) - Len(Items) + 1
          BY DEF Position, Current, Items
        <5> HIDE DEF m
        <5> QED BY ONLY <5>1, <5>2, <5>3
      <4>3. y.sub \in DOMAIN heap
        BY <1>2, <4>1, <4>2 DEF Sound, Hung
      <4> QED BY <1>2, <4>3, FieldsListed
    <3>3. v = heap[a].vsize + numbers /\ heap[a].kind # "oneof"
      BY <2>3, <1>4
    <3> DEFINE p == IF y.type \in {"oneof", "unknown"} THEN 0 ELSE 1
               q == IF y.type = "oneof" THEN Len(heap[y.sub].fields) ELSE 0
    <3>4. p \in Nat /\ q \in Nat
      BY <3>2
    <3>5. numbers = p + q
      BY <3>1 DEF NumbersOf
    <3>6. CountedWith(heap, a, y, v) <=> v = heap[a].vsize + p + q
      BY <3>3 DEF CountedWith
    <3> HIDE DEF y, v, a, p, q
    <3> QED BY ONLY <2>1, <3>3, <3>4, <3>5, <3>6
  <2> QED BY <2>2, <2>3
<1>6. StaysOwner(heap, a, m, y)
  BY <1>3 DEF StaysOwner
<1> HIDE DEF y, v
<1>7. Written(heap, heap', a, m, y, v)
  BY ONLY <1>1, <1>2, NodeWritten
<1>8. ASSUME NEW f, Turned(Parser!Top, f)
      PROVE  /\ Sound(heap') /\ Calls(heap', f) /\ DOMAIN heap' = DOMAIN heap /\ SameLists(heap, heap') /\ f.node = a
             /\ \A b \in DOMAIN heap : heap'[b].kind = heap[b].kind
             /\ \A b \in DOMAIN heap : b # a => heap'[b] = heap[b]
  <2>1. /\ heap[a].kind # "enum" /\ Parser!Top.items # <<>> /\ m = Current(heap, Parser!Top)
        /\ a = Parser!Top.node
    BY <1>4 DEF Items, Position
  <2> HIDE DEF a, m
  <2> QED BY ONLY <1>2, <1>3, <1>5, <1>6, <1>7, <1>8, <2>1, CallAdvances, SMTT(60)
<1>9. /\ Sound(heap') /\ DOMAIN heap' = DOMAIN heap /\ SameLists(heap, heap')
      /\ \A b \in DOMAIN heap : heap'[b].kind = heap[b].kind
      /\ \A b \in DOMAIN heap : b # a => heap'[b] = heap[b]
  <2> DEFINE f == [Parser!Top EXCEPT !.items = Tail(Parser!Top.items)]
  <2>1. Turned(Parser!Top, f)
    BY DEF Turned
  <2> HIDE DEF f
  <2> QED BY ONLY <1>8, <2>1
<1>10. \A b \in DOMAIN heap : b # a => SameNode(heap, heap', b)
  BY <1>9 DEF SameNode, SameShape, SubOf
<1>11. FramesInv'
  <2>1. stage' = "fields" /\ frames' = [frames EXCEPT ![Len(frames)].items = Tail(@)]
    BY <1>1
  <2> QED BY ONLY LoadInv, frames # <<>>, <1>8, <1>9, <1>10, <2>1, FramesTurn
<1>12. Reading
  BY <1>1, <1>9 DEF Reading, LoadInv, AliveInv, TypesInv
<1> QED BY ONLY LoadInv, <1>9, <1>11, <1>12, ReadingSteps

\* What the current field is when its item is reached, and when it is left.
LEMMA CurrentField ==
    ASSUME LoadInv, frames # <<>>, Parser!Kind # "enum", Items # <<>>
    PROVE  LET a == Parser!Top.node IN
           /\ Position \in DOMAIN heap[a].fields /\ Parser!Here = <<a, Position>>
           /\ Parser!At(Parser!Here) = heap[a].fields[Position] /\ DOMAIN heap[a].fields[Position] = FieldParts
           /\ Parser!At(Parser!Here).sub = Parser!Null => ~Hangs(heap, a, Position)
           /\ Parser!At(Parser!Here).sub # Parser!Null =>
               /\ Hangs(heap, a, Position) /\ Matches(heap[a].fields[Position].type, Parser!Item)
               /\ SubOf(heap, a, Position) \in DOMAIN heap
               /\ heap[SubOf(heap, a, Position)].kind = heap[a].fields[Position].type
           /\ Parser!Null \notin DOMAIN heap
           /\ Reads(Parser!Kind, Items) /\ Parser!Kind = heap[a].kind
           /\ Parser!IsSequence(Items) /\ 1 \in DOMAIN Items /\ Parser!Item = Items[1]
<1> DEFINE a == Parser!Top.node
<1>1. Sound(heap) /\ Calls(heap, Parser!Top) /\ a \in DOMAIN heap
  BY TopCall DEF LoadInv
<1>2. Parser!IsSequence(Items) /\ 1 \in DOMAIN Items /\ Parser!Item = Items[1] /\ Len(Items) > 0
      /\ Len(Items) <= Len(heap[a].fields)
  BY <1>1, ListTail DEF Calls, Items, Parser!Item
<1>3. DOMAIN heap[a].fields = 1 .. Len(heap[a].fields) /\ Len(heap[a].fields) \in Nat /\ Len(Items) \in Nat
  BY <1>1, <1>2, FieldsListed, ListParts
<1>4. Position \in DOMAIN heap[a].fields
  <2>1. Position = Len(heap[a].fields) - Len(Items) + 1
    BY DEF Position, Current, Items
  <2> HIDE DEF a
  <2> QED BY ONLY <1>2, <1>3, <2>1
<1>5. Parser!Here = <<a, Position>> /\ Parser!At(Parser!Here) = heap[a].fields[Position]
  BY DEF Parser!Here, Parser!At, Position, Current
<1>6. Parser!Kind = heap[a].kind
  BY DEF Parser!Kind
<1>7. Whole(heap[a])
  BY <1>1 DEF Sound
<1>8. DOMAIN heap[a].fields[Position] = FieldParts
  BY <1>4, <1>6, <1>7 DEF Whole
<1>9. Blank(heap[a].fields[Position])
      \/ (Hangs(heap, a, Position) /\ Matches(heap[a].fields[Position].type, Parser!Item))
  BY <1>1, <1>4, <1>6 DEF Calls, Position, Parser!Item
<1>10. Parser!Null \notin DOMAIN heap
  BY <1>1, ListParts DEF Sound, Parser!Null
<1>11. Hangs(heap, a, Position) => /\ SubOf(heap, a, Position) \in DOMAIN heap
                                   /\ heap[SubOf(heap, a, Position)].kind = heap[a].fields[Position].type
  BY <1>1, <1>4 DEF Sound, Hung
<1>12. Reads(Parser!Kind, Items)
  BY <1>1, <1>6 DEF Calls, Items
<1> QED BY <1>2, <1>4, <1>5, <1>6, <1>8, <1>9, <1>10, <1>11, <1>12 DEF Blank, SubOf

LEMMA ParseFieldKeeps ==
    ASSUME LoadInv, Parser!ParseField
    PROVE  LoadInv'
<1> DEFINE item == Parser!Item
           f == Parser!Filled([Parser!Named(item) EXCEPT !.subName = Parser!SubName(item[5])], item)
<1>1. /\ stage = "fields" /\ frames # <<>> /\ Parser!Kind # "enum" /\ Items # <<>> /\ item[1] = "field"
      /\ ~Parser!BeforeType(item) \/ item[5][1] # "map"
      /\ UNCHANGED <<defs, todo, proto, cache, corrupt, node>>
  BY DEF Parser!ParseField, Parser!Reading, Items
<1>2. CASE Parser!BeforeType(item) /\ Parser!Basic(item[5]) /\ Parser!AfterType(item)
  <2>1. Parser!Complete(f, Parser!Numbers(f))
    BY <1>2 DEF Parser!ParseField
  <2>2. item[5][1] \notin Parser!Owning
    BY <1>2 DEF Parser!Basic, Parser!Scalars, Parser!Ref, Parser!Owning
  <2>3. DOMAIN f = FieldParts /\ f.type = item[5][1]
    BY DEF Parser!Filled, Parser!Named, Parser!ZeroField, FieldParts
  <2>4. StaysOwner(heap, Parser!Top.node, Position, f)
    <3>1. ~Hangs(heap, Parser!Top.node, Position)
      BY <1>1, <1>2, CurrentField DEF Matches
    <3> QED BY <2>2, <2>3, <3>1 DEF StaysOwner
  <2> HIDE DEF f
  <2>5. Parser!Numbers(f) = NumbersOf(heap, f)
    <3>1. f.type # "oneof"
      BY ONLY <2>2, <2>3 DEF Parser!Owning
    <3>2. CASE f.type = "unknown"
      BY ONLY <3>2 DEF Parser!Numbers, NumbersOf
    <3>3. CASE f.type # "unknown"
      BY ONLY <3>1, <3>3 DEF Parser!Numbers, NumbersOf
    <3> QED BY <3>2, <3>3
  <2> QED BY ONLY LoadInv, <1>1, <2>1, <2>3, <2>4, <2>5, Completes
<1>3. CASE ~(Parser!BeforeType(item) /\ Parser!Basic(item[5]) /\ Parser!AfterType(item))
  <2>1. Parser!FailHere
    BY <1>3 DEF Parser!ParseField
  <2> QED BY <1>1, <2>1, ReadingFails DEF Parser!FailHere, LoadInv, TypesInv
<1> QED BY <1>2, <1>3

LEMMA LeaveMapKeeps ==
    ASSUME LoadInv, Parser!LeaveMap
    PROVE  LoadInv'
<1> DEFINE item == Parser!Item
           c == Parser!At(Parser!Here)
           f == Parser!Filled(c, item)
<1>1. /\ stage = "fields" /\ frames # <<>> /\ Parser!Kind # "enum" /\ Items # <<>> /\ item[1] = "field"
      /\ c.sub # Parser!Null
      /\ UNCHANGED <<defs, todo, proto, cache, corrupt, node>>
  BY DEF Parser!LeaveMap, Parser!Reading, Items
<1>2. CASE Parser!AfterType(item)
  <2>1. Parser!Complete(f, 1)
    BY <1>2 DEF Parser!LeaveMap
  <2>2. /\ c = heap[Parser!Top.node].fields[Position] /\ DOMAIN c = FieldParts
        /\ Hangs(heap, Parser!Top.node, Position) /\ Matches(c.type, item)
    BY <1>1, CurrentField
  <2>3. c.type = "map"
    BY <1>1, <2>2 DEF Matches
  <2>4. DOMAIN f = FieldParts /\ f.type = c.type /\ f.sub = c.sub
    BY <2>2 DEF Parser!Filled, FieldParts
  <2>5. StaysOwner(heap, Parser!Top.node, Position, f)
    BY <2>2, <2>4 DEF StaysOwner, SubOf
  <2> HIDE DEF f
  <2>6. 1 = NumbersOf(heap, f)
    BY <2>3, <2>4 DEF NumbersOf
  <2> QED BY ONLY LoadInv, <1>1, <2>1, <2>4, <2>5, <2>6, Completes
<1>3. CASE ~Parser!AfterType(item)
  <2>1. Parser!FailHere
    BY <1>3 DEF Parser!LeaveMap
  <2> QED BY <1>1, <2>1, ReadingFails DEF Parser!FailHere, LoadInv, TypesInv
<1> QED BY <1>2, <1>3

LEMMA LeaveOneofKeeps ==
    ASSUME LoadInv, Parser!LeaveOneof
    PROVE  LoadInv'
<1> DEFINE item == Parser!Item
           c == Parser!At(Parser!Here)
           s == heap[c.sub]
           f == [c EXCEPT !.fnum = s.fields[1].fnum]
<1>1. /\ stage = "fields" /\ frames # <<>> /\ Parser!Kind # "enum" /\ Items # <<>> /\ item[1] = "oneof"
      /\ c.sub # Parser!Null
      /\ UNCHANGED <<defs, todo, proto, cache, corrupt, node>>
  BY DEF Parser!LeaveOneof, Parser!Reading, Items
<1>2. Parser!Complete(f, s.size)
  BY DEF Parser!LeaveOneof
<1>3. /\ c = heap[Parser!Top.node].fields[Position] /\ DOMAIN c = FieldParts
      /\ Hangs(heap, Parser!Top.node, Position) /\ Matches(c.type, item)
      /\ c.sub \in DOMAIN heap /\ s.kind = c.type
  BY <1>1, CurrentField DEF SubOf
<1>4. c.type = "oneof"
  BY <1>1, <1>3 DEF Matches
<1>5. DOMAIN f = FieldParts /\ f.type = c.type /\ f.sub = c.sub
  BY <1>3 DEF FieldParts
<1>6. StaysOwner(heap, Parser!Top.node, Position, f)
  BY <1>3, <1>5 DEF StaysOwner, SubOf
<1>7. s.size = Len(s.fields) /\ Len(s.fields) \in Nat
  <2>1. Whole(s) /\ s.kind = "oneof" /\ Sound(heap)
    BY <1>3, <1>4 DEF LoadInv, Sound
  <2> QED BY <1>3, <2>1, FieldsListed DEF Whole, Parser!Owning
<1> HIDE DEF f
<1>8. s.size = NumbersOf(heap, f)
  BY <1>4, <1>5, <1>7 DEF NumbersOf
<1> QED BY ONLY LoadInv, <1>1, <1>2, <1>5, <1>6, <1>8, Completes

LEMMA ParseBadItemKeeps ==
    ASSUME LoadInv, Parser!ParseBadItem
    PROVE  LoadInv'
<1>1. /\ stage = "fields" /\ Parser!FailHere /\ UNCHANGED <<defs, todo, proto, cache, corrupt, node>>
  BY DEF Parser!ParseBadItem
<1> QED BY <1>1, ReadingFails DEF Parser!FailHere, LoadInv, TypesInv

\* An owned node is made; parsing its content begins, or its type is refused.
Begins(items) == stage' = stage /\ frames' = Append(frames, [node |-> Parser!Fresh, items |-> items])

LEMMA Enters ==
    ASSUME LoadInv, stage = "fields", frames # <<>>, Parser!Kind # "enum", Items # <<>>,
           Parser!At(Parser!Here).sub = Parser!Null,
           UNCHANGED <<defs, todo, proto, cache, node>>, Parser!Allocated(Parser!Fresh),
           NEW x, DOMAIN x = FieldParts, NEW kind \in Parser!Owning, x.type = kind,
           Matches(kind, Parser!Item), kind = "oneof" => Parser!Kind \in Parser!Message,
           NEW length \in Nat, NEW new, FreshNode(new, kind, length, length),
           heap' = Append([heap EXCEPT ![Parser!Here[1]].fields[Parser!Here[2]] = [x EXCEPT !.sub = Parser!Fresh]], new),
           NEW items,
           \/ Begins(items) /\ Parser!IsSequence(items) /\ Len(items) = length /\ Reads(kind, items)
           \/ Parser!Fail
    PROVE  LoadInv'
<1> DEFINE a == Parser!Top.node
           m == Position
           n == Len(heap) + 1
           y == [x EXCEPT !.sub = n]
<1>0. Parser!Fresh = n
  BY DEF Parser!Fresh
<1>1. Sound(heap) /\ Calls(heap, Parser!Top) /\ a \in DOMAIN heap
  BY TopCall DEF LoadInv
<1>2. /\ m \in DOMAIN heap[a].fields /\ Parser!Here = <<a, m>> /\ ~Hangs(heap, a, m)
      /\ Parser!Null \notin DOMAIN heap /\ Parser!Kind = heap[a].kind
  BY CurrentField
<1>3. heap' = Append([heap EXCEPT ![a].fields[m] = y], new)
  BY <1>0, <1>2
<1>4. DOMAIN y = FieldParts /\ y.type = kind /\ y.sub = Len(heap) + 1
  BY DEF FieldParts
<1> HIDE DEF y
<1>5. Grown(heap, heap', a, m, y, new)
  BY ONLY <1>1, <1>3, NodeGrown
<1>6. /\ Sound(heap') /\ DOMAIN heap' = DOMAIN heap \cup {n} /\ n \notin DOMAIN heap
      /\ heap'[n] = new /\ SameLists(heap, heap') /\ Calls(heap', Parser!Top)
      /\ \A b \in DOMAIN heap : heap'[b].kind = heap[b].kind
      /\ \A b \in DOMAIN heap : b # a => heap'[b] = heap[b]
  <2>1. heap[a].kind # "enum" /\ Parser!Top.items # <<>> /\ m = Current(heap, Parser!Top)
        /\ Matches(kind, Head(Parser!Top.items)) /\ (kind = "oneof" => heap[a].kind \in Parser!Message)
    BY <1>2 DEF Items, Position, Parser!Item
  <2>a. a = Parser!Top.node
    OBVIOUS
  <2>2. length \in Nat /\ FreshNode(new, kind, length, length) /\ kind \in Parser!Owning
    OBVIOUS
  <2> HIDE DEF n, m, a
  <2>3. /\ Sound(heap') /\ DOMAIN heap' = DOMAIN heap \cup {Len(heap) + 1} /\ Len(heap) + 1 \notin DOMAIN heap
        /\ heap'[Len(heap) + 1] = new /\ SameLists(heap, heap') /\ Calls(heap', Parser!Top)
        /\ \A b \in DOMAIN heap : heap'[b].kind = heap[b].kind
        /\ \A b \in DOMAIN heap : b # a => heap'[b] = heap[b]
    <3>1. EnterParts(heap, Parser!Top, a, m, y, kind, length, new, heap')
      BY ONLY <1>1, <1>2, <1>4, <1>5, <2>1, <2>2, <2>a DEF EnterParts
    <3>2. Entered(heap, Parser!Top, a, new, heap')
      BY ONLY <3>1, CallEnters
    <3> QED BY ONLY <3>2 DEF Entered
  <2> QED BY ONLY <2>3 DEF n
<1>7. new.kind = kind
  BY DEF FreshNode
<1>8. live' = live \cup {n} /\ UNCHANGED <<denied, corrupt>>
  BY <1>0 DEF Parser!Allocated
<1> HIDE DEF n
<1>9. \A b \in DOMAIN heap : b # a => SameNode(heap, heap', b)
  BY <1>6 DEF SameNode, SameShape, SubOf
<1>10. FramesInv'
  <2>1. CASE Parser!Fail
    BY <2>1, NoFrames DEF Parser!Fail
  <2>2. CASE Begins(items) /\ Parser!IsSequence(items) /\ Len(items) = length /\ Reads(kind, items)
    <3> DEFINE f == [node |-> n, items |-> items]
    <3>1. Calls(heap', f)
      <4>1. n \in DOMAIN heap' /\ FreshNode(heap'[n], kind, length, length) /\ length \in Nat
        BY <1>6
      <4> QED BY ONLY <2>2, <4>1, CallStarts
    <3>2. f.node \notin DOMAIN heap
      BY <1>6
    <3>3. stage' = "fields" /\ frames' = Append(frames, f)
      BY <1>0, <2>2 DEF Begins
    <3> HIDE DEF f
    <3> QED BY ONLY LoadInv, frames # <<>>, <1>6, <1>9, <3>1, <3>2, <3>3, FramesEnter
  <2> QED BY <2>1, <2>2
<1>11. Reading
  <2>1. stage' \in {"fields", "unwind"}
    BY DEF Begins, Parser!Fail
  <2>2. live' = DOMAIN heap' /\ denied' \in BOOLEAN
    BY <1>6, <1>8 DEF LoadInv, AliveInv, TypesInv
  <2>3. /\ DOMAIN heap \subseteq DOMAIN heap'
        /\ \A b \in DOMAIN heap' \ DOMAIN heap : heap'[b].kind \in Parser!Owning
    BY <1>6, <1>7
  <2> QED BY <1>6, <1>8, <2>1, <2>2, <2>3 DEF Reading
<1> QED BY ONLY LoadInv, <1>6, <1>10, <1>11, ReadingSteps

LEMMA EnterMapKeeps ==
    ASSUME LoadInv, Parser!EnterMap
    PROVE  LoadInv'
<1> DEFINE item == Parser!Item
           type == item[5]
           new == Parser!MakeNode("map", item[2], 0, 2, 2)
           x == Parser!Named(item)
           entries == Parser!EntryItems(type)
<1>1. /\ stage = "fields" /\ frames # <<>> /\ Parser!Kind # "enum" /\ Items # <<>> /\ item[1] = "field"
      /\ type[1] = "map" /\ Parser!At(Parser!Here).sub = Parser!Null
      /\ UNCHANGED <<defs, todo, proto, cache, node>>
  BY DEF Parser!EnterMap, Parser!Reading, Items
<1>2. FreshNode(new, "map", 2, 2)
  BY NodeMade DEF Parser!Message
<1>3. DOMAIN x = FieldParts /\ x.type = "map" /\ Matches("map", item) /\ "map" \in Parser!Owning
  BY <1>1 DEF Parser!Named, Parser!ZeroField, FieldParts, Matches, Parser!Owning
<1> DEFINE Stored == heap' = Append([heap EXCEPT ![Parser!Here[1]].fields[Parser!Here[2]] = [x EXCEPT !.sub = Parser!Fresh]], new)
<1>4. \/ type[2] \in Parser!KeyType /\ type[3][1] # "map" /\ Parser!Enter(x, new, entries)
      \/ Stored /\ Parser!Allocated(Parser!Fresh) /\ Parser!Fail
      \/ Parser!Denied /\ UNCHANGED corrupt
  BY DEF Parser!EnterMap
<1>5. CASE type[2] \in Parser!KeyType /\ type[3][1] # "map" /\ Parser!Enter(x, new, entries)
  <2>1. Stored /\ Parser!Allocated(Parser!Fresh) /\ Begins(entries)
    BY <1>5 DEF Parser!Enter, Begins
  <2>2. Parser!IsSequence(entries) /\ Len(entries) = 2 /\ DOMAIN entries = 1 .. 2
    BY DEF Parser!EntryItems, Parser!IsSequence, Parser!ToSet
  <2>3. Reads("map", entries)
    <3>1. \A k \in DOMAIN entries : entries[k][1] = "field" /\ entries[k][5][1] # "map"
      BY <1>5, <2>2 DEF Parser!EntryItems, Parser!KeyType
    <3> QED BY <3>1 DEF Reads
  <2> HIDE DEF new, x, entries
  <2> QED BY ONLY LoadInv, <1>1, <1>2, <1>3, <2>1, <2>2, <2>3, 2 \in Nat, "map" # "oneof", Enters
<1>6. CASE Stored /\ Parser!Allocated(Parser!Fresh) /\ Parser!Fail
  <2> HIDE DEF new, x
  <2> QED BY ONLY LoadInv, <1>1, <1>2, <1>3, <1>6, 2 \in Nat, "map" # "oneof", Enters
<1>7. CASE Parser!Denied /\ UNCHANGED corrupt
  BY <1>1, <1>7, ReadingFails DEF Parser!Denied
<1> QED BY <1>4, <1>5, <1>6, <1>7

LEMMA EnterOneofKeeps ==
    ASSUME LoadInv, Parser!EnterOneof
    PROVE  LoadInv'
<1> DEFINE item == Parser!Item
           list == item[4]
           new == Parser!MakeNode("oneof", Parser!Null, 0, Len(list), Len(list))
           x == [Parser!ZeroField EXCEPT !.name = item[2], !.rnum = item[3] - 1, !.type = "oneof"]
<1>1. /\ stage = "fields" /\ frames # <<>> /\ Parser!Kind # "enum" /\ Items # <<>> /\ item[1] = "oneof"
      /\ Parser!Kind \in Parser!Message /\ Parser!At(Parser!Here).sub = Parser!Null
      /\ UNCHANGED <<defs, todo, proto, cache, node>>
  BY DEF Parser!EnterOneof, Parser!Reading, Items
<1>2. \/ Parser!Enter(x, new, list)
      \/ Parser!FailHere /\ UNCHANGED corrupt
      \/ Parser!Denied /\ UNCHANGED corrupt
  BY DEF Parser!EnterOneof
<1>3. CASE Parser!Enter(x, new, list)
  <2>1. /\ heap' = Append([heap EXCEPT ![Parser!Here[1]].fields[Parser!Here[2]] = [x EXCEPT !.sub = Parser!Fresh]], new)
        /\ Parser!Allocated(Parser!Fresh) /\ Begins(list)
    BY <1>3 DEF Parser!Enter, Begins
  <2>2. Reads(Parser!Kind, Items) /\ 1 \in DOMAIN Items /\ item = Items[1]
    BY <1>1, CurrentField
  <2>3. Parser!Kind \in {"msg", "group"}
    BY <1>1, <2>2 DEF Reads, Parser!Message
  <2>4. Parser!ItemAssumption(item) /\ (NoMapInOneof => MapsOutside(item))
    BY <2>2, <2>3 DEF Reads
  <2>5. Parser!IsSequence(list) /\ Len(list) \in Nat
    BY <1>1, <2>4, ListParts DEF Parser!ItemAssumption
  <2>6. Reads("oneof", list)
    BY <1>1, <2>4 DEF MapsOutside, Reads
  <2>7. FreshNode(new, "oneof", Len(list), Len(list))
    BY <2>5, NodeMade
  <2>8. DOMAIN x = FieldParts /\ x.type = "oneof" /\ Matches("oneof", item) /\ "oneof" \in Parser!Owning
    BY <1>1 DEF Parser!ZeroField, FieldParts, Matches, Parser!Owning
  <2> DEFINE length == Len(list)
  <2>9. length \in Nat /\ Len(list) = length /\ FreshNode(new, "oneof", length, length)
    BY <2>5, <2>7
  <2> HIDE DEF new, x, list, length
  <2> QED BY ONLY LoadInv, <1>1, <2>1, <2>5, <2>6, <2>8, <2>9, Enters
<1>4. CASE Parser!FailHere /\ UNCHANGED corrupt
  BY <1>1, <1>4, ReadingFails DEF Parser!FailHere, LoadInv, TypesInv
<1>5. CASE Parser!Denied /\ UNCHANGED corrupt
  BY <1>1, <1>5, ReadingFails DEF Parser!Denied
<1> QED BY <1>2, <1>3, <1>4, <1>5

\* All items of a node are read: its tables are sorted and made.
LEMMA Closes ==
    ASSUME LoadInv, stage = "fields", frames # <<>>,
           UNCHANGED <<defs, stage, todo, proto, cache, live, corrupt, node, denied>>,
           frames' = Parser!Front(frames),
           Parser!IsSequence(heap'), DOMAIN heap' = DOMAIN heap, \A b \in DOMAIN heap : Whole(heap'[b]),
           \A b \in DOMAIN heap : b # Parser!Top.node => SameNode(heap, heap', b),
           NEW a, a = Parser!Top.node, SameShape(heap'[a], heap[a]),
           NEW p, Permutes(p, DOMAIN heap[a].fields),
           \A k \in DOMAIN heap[a].fields : Keeps(heap, heap', a, p[k], k)
    PROVE  LoadInv'
<1>1. Sound(heap) /\ a \in DOMAIN heap
  BY TopCall DEF LoadInv
<1>2. \A b \in DOMAIN heap : SameShape(heap'[b], heap[b])
  BY DEF SameNode
<1>3. ASSUME NEW b \in DOMAIN heap
      PROVE  \E q : Permutes(q, DOMAIN heap[b].fields) /\ \A k \in DOMAIN heap[b].fields : Keeps(heap, heap', b, q[k], k)
  <2>1. CASE b = a
    BY <2>1
  <2>2. CASE b # a
    <3>1. SameNode(heap, heap', b)
      BY <2>2
    <3>2. \A k \in DOMAIN heap[b].fields : Keeps(heap, heap', b, k, k)
      BY <3>1 DEF SameNode, SameShape, Keeps, Hangs
    <3> QED BY ONLY <3>2, StaysInPlace
  <2> QED BY <2>1, <2>2
<1>4. Rearranged(heap, heap')
  BY ONLY <1>2, <1>3, DOMAIN heap' = DOMAIN heap DEF Rearranged
<1>5. Sound(heap')
  BY <1>1, <1>4, SoundRearranged
<1>6. SameLists(heap, heap') /\ \A b \in DOMAIN heap : heap'[b].kind = heap[b].kind
  BY <1>2 DEF SameLists, SameShape
<1>7. FramesInv'
  BY <1>6, FramesReturn
<1>8. Reading
  BY <1>6 DEF Reading, LoadInv, AliveInv, TypesInv
<1> QED BY <1>5, <1>7, <1>8, ReadingSteps

LEMMA CloseOneofKeeps ==
    ASSUME LoadInv, Parser!CloseOneof
    PROVE  LoadInv'
<1> DEFINE a == Parser!Top.node
           f == heap[a].fields
<1>1. /\ stage = "fields" /\ frames # <<>> /\ Parser!Kind = "oneof" /\ heap[a].kind = "oneof"
      /\ UNCHANGED <<defs, todo, proto, cache, corrupt, node>>
  BY DEF Parser!CloseOneof, Parser!Closing, Parser!Kind
<1>2. /\ Sound(heap) /\ a \in DOMAIN heap /\ Whole(heap[a]) /\ heap[a].vfields = <<>>
      /\ Parser!IsSequence(f) /\ Parser!IsSequence(heap)
  BY <1>1, TopCall DEF LoadInv, Sound, Whole, Calls
<1>3. PICK s \in Parser!Sortings(f, Parser!NamesOf(f)) : Parser!Closed([heap EXCEPT ![a].fields = s])
  BY DEF Parser!CloseOneof
<1>q. PICK q : Moves(q, f, s)
  BY SortingMoves
<1> DEFINE n == [heap[a] EXCEPT !.fields = s]
           e == [heap EXCEPT ![a] = n]
<1>4. heap' = e /\ frames' = Parser!Front(frames) /\ UNCHANGED <<stage, live, denied>>
  BY <1>2, <1>3 DEF Parser!Closed
<1>5. /\ DOMAIN n = NodeParts /\ n.fields = s /\ n.kind = heap[a].kind /\ n.size = heap[a].size
      /\ n.vsize = heap[a].vsize /\ n.vfields = heap[a].vfields
  BY <1>2 DEF Whole, NodeParts
<1>6. /\ Parser!IsSequence(s) /\ Len(s) = Len(f) /\ DOMAIN s = DOMAIN f
      /\ Permutes(q, DOMAIN f) /\ \A k \in DOMAIN f : s[k] = f[q[k]]
  BY ONLY <1>2, <1>q, SortedTable
<1>7. q \in [DOMAIN f -> DOMAIN f]
  BY <1>6 DEF Permutes
<1> HIDE DEF n
<1>8. Parser!IsSequence(e) /\ DOMAIN e = DOMAIN heap /\ \A b \in DOMAIN heap : e[b] = IF b = a THEN n ELSE heap[b]
  BY ONLY <1>2, ListExcept
<1> HIDE DEF e
<1>9. heap'[a] = n /\ \A b \in DOMAIN heap : b # a => heap'[b] = heap[b]
  BY ONLY <1>2, <1>4, <1>8
<1>10. Whole(n)
  BY <1>1, <1>2, <1>5, <1>6, <1>7 DEF Whole
<1>11. \A b \in DOMAIN heap : Whole(heap'[b])
  BY <1>2, <1>9, <1>10 DEF Sound
<1>12. \A b \in DOMAIN heap : b # a => SameNode(heap, heap', b)
  BY <1>9 DEF SameNode, SameShape, SubOf
<1>13. SameShape(heap'[a], heap[a])
  BY <1>5, <1>6, <1>9 DEF SameShape
<1>14. \A k \in DOMAIN heap[a].fields : Keeps(heap, heap', a, q[k], k)
  BY <1>5, <1>6, <1>9 DEF Keeps, Hangs, SubOf
<1>15. Parser!IsSequence(heap') /\ DOMAIN heap' = DOMAIN heap
  BY ONLY <1>4, <1>8
<1> QED BY <1>1, <1>4, <1>6, <1>11, <1>12, <1>13, <1>14, <1>15, Closes

LEMMA ParseEnumKeeps ==
    ASSUME LoadInv, Parser!ParseEnum
    PROVE  LoadInv'
<1> DEFINE a == Parser!Top.node
           symbols == {k \in DOMAIN Items : Items[k][1] = "symbol"}
           Symbol(k) == [name |-> Items[k][2], value |-> Items[k][3]]
           firsts == {k \in symbols : \A j \in symbols : j < k => Items[j][3] # Items[k][3]}
           f == [k \in DOMAIN Items |-> IF k \in symbols THEN Symbol(k) ELSE Parser!ZeroSymbol]
           v == [k \in firsts |-> Symbol(k)]
<1>1. /\ stage = "fields" /\ frames # <<>> /\ heap[a].kind = "enum"
      /\ UNCHANGED <<defs, todo, proto, cache, corrupt, node>>
  BY DEF Parser!ParseEnum, Parser!Kind
<1>2. /\ Sound(heap) /\ a \in DOMAIN heap /\ Whole(heap[a]) /\ heap[a].vfields = <<>>
      /\ Parser!IsSequence(heap) /\ Parser!IsSequence(heap[a].fields)
      /\ Parser!IsSequence(Items) /\ Len(Items) = Len(heap[a].fields)
  BY <1>1, TopCall DEF LoadInv, Sound, Whole, Calls, Items
<1>3. CASE Parser!FailHere
  BY <1>1, <1>3, ReadingFails DEF Parser!FailHere, LoadInv, TypesInv
<1>4. CASE ~Parser!FailHere
  <2>1. PICK s \in Parser!Sortings(f, Parser!NamesOf(f)), t \in Parser!Sortings(v, Parser!ValuesOf(v)) :
            Parser!Closed([heap EXCEPT ![a].fields = s, ![a].vsize = Parser!Cardinality(firsts), ![a].vfields = t])
    BY <1>4 DEF Parser!ParseEnum, Items
  <2>q. PICK q : Moves(q, f, s)
    BY SortingMoves
  <2>r. PICK r : Moves(r, v, t)
    BY SortingMoves
  <2> DEFINE c == Cardinality(firsts)
             n == [heap[a] EXCEPT !.fields = s, !.vsize = c, !.vfields = t]
             e == [heap EXCEPT ![a] = n]
  <2>2. heap' = e /\ frames' = Parser!Front(frames) /\ UNCHANGED <<stage, live, denied>>
    BY <1>2, <2>1, SameCardinality DEF Parser!Closed
  <2>3. /\ DOMAIN n = NodeParts /\ n.fields = s /\ n.kind = heap[a].kind /\ n.size = heap[a].size
        /\ n.vsize = c /\ n.vfields = t
    BY <1>2 DEF Whole, NodeParts
  <2>4. IsFiniteSet(DOMAIN Items) /\ Cardinality(DOMAIN Items) = Len(Items) /\ DOMAIN f = DOMAIN Items
    BY <1>2, ListFinite
  <2>5. DOMAIN v = firsts /\ IsFiniteSet(firsts) /\ c \in Nat
    <3>1. firsts \in SUBSET DOMAIN Items
      OBVIOUS
    <3> HIDE DEF firsts
    <3> QED BY <2>4, <3>1, FS_Subset, FS_CardinalityType
  <2> HIDE DEF firsts, f, v
  <2>6. Parser!IsSequence(s) /\ Len(s) = Cardinality(DOMAIN f) /\ DOMAIN s = Place(f)
    BY <2>4, <2>q, SortedEntries
  <2>7. Len(t) = Cardinality(DOMAIN v)
    BY <2>5, <2>r, SortedEntries
  <2>8. Len(t) = c
    BY ONLY <2>5, <2>7, Zenon DEF c
  <2>9. Len(s) = Len(heap[a].fields)
    BY ONLY <1>2, <2>4, <2>6, Zenon
  <2>10. DOMAIN s = DOMAIN heap[a].fields
    <3>1. DOMAIN s = 1 .. Len(s) /\ DOMAIN heap[a].fields = 1 .. Len(heap[a].fields)
      BY ONLY <1>2, <2>6, ListParts
    <3> QED BY ONLY <2>9, <3>1
  <2> HIDE DEF c, n
  <2>11. Parser!IsSequence(e) /\ DOMAIN e = DOMAIN heap /\ \A b \in DOMAIN heap : e[b] = IF b = a THEN n ELSE heap[b]
    BY ONLY <1>2, ListExcept
  <2> HIDE DEF e
  <2>12. heap'[a] = n /\ \A b \in DOMAIN heap : b # a => heap'[b] = heap[b]
    BY ONLY <1>2, <2>2, <2>11
  <2>13. Whole(n)
    BY ONLY <1>1, <1>2, <2>3, <2>5, <2>6, <2>8 DEF Whole
  <2>14. \A b \in DOMAIN heap : Whole(heap'[b])
    BY <1>2, <2>12, <2>13 DEF Sound
  <2>15. \A b \in DOMAIN heap : b # a => SameNode(heap, heap', b)
    BY <2>12 DEF SameNode, SameShape, SubOf
  <2>16. SameShape(heap'[a], heap[a])
    BY ONLY <2>3, <2>9, <2>10, <2>12 DEF SameShape
  <2>17. \A k \in DOMAIN heap[a].fields : Keeps(heap, heap', a, k, k)
    BY ONLY <1>1, <2>3, <2>12 DEF Keeps, Hangs
  <2> DEFINE p == [k \in DOMAIN heap[a].fields |-> k]
  <2>18. Permutes(p, DOMAIN heap[a].fields) /\ \A k \in DOMAIN heap[a].fields : Keeps(heap, heap', a, p[k], k)
    BY ONLY <2>17 DEF Permutes
  <2> HIDE DEF p
  <2>19. Parser!IsSequence(heap') /\ DOMAIN heap' = DOMAIN heap
    BY ONLY <2>2, <2>11
  <2> QED BY <1>1, <2>2, <2>14, <2>15, <2>16, <2>18, <2>19, Closes
<1> QED BY <1>3, <1>4

\* The alternatives of a oneof are noted as such.
Noted(list) == [k \in DOMAIN list |-> [list[k] EXCEPT !.oneof = TRUE]]

NotesAll(n, g) == g = [n EXCEPT !.fields = Noted(n.fields)]

LEMMA NodeNoted ==
    ASSUME NEW n, Whole(n), n.kind = "oneof", NEW g, NotesAll(n, g)
    PROVE  /\ Whole(g) /\ SameShape(g, n) /\ g.vsize = n.vsize /\ g.vfields = n.vfields
           /\ \A k \in DOMAIN n.fields : g.fields[k].type = n.fields[k].type /\ g.fields[k].sub = n.fields[k].sub
<1> DEFINE t == Noted(n.fields)
<1>1. /\ Parser!IsSequence(n.fields) /\ Len(n.fields) \in Nat /\ DOMAIN n.fields = 1 .. Len(n.fields)
      /\ DOMAIN n = NodeParts
  BY ListParts DEF Whole
<1>2. /\ DOMAIN t = DOMAIN n.fields
      /\ \A k \in DOMAIN n.fields : t[k] = [n.fields[k] EXCEPT !.oneof = TRUE]
  BY DEF Noted
<1>3. \A k \in DOMAIN n.fields : DOMAIN n.fields[k] = FieldParts
  BY DEF Whole
<1>4. \A k \in DOMAIN n.fields :
          DOMAIN t[k] = FieldParts /\ t[k].type = n.fields[k].type /\ t[k].sub = n.fields[k].sub
  <2> SUFFICES ASSUME NEW k \in DOMAIN n.fields
               PROVE  DOMAIN t[k] = FieldParts /\ t[k].type = n.fields[k].type /\ t[k].sub = n.fields[k].sub
    OBVIOUS
  <2> DEFINE w == n.fields[k]
             z == [w EXCEPT !.oneof = TRUE]
  <2>1. t[k] = z /\ DOMAIN w = FieldParts
    BY <1>2, <1>3
  <2>2. DOMAIN z = FieldParts /\ z.type = w.type /\ z.sub = w.sub
    BY <2>1 DEF FieldParts
  <2> HIDE DEF z, t
  <2> QED BY ONLY <2>1, <2>2 DEF w
<1>5. t = [k \in 1 .. Len(n.fields) |-> t[k]]
  BY <1>1 DEF Noted
<1>6. DOMAIN g = NodeParts /\ g.fields = t /\ \A x \in NodeParts : x # "fields" => g[x] = n[x]
  BY <1>1 DEF NodeParts, NotesAll
<1> HIDE DEF t
<1>7. Parser!IsSequence(t) /\ Len(t) = Len(n.fields)
  BY ONLY <1>1, <1>5, ListMade
<1>8. /\ g.kind = n.kind /\ g.size = n.size /\ g.vsize = n.vsize /\ g.vfields = n.vfields
  BY ONLY <1>6 DEF NodeParts
<1>9. Whole(g)
  BY ONLY Whole(n), <1>2, <1>4, <1>6, <1>7, <1>8 DEF Whole
<1> QED BY ONLY <1>2, <1>4, <1>6, <1>7, <1>8, <1>9 DEF SameShape

LEMMA CloseMessageKeeps ==
    ASSUME LoadInv, Parser!CloseMessage
    PROVE  LoadInv'
<1> DEFINE a == Parser!Top.node
           f == heap[a].fields
           m == Len(f) + 1
           V(s) == Parser!VFields(a, s)
           New(s, t) == [heap[a] EXCEPT !.fields = s, !.vfields = t, !.dense = Parser!Dense(t)]
           Heap(s, t) == [b \in DOMAIN heap |->
                             CASE b = a -> New(s, t)
                               [] b # a /\ b \in Parser!OneofsOf(s) -> [heap[b] EXCEPT !.fields = Noted(@)]
                               [] OTHER -> heap[b]]
<1>1. /\ stage = "fields" /\ frames # <<>> /\ heap[a].kind \in Parser!Message /\ Items = <<>>
      /\ UNCHANGED <<defs, todo, proto, cache, corrupt, node>>
  BY DEF Parser!CloseMessage, Parser!Closing, Parser!Kind, Items
<1>2. /\ Sound(heap) /\ a \in DOMAIN heap /\ Whole(heap[a]) /\ Parser!IsSequence(f) /\ Parser!IsSequence(heap)
      /\ Calls(heap, Parser!Top) /\ DOMAIN heap[a] = NodeParts
  BY TopCall, <1>1 DEF LoadInv, Sound, Whole
<1>3. CASE Parser!Denied
  BY <1>1, <1>3, ReadingFails DEF Parser!Denied
<1>4. CASE ~Parser!Denied
  <2>1. PICK s \in Parser!Sortings(f, Parser!SlotsOf(f)) :
            \E t \in Parser!Sortings(V(s), Parser!NumbersIn(V(s))) : Parser!Closed(Heap(s, t))
    BY <1>4 DEF Parser!CloseMessage, Noted
  <2>2. PICK t \in Parser!Sortings(V(s), Parser!NumbersIn(V(s))) : Parser!Closed(Heap(s, t))
    BY <2>1
  <2>q. PICK q : Moves(q, f, s)
    BY SortingMoves
  <2>r. PICK r : Moves(r, V(s), t)
    BY SortingMoves
  <2> DEFINE n == New(s, t)
             e == Heap(s, t)
  <2>3. heap' = e /\ frames' = Parser!Front(frames) /\ UNCHANGED <<stage, live, denied>>
    BY <2>2 DEF Parser!Closed
  <2>4. /\ Parser!IsSequence(s) /\ Len(s) = Len(f) /\ DOMAIN s = DOMAIN f
        /\ Permutes(q, DOMAIN f) /\ \A k \in DOMAIN f : s[k] = f[q[k]]
    BY ONLY <1>2, <2>q, SortedTable
  <2>5. /\ IsFiniteSet(DOMAIN V(s))
        /\ Cardinality(DOMAIN V(s)) = Cardinality(Own(heap, a, m)) + Cardinality(Alternatives(heap, a, m))
        /\ Parser!OneofsOf(s) = Oneofs(heap, a, m)
    <3>1. m = Len(heap[a].fields) + 1 /\ DOMAIN s = DOMAIN heap[a].fields /\ \A k \in DOMAIN s : s[k] = heap[a].fields[q[k]]
      BY <2>4
    <3>2. Permutes(q, DOMAIN heap[a].fields) /\ a \in DOMAIN heap /\ heap[a].kind \in Parser!Message
      BY <1>1, <1>2, <2>4
    <3> HIDE DEF m, a
    <3> QED BY ONLY <1>2, <3>1, <3>2, NumbersOfMessage
  <2>6. /\ DOMAIN n = NodeParts /\ n.fields = s /\ n.vfields = t /\ n.kind = heap[a].kind
        /\ n.size = heap[a].size /\ n.vsize = heap[a].vsize
    BY <1>2 DEF NodeParts
  <2>7. Current(heap, Parser!Top) = m
    <3>1. Len(Parser!Top.items) = 0 /\ Len(f) \in Nat
      BY <1>1, <1>2, ListParts DEF Items
    <3> QED BY <3>1 DEF Current
  <2>8. heap[a].vsize = Cardinality(Own(heap, a, m)) + Cardinality(Alternatives(heap, a, m))
    BY <1>1, <1>2, <2>7 DEF Calls, Parser!Message
  <2> DEFINE v == V(s)
  <2>9. Len(t) = heap[a].vsize
    <3>1. IsFiniteSet(DOMAIN v) /\ Moves(r, v, t)
      BY <2>5, <2>r
    <3> HIDE DEF v
    <3>2. Len(t) = Cardinality(DOMAIN v)
      BY ONLY <3>1, SortedEntries
    <3>3. Cardinality(DOMAIN v) = Cardinality(Own(heap, a, m)) + Cardinality(Alternatives(heap, a, m))
      BY <2>5 DEF v
    <3> HIDE DEF m, a
    <3> QED BY ONLY <3>2, <3>3, <2>8
  <2>10. Oneofs(heap, a, m) \subseteq DOMAIN heap /\ \A b \in Oneofs(heap, a, m) : heap[b].kind = "oneof"
    BY <1>1, <1>2 DEF Oneofs, Sound, Hung, Hangs, SubOf, Parser!Message, Parser!Owning
  <2>11. Whole(n)
    <3>1. q \in [DOMAIN f -> DOMAIN f]
      BY <2>4 DEF Permutes
    <3> HIDE DEF n
    <3> QED BY ONLY <1>1, <1>2, <2>4, <2>6, <2>9, <3>1 DEF Whole, Parser!Message
  <2>12. heap'[a] = n
    <3>1. e[a] = n
      <4> HIDE DEF n
      <4> QED BY <1>2 DEF n
    <3> QED BY <2>3, <3>1
  <2> HIDE DEF n
  <2>13. ASSUME NEW b \in DOMAIN heap, b # a PROVE Whole(heap'[b]) /\ SameNode(heap, heap', b)
    <3>1. Whole(heap[b])
      BY <1>2 DEF Sound
    <3>2. CASE b \in Parser!OneofsOf(s)
      <4>1. NotesAll(heap[b], heap'[b])
        BY <2>3, <2>13, <3>2 DEF NotesAll
      <4>2. heap[b].kind = "oneof"
        BY <2>5, <2>10, <3>2
      <4>3. /\ Whole(heap'[b]) /\ SameShape(heap'[b], heap[b])
            /\ heap'[b].vsize = heap[b].vsize /\ heap'[b].vfields = heap[b].vfields
            /\ \A k \in DOMAIN heap[b].fields :
                heap'[b].fields[k].type = heap[b].fields[k].type /\ heap'[b].fields[k].sub = heap[b].fields[k].sub
        BY ONLY <3>1, <4>1, <4>2, NodeNoted
      <4> QED BY ONLY <4>3 DEF SameNode, SubOf
    <3>3. CASE b \notin Parser!OneofsOf(s)
      <4>1. heap'[b] = heap[b]
        BY <2>3, <2>13, <3>3
      <4> QED BY ONLY <3>1, <4>1 DEF SameNode, SameShape, SubOf
    <3> QED BY <3>2, <3>3
  <2>14. Parser!IsSequence(heap') /\ DOMAIN heap' = DOMAIN heap
    <3>1. DOMAIN heap = 1 .. Len(heap) /\ Len(heap) \in Nat
      BY <1>2, ListParts
    <3>2. DOMAIN e = DOMAIN heap /\ e = [b \in DOMAIN heap |-> e[b]]
      OBVIOUS
    <3> HIDE DEF e
    <3>3. heap' = [b \in 1 .. Len(heap) |-> heap'[b]] /\ DOMAIN heap' = DOMAIN heap
      BY ONLY <2>3, <3>1, <3>2
    <3> QED BY ONLY <3>1, <3>3, ListMade
  <2> HIDE DEF e
  <2>15. SameShape(heap'[a], heap[a])
    BY ONLY <2>4, <2>6, <2>12 DEF SameShape
  <2>16. \A k \in DOMAIN heap[a].fields : Keeps(heap, heap', a, q[k], k)
    BY ONLY <2>4, <2>6, <2>12 DEF Keeps, Hangs, SubOf
  <2>17. \A b \in DOMAIN heap : Whole(heap'[b])
    BY <2>11, <2>12, <2>13
  <2>18. \A b \in DOMAIN heap : b # Parser!Top.node => SameNode(heap, heap', b)
    BY <2>13
  <2> QED BY <1>1, <2>3, <2>4, <2>14, <2>15, <2>16, <2>17, <2>18, Closes
<1> QED BY <1>3, <1>4

-----------------------------------------------------------------------------
(* The steps of ep_load_cache *)

LEMMA DefsKnown ==
    ASSUME TypesInv
    PROVE  /\ Parser!IsSequence(defs)
           /\ \A k \in DOMAIN defs :
               LET d == defs[k] IN
               /\ d[1] \in Parser!Header \cup {"msg", "group", "enum", "other"} \/ d \in {<<"bad">>, <<"tail">>}
               /\ d[1] \in {"msg", "group", "enum", "other"} =>
                   Parser!IsSequence(d[3]) /\ \A j \in DOMAIN d[3] : Parser!ItemAssumption(d[3][j])
               /\ NoMapInOneof /\ d[1] \in {"msg", "group"} => \A j \in DOMAIN d[3] : MapsOutside(d[3][j])
           /\ IsFiniteSet(Parser!Definitions) /\ Parser!Definitions \subseteq Nat
<1>1. defs \in DefLists
  BY DEF TypesInv
<1>2. Parser!IsSequence(defs)
  BY <1>1, LoadAssumption DEF Parser!DefListAssumption
<1>3. IsFiniteSet(DOMAIN defs) /\ DOMAIN defs \subseteq Nat
  BY <1>2, ListFinite
<1>4. Parser!Definitions \in SUBSET DOMAIN defs
  BY DEF Parser!Definitions
<1>5. IsFiniteSet(Parser!Definitions) /\ Parser!Definitions \subseteq Nat
  BY <1>3, <1>4, FS_Subset
<1>6. ASSUME NEW k \in DOMAIN defs
      PROVE  LET d == defs[k] IN
             /\ d[1] \in Parser!Header \cup {"msg", "group", "enum", "other"} \/ d \in {<<"bad">>, <<"tail">>}
             /\ d[1] \in {"msg", "group", "enum", "other"} =>
                 Parser!IsSequence(d[3]) /\ \A j \in DOMAIN d[3] : Parser!ItemAssumption(d[3][j])
  BY <1>1, LoadAssumption DEF Parser!DefListAssumption
<1>7. NoMapInOneof => \A k \in DOMAIN defs :
          defs[k][1] \in {"msg", "group"} => \A j \in DOMAIN defs[k][3] : MapsOutside(defs[k][3][j])
  BY <1>1 DEF NoMapInOneof
<1> QED BY <1>2, <1>5, <1>6, <1>7

\* The first definition that is not read, and those behind it.
Left == {k \in Parser!Definitions : k > Len(defs) - Len(Tail(todo))}

LEMMA NextDefinition ==
    ASSUME LoadInv, stage \in {"define", "fields"}, todo # <<>>
    PROVE  LET k == Len(defs) - Len(todo) + 1
               rest == Tail(todo)
           IN  /\ k \in DOMAIN defs /\ Head(todo) = defs[k]
               /\ Parser!IsSequence(rest) /\ Len(rest) <= Len(defs)
               /\ \A j \in DOMAIN rest : rest[j] = defs[Len(defs) - Len(rest) + j]
               /\ Cardinality(Left) \in Nat /\ Cardinality(Unread) \in Nat /\ Cardinality(Left) <= Cardinality(Unread)
               /\ defs[k][1] \notin Parser!Header \cup {"tail"} => Cardinality(Left) = Cardinality(Unread) - 1
<1> DEFINE k == Len(defs) - Len(todo) + 1
           rest == Tail(todo)
<1>1. /\ Parser!IsSequence(defs) /\ IsFiniteSet(Parser!Definitions) /\ Parser!Definitions \subseteq Nat
  BY DefsKnown DEF LoadInv
<1>2. /\ Parser!IsSequence(todo) /\ Len(todo) <= Len(defs)
      /\ \A j \in DOMAIN todo : todo[j] = defs[Len(defs) - Len(todo) + j]
  BY DEF LoadInv, RoomInv
<1>3. /\ Parser!IsSequence(rest) /\ Len(rest) = Len(todo) - 1 /\ Len(todo) > 0 /\ 1 \in DOMAIN todo
      /\ Head(todo) = todo[1] /\ \A j \in DOMAIN rest : rest[j] = todo[j + 1] /\ j + 1 \in DOMAIN todo
  BY <1>2, ListTail
<1>4. /\ Len(defs) \in Nat /\ Len(todo) \in Nat /\ Len(rest) \in Nat
      /\ DOMAIN defs = 1 .. Len(defs) /\ DOMAIN rest = 1 .. Len(rest)
  BY <1>1, <1>2, <1>3, ListParts
<1>5. Head(todo) = defs[k]
  BY ONLY <1>2, <1>3
<1> HIDE DEF rest
<1>6. k \in DOMAIN defs /\ Len(rest) <= Len(defs) /\ k \in Nat
  BY ONLY <1>2, <1>3, <1>4
<1>7. \A j \in DOMAIN rest : rest[j] = defs[Len(defs) - Len(rest) + j]
  <2> SUFFICES ASSUME NEW j \in DOMAIN rest PROVE rest[j] = defs[Len(defs) - Len(rest) + j]
    OBVIOUS
  <2>1. rest[j] = defs[Len(defs) - Len(todo) + (j + 1)] /\ j \in Nat
    BY ONLY <1>2, <1>3, <1>4, j \in DOMAIN rest
  <2>2. Len(defs) - Len(todo) + (j + 1) = Len(defs) - Len(rest) + j
    BY ONLY <1>3, <1>4, <2>1
  <2> QED BY ONLY <2>1, <2>2
<1>8. Left = {j \in Parser!Definitions : j > k} /\ Unread = {j \in Parser!Definitions : j >= k}
  <2>1. \A j \in Parser!Definitions :
            (j > Len(defs) - Len(rest) <=> j > k) /\ (j > Len(defs) - Len(todo) <=> j >= k)
    BY ONLY <1>1, <1>3, <1>4
  <2> QED BY ONLY <2>1 DEF Left, Unread, rest
<1>9. k \in Parser!Definitions <=> defs[k][1] \notin Parser!Header \cup {"tail"}
  BY <1>6 DEF Parser!Definitions
<1> HIDE DEF k
<1>10. Left = Unread \ {k} /\ Left \subseteq Unread /\ (k \in Unread <=> k \in Parser!Definitions)
  <2>1. \A j \in Parser!Definitions : (j > k <=> j >= k /\ j # k) /\ k >= k
    BY ONLY <1>1, <1>6
  <2> QED BY ONLY <1>8, <2>1
<1>11. IsFiniteSet(Unread) /\ IsFiniteSet(Left) /\ Cardinality(Left) \in Nat /\ Cardinality(Unread) \in Nat
       /\ Cardinality(Left) <= Cardinality(Unread)
  <2>1. Unread \in SUBSET Parser!Definitions
    BY DEF Unread
  <2>2. IsFiniteSet(Unread) /\ Cardinality(Unread) \in Nat
    BY <1>1, <2>1, FS_Subset, FS_CardinalityType
  <2> QED BY <1>10, <2>2, FS_Subset, FS_CardinalityType
<1>12. k \in Unread => Cardinality(Left) = Cardinality(Unread) - 1
  BY <1>10, <1>11, FS_RemoveElement
<1> QED BY <1>3, <1>5, <1>6, <1>7, <1>9, <1>10, <1>11, <1>12 DEF k, rest

LEMMA CountKeeps ==
    ASSUME LoadInv, Parser!Count
    PROVE  LoadInv'
<1>1. /\ stage = "count" /\ stage' \in {"create", "failed"} /\ UNCHANGED <<defs, todo, cache, heap, live, corrupt, node, frames, denied>>
      /\ stage' = "create" => Parser!Countable /\ proto' = Parser!LastOf("syntax", 2)
      /\ stage' # "create" => proto' = proto
  BY DEF Parser!Count, Parser!memory
<1>2. heap = <<>> /\ cache = Parser!NoCache /\ live = DOMAIN heap /\ ~corrupt /\ Sound(heap) /\ frames = <<>>
  BY <1>1 DEF LoadInv, RoomInv, AliveInv, FramesInv
<1>3. proto' \in {2, 3}
  <2>1. CASE stage' = "create"
    <3> DEFINE tagged == {k \in DOMAIN defs : defs[k][1] = "syntax"}
    <3>1. proto' = IF tagged = {} THEN 2 ELSE defs[Parser!Max(tagged)][2]
      BY <1>1, <2>1 DEF Parser!LastOf
    <3>2. \A k \in tagged : defs[k][2] \in {2, 3}
      BY <1>1, <2>1 DEF Parser!Countable
    <3>3. Parser!Max(tagged) = Max(tagged)
      BY DEF Parser!Max, Max
    <3>4. DOMAIN defs = 1 .. Len(defs) /\ Len(defs) \in Nat
      BY DefsKnown, ListParts DEF LoadInv
    <3>5. ASSUME tagged # {} PROVE Max(tagged) \in tagged
      <4>1. tagged \in SUBSET (0 .. Len(defs))
        BY <3>4
      <4> HIDE DEF tagged
      <4> QED BY <3>4, <3>5, <4>1, MaxOfNaturals
    <3> HIDE DEF tagged
    <3> QED BY <3>1, <3>2, <3>3, <3>5
  <2>2. CASE stage' # "create"
    BY <1>1, <2>2 DEF LoadInv, TypesInv
  <2> QED BY <2>1, <2>2
<1>4. TypesInv'
  BY <1>1, <1>3 DEF LoadInv, TypesInv
<1>5. CacheInv'
  BY <1>1 DEF LoadInv, CacheInv
<1>6. RoomInv'
  <2>1. stage' \notin {"define", "fields"}
    BY <1>1
  <2>2. stage' = "create" => \A k \in DOMAIN defs : defs[k] # <<"bad">>
    BY <1>1 DEF Parser!Countable
  <2> QED BY <1>1, <1>2, <2>1, <2>2 DEF RoomInv
<1>7. Sound(heap)' /\ AliveInv'
  BY <1>1, <1>2 DEF AliveInv
<1>8. RootsInv'
  BY <1>1, <1>2 DEF RootsInv, Held, LoadInv
<1>9. FramesInv'
  BY <1>1, <1>2, NoFrames
<1> QED BY <1>4, <1>5, <1>6, <1>7, <1>8, <1>9 DEF LoadInv

LEMMA CreateKeeps ==
    ASSUME LoadInv, Parser!Create
    PROVE  LoadInv'
<1>1. /\ stage = "create" /\ UNCHANGED <<defs, proto, heap, live, corrupt, node, frames>>
      /\ \/ /\ stage' = "define" /\ cache' = [Parser!NoCache EXCEPT !.size = Parser!Counted]
            /\ todo' = defs /\ UNCHANGED denied
         \/ stage' = "failed" /\ denied' = TRUE /\ UNCHANGED <<cache, todo>>
  BY DEF Parser!Create, Parser!memory
<1>2. heap = <<>> /\ cache = Parser!NoCache /\ live = DOMAIN heap /\ ~corrupt /\ Sound(heap) /\ frames = <<>>
  BY <1>1 DEF LoadInv, RoomInv, AliveInv, FramesInv
<1>3. TypesInv'
  BY <1>1 DEF LoadInv, TypesInv
<1>4. Parser!IsSequence(defs) /\ IsFiniteSet(Parser!Definitions) /\ Parser!Definitions \subseteq Nat
      /\ Cardinality(Parser!Definitions) \in Nat /\ Parser!Counted = Cardinality(Parser!Definitions)
      /\ DOMAIN defs = 1 .. Len(defs) /\ Len(defs) \in Nat
  BY DefsKnown, SameCardinality, FS_CardinalityType, ListParts DEF LoadInv, Parser!Counted
<1>5. DOMAIN cache' = {"size", "ids", "names"} /\ cache'.ids = <<>> /\ cache'.size \in Nat
      /\ (stage' = "define" => cache'.size = Cardinality(Parser!Definitions))
  BY <1>1, <1>2, <1>4 DEF Parser!NoCache
<1>6. Parser!IsSequence(<<>>) /\ DOMAIN <<>> = {} /\ Len(<<>>) = 0
  BY DEF Parser!IsSequence
<1>7. CacheInv'
  BY <1>5, <1>6 DEF CacheInv
<1>8. RoomInv'
  <2>1. CASE stage' = "define"
    <3>1. todo' = defs /\ defs' = defs
      BY <1>1, <2>1
    <3>2. \A k \in DOMAIN defs : Len(defs) - Len(defs) + k = k
      BY ONLY <1>4
    <3>3. Unread' = Parser!Definitions
      <4>1. Unread' = {k \in Parser!Definitions : k > Len(defs) - Len(defs)}
        BY <3>1 DEF Unread, Parser!Definitions
      <4>2. \A k \in Parser!Definitions : k > Len(defs) - Len(defs)
        BY <1>4 DEF Parser!Definitions
      <4> QED BY <4>1, <4>2
    <3>4. Cardinality(Unread') = Cardinality(Parser!Definitions)
      BY ONLY <3>3, Zenon
    <3>5. Len(cache'.ids) + Cardinality(Unread') <= cache'.size
      BY ONLY <1>4, <1>5, <1>6, <2>1, <3>4
    <3>6. \A k \in DOMAIN defs : defs[k] # <<"bad">>
      BY <1>1 DEF LoadInv, RoomInv
    <3> QED BY <1>4, <2>1, <3>1, <3>2, <3>5, <3>6 DEF RoomInv
  <2>2. CASE stage' = "failed"
    BY <2>2 DEF RoomInv
  <2> QED BY <1>1, <2>1, <2>2
<1>9. Sound(heap)' /\ AliveInv'
  BY <1>1, <1>2 DEF AliveInv
<1>10. RootsInv'
  BY <1>1, <1>2, <1>5, <1>6 DEF RootsInv, Held
<1>11. FramesInv'
  BY <1>1, <1>2, NoFrames
<1> QED BY <1>3, <1>7, <1>8, <1>9, <1>10, <1>11 DEF LoadInv

\* A header, or a definition of no interest, is passed over.
LEMMA Skips ==
    ASSUME LoadInv, stage = "define", todo # <<>>, todo' = Tail(todo), node' \in {node, Parser!Null},
           UNCHANGED <<defs, stage, proto, cache, heap, live, corrupt, frames, denied>>
    PROVE  LoadInv'
<1>1. TypesInv'
  BY DEF LoadInv, TypesInv
<1>2. CacheInv' /\ Sound(heap)' /\ AliveInv' /\ RootsInv'
  BY DEF LoadInv, CacheInv, AliveInv, RootsInv, Held
<1>3. FramesInv'
  BY NoFrames DEF LoadInv, FramesInv
<1>4. RoomInv'
  <2>1. Unread' = Left
    BY DEF Unread, Left, Parser!Definitions
  <2>2. Cardinality(Unread)' = Cardinality(Left)
    BY ONLY <2>1, Zenon
  <2>3. /\ Parser!IsSequence(todo') /\ Len(todo') <= Len(defs)
        /\ \A j \in DOMAIN todo' : todo'[j] = defs[Len(defs) - Len(todo') + j]
        /\ Cardinality(Left) \in Nat /\ Cardinality(Unread) \in Nat /\ Cardinality(Left) <= Cardinality(Unread)
    BY NextDefinition
  <2>4. /\ Len(cache.ids) + Cardinality(Unread) <= cache.size
        /\ Len(cache.ids) \in Nat /\ cache.size \in Nat
    BY ListParts DEF LoadInv, RoomInv, CacheInv
  <2>5. Len(cache.ids) + Cardinality(Left) <= cache.size
    BY ONLY <2>3, <2>4
  <2>6. \A k \in DOMAIN defs : defs[k] # <<"bad">>
    BY DEF LoadInv, RoomInv
  <2> QED BY <2>2, <2>3, <2>5, <2>6 DEF RoomInv
<1> QED BY <1>1, <1>2, <1>3, <1>4 DEF LoadInv

LEMMA SkipKeeps ==
    ASSUME LoadInv, Parser!SkipHeader \/ Parser!Skip
    PROVE  LoadInv'
<1>1. /\ stage = "define" /\ todo # <<>> /\ todo' = Tail(todo) /\ node' \in {node, Parser!Null}
      /\ UNCHANGED <<defs, stage, proto, cache, heap, live, corrupt, frames, denied>>
  BY DEF Parser!SkipHeader, Parser!Skip, Parser!memory
<1> QED BY <1>1, Skips

\* The node of a definition is made; its items are read next, or it is refused.
LEMMA Starts ==
    ASSUME LoadInv, stage = "define", todo # <<>>, Head(todo)[1] \notin Parser!Header \cup {"tail"},
           UNCHANGED <<defs, todo, proto, cache, corrupt>>, Parser!Allocated(Parser!Fresh), node' = Parser!Fresh,
           NEW kind \in {"msg", "group", "enum"}, NEW length \in Nat, NEW used, NEW new,
           FreshNode(new, kind, length, used), heap' = Append(heap, new),
           NEW items,
           \/ /\ stage' = "fields" /\ frames' = <<[node |-> Parser!Fresh, items |-> items]>> /\ used = length
              /\ Parser!IsSequence(items) /\ Len(items) = length /\ Reads(kind, items)
           \/ Parser!Fail
    PROVE  LoadInv'
<1> DEFINE n == Len(heap) + 1
           g == Append(heap, new)
<1>1. Sound(heap) /\ Parser!IsSequence(heap) /\ Parser!Fresh = n /\ Len(heap) \in Nat
  BY ListParts DEF LoadInv, Sound, Parser!Fresh
<1>2. heap' = g /\ node' = n /\ live' = live \cup {n} /\ UNCHANGED <<denied, corrupt>> /\ n # Parser!Null
  BY <1>1 DEF Parser!Allocated, Parser!Null
<1>3. /\ Parser!IsSequence(g) /\ DOMAIN g = DOMAIN heap \cup {n} /\ n \notin DOMAIN heap
      /\ g[n] = new /\ \A k \in DOMAIN heap : g[k] = heap[k]
  BY ONLY <1>1, ListAppended
<1>4. Sound(g)
  <2>1. /\ Whole(new) /\ new.kind \notin Parser!Owning
        /\ \A k \in DOMAIN new.fields : new.kind # "enum" => new.fields[k].type \notin Parser!Owning
    BY DEF FreshNode, Blank, Parser!Owning
  <2> QED BY ONLY <1>1, <2>1, SoundRooted
<1> HIDE DEF g, n
<1>5. /\ DOMAIN heap' = DOMAIN heap \cup {n} /\ n \notin DOMAIN heap /\ heap'[n] = new
      /\ \A k \in DOMAIN heap : heap'[k] = heap[k]
  BY ONLY <1>2, <1>3
<1>6. stage' \in {"fields", "unwind"} /\ new.kind \notin Parser!Owning
  BY DEF Parser!Fail, FreshNode, Parser!Owning
<1>7. TypesInv'
  BY <1>2, <1>5, <1>6 DEF LoadInv, TypesInv
<1>8. CacheInv'
  BY <1>5 DEF LoadInv, CacheInv
<1>9. RoomInv'
  <2>1. Unread' = Unread
    BY DEF Unread, Parser!Definitions
  <2>2. Cardinality(Unread)' = Cardinality(Unread)
    BY ONLY <2>1, Zenon
  <2> QED BY <1>2, <1>6, <2>2 DEF LoadInv, RoomInv
<1>10. RootsInv'
  <2>1. Held' /\ ~Held
    BY <1>2, <1>6 DEF Held
  <2>2. \A b \in DOMAIN heap : heap[b].kind \notin Parser!Owning <=> b \in {cache.ids[k] : k \in DOMAIN cache.ids}
    BY <2>1 DEF LoadInv, RootsInv
  <2>3. {cache.ids[k] : k \in DOMAIN cache.ids} \subseteq DOMAIN heap
    BY DEF LoadInv, CacheInv
  <2> QED BY <1>2, <1>5, <1>6, <2>1, <2>2, <2>3 DEF RootsInv
<1>11. AliveInv'
  BY <1>2, <1>5, <1>6 DEF LoadInv, AliveInv
<1>12. FramesInv'
  <2>1. CASE Parser!Fail
    BY <2>1, NoFrames DEF Parser!Fail
  <2>2. CASE ~Parser!Fail
    <3> DEFINE f == [node |-> n, items |-> items]
               t == <<f>>
    <3>1. Calls(heap', f)
      <4>1. n \in DOMAIN heap' /\ FreshNode(heap'[n], kind, length, length) /\ length \in Nat
        BY <1>5, <2>2
      <4>2. Parser!IsSequence(items) /\ Len(items) = length /\ Reads(kind, items)
        BY <2>2
      <4> QED BY ONLY <4>1, <4>2, CallStarts
    <3>2. frames' = t /\ stage' = "fields"
      BY <1>1, <2>2
    <3> HIDE DEF f
    <3>3. Parser!IsSequence(t) /\ DOMAIN t = {1} /\ t[1] = f
      BY DEF Parser!IsSequence, Parser!ToSet
    <3> HIDE DEF t
    <3> QED BY ONLY <3>1, <3>2, <3>3 DEF FramesInv
  <2> QED BY <2>1, <2>2
<1>13. Sound(heap)'
  BY <1>2, <1>4
<1> QED BY <1>7, <1>8, <1>9, <1>10, <1>11, <1>12, <1>13 DEF LoadInv

\* It is not made, for an error or for want of memory.
LEMMA StartFails ==
    ASSUME LoadInv, stage = "define", node' = Parser!Null, Parser!Fail, denied' \in BOOLEAN,
           UNCHANGED <<defs, todo, proto, cache, heap, live, corrupt>>
    PROVE  LoadInv'
<1>1. stage' = "unwind" /\ ~Held /\ ~Held'
  BY DEF Parser!Fail, Held
<1>2. TypesInv' /\ CacheInv' /\ Sound(heap)' /\ AliveInv' /\ RoomInv'
  BY <1>1 DEF LoadInv, TypesInv, CacheInv, AliveInv, RoomInv
<1>3. RootsInv'
  BY <1>1 DEF LoadInv, RootsInv
<1> QED BY <1>2, <1>3, NoFrames DEF LoadInv, Parser!Fail

LEMMA StartNodeKeeps ==
    ASSUME LoadInv, Parser!StartNode
    PROVE  LoadInv'
<1> DEFINE d == Head(todo)
           protoV == IF d[2] \in Parser!ToSet(proto3) THEN 3 ELSE proto
           New(used) == Parser!MakeNode(d[1], d[2], protoV, Len(d[3]), used)
           Stored(new) == heap' = Append(heap, new) /\ node' = Parser!Fresh /\ Parser!Allocated(Parser!Fresh)
<1>1. /\ stage = "define" /\ todo # <<>> /\ d[1] \notin Parser!Header \cup {"tail"} /\ (Parser!Improper(d[3]) \/ d[1] # "other")
      /\ UNCHANGED <<defs, todo, proto, proto3, cache, corrupt>>
      /\ \/ /\ ~Parser!Improper(d[3]) /\ Stored(New(Len(d[3])))
            /\ frames' = <<[node |-> Parser!Fresh, items |-> d[3]]>> /\ stage' = "fields"
         \/ ~Parser!Improper(d[3]) /\ Stored(New(0)) /\ Parser!Fail
         \/ Parser!Improper(d[3]) /\ node' = Parser!Null /\ Parser!FailHere
         \/ ~Parser!Improper(d[3]) /\ node' = Parser!Null /\ Parser!Denied
  BY DEF Parser!StartNode
<1>2. CASE node' = Parser!Null /\ (Parser!FailHere \/ Parser!Denied)
  BY <1>1, <1>2, StartFails DEF Parser!FailHere, Parser!Denied, LoadInv, TypesInv
<1>3. CASE ~Parser!Improper(d[3]) /\ (Stored(New(Len(d[3]))) \/ Stored(New(0)))
  <2> DEFINE k == Len(defs) - Len(todo) + 1
             items == d[3]
             kind == d[1]
  <2>1. k \in DOMAIN defs /\ d = defs[k]
    BY <1>1, NextDefinition
  <2>2. d # <<"bad">>
    BY <1>1, <2>1 DEF LoadInv, RoomInv
  <2>3. kind \in {"msg", "group", "enum"}
    BY <1>1, <1>3, <2>1, <2>2, DefsKnown DEF LoadInv
  <2>4. /\ Parser!IsSequence(items) /\ \A j \in DOMAIN items : Parser!ItemAssumption(items[j])
        /\ NoMapInOneof /\ kind \in {"msg", "group"} => \A j \in DOMAIN items : MapsOutside(items[j])
    BY <2>1, <2>3, DefsKnown DEF LoadInv
  <2>5. Reads(kind, items)
    BY <2>3, <2>4 DEF Reads
  <2> DEFINE length == Len(items)
  <2>6. length \in Nat
    BY <2>4, ListParts
  <2>7. kind \in Parser!Message \cup {"oneof", "enum"} /\ kind \notin Parser!Owning
    BY <2>3 DEF Parser!Message, Parser!Owning
  <2> HIDE DEF kind, items, length
  <2>8. /\ FreshNode(Parser!MakeNode(kind, d[2], protoV, length, length), kind, length, length)
        /\ FreshNode(Parser!MakeNode(kind, d[2], protoV, length, 0), kind, length, 0)
    BY ONLY <2>6, <2>7, NodeMade
  <2> USE DEF kind, items, length
  <2>9. CASE /\ Stored(New(Len(d[3]))) /\ frames' = <<[node |-> Parser!Fresh, items |-> d[3]]>> /\ stage' = "fields"
    <3> DEFINE new == New(Len(d[3]))
    <3>1. FreshNode(new, kind, length, length)
      BY <2>8
    <3>2. /\ heap' = Append(heap, new) /\ node' = Parser!Fresh /\ Parser!Allocated(Parser!Fresh) /\ stage' = "fields"
          /\ frames' = <<[node |-> Parser!Fresh, items |-> items]>> /\ Len(items) = length
      BY <2>9
    <3> HIDE DEF new, kind, items, length
    <3> QED BY ONLY LoadInv, <1>1, <2>3, <2>4, <2>5, <2>6, <3>1, <3>2, Starts
  <2>10. CASE Stored(New(0)) /\ Parser!Fail
    <3> DEFINE new == New(0)
    <3>1. FreshNode(new, kind, length, 0)
      BY <2>8
    <3>2. heap' = Append(heap, new) /\ node' = Parser!Fresh /\ Parser!Allocated(Parser!Fresh) /\ Parser!Fail
      BY <2>10
    <3> HIDE DEF new, kind, items, length
    <3> QED BY ONLY LoadInv, <1>1, <2>3, <2>6, <3>1, <3>2, Starts
  <2> QED BY <1>1, <1>2, <1>3, <2>9, <2>10
<1> QED BY <1>1, <1>2, <1>3

LEMMA InsertKeeps ==
    ASSUME LoadInv, Parser!Insert
    PROVE  LoadInv'
<1>1. /\ stage = "fields" /\ frames = <<>> /\ stage' = "define" /\ todo' = Tail(todo)
      /\ cache' = IF Len(cache.ids) < cache.size
                  THEN [cache EXCEPT !.ids = Append(@, node), !.names = Append(@, node)] ELSE cache
      /\ UNCHANGED <<defs, proto, heap, live, corrupt, node, frames, denied>>
  BY DEF Parser!Insert, Parser!memory
<1>2. /\ todo # <<>> /\ Head(todo)[1] \notin Parser!Header \cup {"tail"} /\ node # Parser!Null /\ node \in DOMAIN heap
      /\ Len(cache.ids) + Cardinality(Unread) <= cache.size
  BY <1>1 DEF LoadInv, RoomInv, TypesInv
<1>3. /\ Parser!IsSequence(cache.ids) /\ cache.size \in Nat /\ DOMAIN cache = {"size", "ids", "names"}
      /\ Len(cache.ids) \in Nat
      /\ \A k \in DOMAIN cache.ids : cache.ids[k] \in DOMAIN heap
      /\ \A j, k \in DOMAIN cache.ids : cache.ids[j] = cache.ids[k] => j = k
  BY ListParts DEF LoadInv, CacheInv
<1>4. LET rest == Tail(todo) IN
      /\ Parser!IsSequence(rest) /\ Len(rest) <= Len(defs)
      /\ \A j \in DOMAIN rest : rest[j] = defs[Len(defs) - Len(rest) + j]
      /\ Cardinality(Left) \in Nat /\ Cardinality(Unread) \in Nat
      /\ Cardinality(Left) = Cardinality(Unread) - 1
  BY <1>1, <1>2, NextDefinition
<1>5. Len(cache.ids) < cache.size
  BY ONLY <1>2, <1>3, <1>4
<1> DEFINE ids == Append(cache.ids, node)
<1>6. cache'.ids = ids /\ cache'.size = cache.size /\ DOMAIN cache' = {"size", "ids", "names"}
  BY <1>1, <1>3, <1>5
<1>7. /\ Parser!IsSequence(ids) /\ Len(ids) = Len(cache.ids) + 1
      /\ DOMAIN ids = DOMAIN cache.ids \cup {Len(cache.ids) + 1} /\ Len(cache.ids) + 1 \notin DOMAIN cache.ids
      /\ ids[Len(cache.ids) + 1] = node /\ \A k \in DOMAIN cache.ids : ids[k] = cache.ids[k]
  BY <1>3, ListAppended
<1> HIDE DEF ids
<1>8. Held /\ ~Held'
  BY <1>1, <1>2 DEF Held
<1>9. \A k \in DOMAIN cache.ids : cache.ids[k] # node
  BY <1>1, <1>8 DEF LoadInv, RootsInv
<1>10. TypesInv'
  BY <1>1 DEF LoadInv, TypesInv
<1>11. CacheInv'
  <2>1. Len(ids) <= cache.size
    BY ONLY <1>3, <1>5, <1>7
  <2>2. \A k \in DOMAIN ids : ids[k] \in DOMAIN heap
    BY ONLY <1>2, <1>3, <1>7
  <2>3. \A j, k \in DOMAIN ids : ids[j] = ids[k] => j = k
    BY ONLY <1>3, <1>7, <1>9
  <2> QED BY <1>1, <1>3, <1>6, <1>7, <2>1, <2>2, <2>3 DEF CacheInv
<1>12. RoomInv'
  <2>1. Unread' = Left
    BY <1>1 DEF Unread, Left, Parser!Definitions
  <2>2. Cardinality(Unread)' = Cardinality(Left)
    BY ONLY <2>1, Zenon
  <2>3. Len(ids) + Cardinality(Left) <= cache.size
    BY ONLY <1>2, <1>3, <1>4, <1>7
  <2>4. \A k \in DOMAIN defs : defs[k] # <<"bad">>
    BY <1>1 DEF LoadInv, RoomInv
  <2> QED BY <1>1, <1>4, <1>6, <2>2, <2>3, <2>4 DEF RoomInv
<1>13. RootsInv'
  <2>1. {ids[k] : k \in DOMAIN ids} = {cache.ids[k] : k \in DOMAIN cache.ids} \cup {node}
    BY ONLY <1>7
  <2>2. \A b \in DOMAIN heap :
            heap[b].kind \notin Parser!Owning <=> (b \in {cache.ids[k] : k \in DOMAIN cache.ids} \/ b = node)
    BY <1>1, <1>8 DEF LoadInv, RootsInv
  <2> QED BY <1>1, <1>6, <1>8, <2>1, <2>2 DEF RootsInv
<1>14. AliveInv' /\ Sound(heap)'
  BY <1>1 DEF LoadInv, AliveInv
<1>15. FramesInv'
  BY <1>1, NoFrames
<1> QED BY <1>10, <1>11, <1>12, <1>13, <1>14, <1>15 DEF LoadInv

\* All definitions are inserted: the names are sorted, or the list is refused.
LEMMA SortKeeps ==
    ASSUME LoadInv, Parser!Sort \/ Parser!RefuseTail
    PROVE  LoadInv'
<1>1. /\ stage = "define" /\ stage' \in {"discard", "link"}
      /\ cache' = cache \/ \E names2 : cache' = [cache EXCEPT !.names = names2]
      /\ UNCHANGED <<defs, proto, heap, live, corrupt, node, frames, denied>>
  BY DEF Parser!Sort, Parser!RefuseTail, Parser!memory
<1>2. DOMAIN cache = {"size", "ids", "names"}
  BY DEF LoadInv, CacheInv
<1>3. cache'.ids = cache.ids /\ cache'.size = cache.size /\ DOMAIN cache' = DOMAIN cache
  BY <1>1, <1>2
<1>4. TypesInv' /\ CacheInv' /\ RoomInv' /\ Sound(heap)' /\ AliveInv'
  BY <1>1, <1>3 DEF LoadInv, TypesInv, CacheInv, RoomInv, AliveInv
<1>5. ~Held /\ ~Held'
  BY <1>1 DEF Held
<1>6. RootsInv'
  BY <1>1, <1>3, <1>5 DEF LoadInv, RootsInv
<1>7. FramesInv'
  BY <1>1, NoFrames DEF LoadInv, FramesInv
<1> QED BY <1>4, <1>6, <1>7 DEF LoadInv

LEMMA LinkedKeeps ==
    ASSUME LoadInv, Parser!Linked
    PROVE  LoadInv'
<1>1. /\ stage = "link" /\ stage' = "loaded"
      /\ UNCHANGED <<defs, todo, proto, proto3, cache, heap, live, corrupt, node, frames, denied>>
  BY DEF Parser!Linked, Parser!memory
<1>2. TypesInv' /\ CacheInv' /\ RoomInv' /\ Sound(heap)' /\ AliveInv'
  BY <1>1 DEF LoadInv, TypesInv, CacheInv, RoomInv, AliveInv
<1>3. RootsInv'
  BY <1>1 DEF LoadInv, RootsInv, Held
<1>4. FramesInv'
  BY <1>1, NoFrames DEF LoadInv, FramesInv
<1> QED BY <1>2, <1>3, <1>4 DEF LoadInv

\* A reference is resolved: the node below it is in the cache on its own.
LEMMA LinkNodeKeeps ==
    ASSUME LoadInv, Parser!LinkNode
    PROVE  LoadInv'
<1>1. /\ stage = "link" /\ stage' \in {"link", "discard"}
      /\ UNCHANGED <<defs, proto, cache, live, corrupt, node, frames, denied>>
  BY DEF Parser!LinkNode
<1>2. Sound(heap) /\ Parser!IsSequence(heap) /\ DOMAIN heap = 1 .. Len(heap) /\ Len(heap) \in Nat
  BY ListParts DEF LoadInv, Sound
<1>3. Sound(heap') /\ DOMAIN heap' = DOMAIN heap /\ \A a \in DOMAIN heap : heap'[a].kind = heap[a].kind
  <2>1. CASE heap' = heap
    BY <1>2, <2>1
  <2>2. CASE heap' # heap
    <3> DEFINE open == {ptr \in Parser!Visited(Head(todo)) :
                           Parser!At(ptr).type \in Parser!Ref /\ Parser!At(ptr).sub = Parser!Null}
               Linked(a, k) == IF <<a, k>> \in open
                               THEN [heap[a].fields[k] EXCEPT !.sub = Parser!GetNodeByName(heap[a].fields[k].subName)]
                               ELSE heap[a].fields[k]
               AllLinked(a) == [k \in DOMAIN heap[a].fields |-> Linked(a, k)]
               g == [a \in DOMAIN heap |-> [heap[a] EXCEPT !.fields = AllLinked(a)]]
    <3>1. heap' = g
      BY <2>2 DEF Parser!LinkNode
    <3>2. ASSUME NEW a \in DOMAIN heap, NEW k \in DOMAIN heap[a].fields
          PROVE  /\ DOMAIN Linked(a, k) = DOMAIN heap[a].fields[k]
                 /\ \/ Linked(a, k) = heap[a].fields[k]
                    \/ /\ heap[a].fields[k].type \in Parser!Ref
                       /\ heap[a].kind # "enum" => Linked(a, k).type = heap[a].fields[k].type
      <4> DEFINE x == heap[a].fields[k]
                 z == [x EXCEPT !.sub = Parser!GetNodeByName(x.subName)]
      <4>1. CASE <<a, k>> \in open
        <5>1. x.type \in Parser!Ref /\ Linked(a, k) = z
          BY <4>1 DEF Parser!At
        <5>2. heap[a].kind # "enum" => DOMAIN x = FieldParts
          BY <1>2, <3>2 DEF Sound, Whole
        <5>3. DOMAIN z = DOMAIN x /\ (DOMAIN x = FieldParts => z.type = x.type)
          BY DEF FieldParts
        <5> HIDE DEF z, x, open, Linked
        <5> QED BY ONLY <5>1, <5>2, <5>3 DEF x
      <4>2. CASE <<a, k>> \notin open
        BY <4>2
      <4> QED BY <4>1, <4>2
    <3> HIDE DEF Linked
    <3>3. ASSUME NEW a \in DOMAIN heap
          PROVE  /\ DOMAIN g[a] = NodeParts /\ g[a].fields = AllLinked(a)
                 /\ \A x \in NodeParts : x # "fields" => g[a][x] = heap[a][x]
                 /\ Parser!IsSequence(AllLinked(a)) /\ Len(AllLinked(a)) = Len(heap[a].fields)
      <4>1. DOMAIN heap[a] = NodeParts /\ Parser!IsSequence(heap[a].fields)
        BY <1>2, <3>3 DEF Sound, Whole
      <4>2. DOMAIN heap[a].fields = 1 .. Len(heap[a].fields) /\ Len(heap[a].fields) \in Nat
        BY <4>1, ListParts
      <4> DEFINE l == AllLinked(a)
                 r == [heap[a] EXCEPT !.fields = l]
      <4>3. l = [k \in 1 .. Len(heap[a].fields) |-> l[k]]
        BY <4>2
      <4>4. g[a] = r
        BY <3>3
      <4> HIDE DEF l, AllLinked
      <4>5. Parser!IsSequence(l) /\ Len(l) = Len(heap[a].fields)
        BY ONLY <4>2, <4>3, ListMade
      <4>6. DOMAIN r = NodeParts /\ r.fields = l /\ \A x \in NodeParts : x # "fields" => r[x] = heap[a][x]
        BY <4>1 DEF NodeParts
      <4> HIDE DEF g, r
      <4> QED BY ONLY <4>4, <4>5, <4>6 DEF l
    <3>4. DOMAIN g = DOMAIN heap /\ g = [a \in 1 .. Len(heap) |-> g[a]]
      BY <1>2
    <3>5. \A a \in DOMAIN heap : DOMAIN AllLinked(a) = DOMAIN heap[a].fields /\ \A k \in DOMAIN heap[a].fields : AllLinked(a)[k] = Linked(a, k)
      OBVIOUS
    <3> HIDE DEF g, AllLinked
    <3>6. Parser!IsSequence(g)
      BY ONLY <1>2, <3>4, ListMade
    <3>7. ASSUME NEW a \in DOMAIN heap
          PROVE  /\ g[a].kind = heap[a].kind /\ g[a].size = heap[a].size
                 /\ g[a].vsize = heap[a].vsize /\ g[a].vfields = heap[a].vfields
      BY <3>3, <3>7 DEF NodeParts
    <3>8. ASSUME NEW a \in DOMAIN heap PROVE Whole(g[a]) /\ SameShape(g[a], heap[a])
      <4>1. Whole(heap[a])
        BY <1>2, <3>8 DEF Sound
      <4>2. heap[a].kind # "enum" => \A k \in DOMAIN heap[a].fields : DOMAIN Linked(a, k) = FieldParts
        BY <3>2, <3>8, <4>1 DEF Whole
      <4>3. /\ DOMAIN g[a] = NodeParts /\ g[a].fields = AllLinked(a)
            /\ Parser!IsSequence(AllLinked(a)) /\ Len(AllLinked(a)) = Len(heap[a].fields)
        BY <3>3, <3>8
      <4>4. /\ g[a].kind = heap[a].kind /\ g[a].size = heap[a].size
            /\ g[a].vsize = heap[a].vsize /\ g[a].vfields = heap[a].vfields
        BY <3>7, <3>8
      <4>5. DOMAIN AllLinked(a) = DOMAIN heap[a].fields /\ \A k \in DOMAIN heap[a].fields : AllLinked(a)[k] = Linked(a, k)
        BY <3>5, <3>8
      <4> QED BY ONLY <4>1, <4>2, <4>3, <4>4, <4>5 DEF Whole, SameShape
    <3>9. ASSUME NEW a \in DOMAIN heap, NEW k \in DOMAIN heap[a].fields PROVE Keeps(heap, g, a, k, k)
      <4>1. g[a].kind = heap[a].kind /\ g[a].fields[k] = Linked(a, k)
        BY <3>3, <3>5, <3>7, <3>9
      <4>2. CASE Linked(a, k) = heap[a].fields[k]
        BY ONLY <4>1, <4>2 DEF Keeps, Hangs, SubOf
      <4>3. CASE /\ heap[a].fields[k].type \in Parser!Ref
                 /\ heap[a].kind # "enum" => Linked(a, k).type = heap[a].fields[k].type
        BY ONLY <4>1, <4>3 DEF Keeps, Hangs, Parser!Ref, Parser!Owning
      <4> QED BY <3>2, <3>9, <4>2, <4>3
    <3>10. Rearranged(heap, g)
      <4>1. ASSUME NEW a \in DOMAIN heap
            PROVE  \E p : Permutes(p, DOMAIN heap[a].fields) /\ \A k \in DOMAIN heap[a].fields : Keeps(heap, g, a, p[k], k)
        BY ONLY <3>9, a \in DOMAIN heap, StaysInPlace
      <4> QED BY ONLY <3>4, <3>8, <4>1 DEF Rearranged
    <3>11. Sound(g)
      BY ONLY <1>2, <3>4, <3>6, <3>8, <3>10, SoundRearranged
    <3> QED BY ONLY <3>1, <3>4, <3>7, <3>11
  <2> QED BY <2>1, <2>2
<1>4. TypesInv' /\ CacheInv' /\ RoomInv' /\ AliveInv'
  BY <1>1, <1>3 DEF LoadInv, TypesInv, CacheInv, RoomInv, AliveInv
<1>5. ~Held /\ ~Held'
  BY <1>1 DEF Held
<1>6. RootsInv'
  BY <1>1, <1>3, <1>5 DEF LoadInv, RootsInv
<1>7. FramesInv'
  BY <1>1, NoFrames DEF LoadInv, FramesInv
<1> QED BY <1>3, <1>4, <1>6, <1>7 DEF LoadInv

-----------------------------------------------------------------------------
(* free_node *)

\* Where free_node goes on to the node below field k of node a, and the
\* addresses it frees, if f has those it frees from every other node.
GoesOn(a, k) ==
    /\ heap[a].kind \in Parser!Message
    /\ heap[a].fields[k].type \in Parser!Owning /\ heap[a].fields[k].sub # Parser!Null
BelowFreed(f, a) == [k \in 1 .. heap[a].size |-> IF GoesOn(a, k) THEN f[heap[a].fields[k].sub] ELSE <<>>]
Frees(f) == f = [a \in DOMAIN heap |-> Append(Parser!FlattenSeq(BelowFreed(f, a)), a)]
NodesBelow(a) == {SubOf(heap, a, k) : k \in {j \in DOMAIN heap[a].fields : Hangs(heap, a, j)}}

\* Without maps in oneofs it goes wherever there is an owned node, and no further.
LEMMA LeadsBelow ==
    ASSUME NoMapInOneof, Sound(heap), NEW a \in DOMAIN heap
    PROVE  /\ \A k \in 1 .. heap[a].size : GoesOn(a, k) => k \in DOMAIN heap[a].fields /\ Hangs(heap, a, k)
           /\ \A k \in DOMAIN heap[a].fields : Hangs(heap, a, k) => k \in 1 .. heap[a].size /\ GoesOn(a, k)
           /\ heap[a].size \in Nat
           /\ NodesBelow(a) \subseteq {b \in DOMAIN heap : heap[b].kind \in Parser!Owning}
           /\ heap[a].kind \in Parser!Owning =>
               NodesBelow(a) = {} /\ \A k \in DOMAIN heap[a].fields : ~Hangs(heap, a, k)
<1>1. /\ Whole(heap[a]) /\ DOMAIN heap[a].fields = 1 .. Len(heap[a].fields) /\ Len(heap[a].fields) \in Nat
  BY FieldsListed DEF Sound
<1>2. Parser!Null \notin DOMAIN heap
  BY ListParts DEF Sound, Parser!Null
<1>3. ASSUME NEW k \in 1 .. heap[a].size, GoesOn(a, k)
      PROVE  k \in DOMAIN heap[a].fields /\ Hangs(heap, a, k)
  <2>1. heap[a].kind # "enum" /\ Hangs(heap, a, k)
    BY <1>3 DEF GoesOn, Parser!Message, Hangs
  <2>2. heap[a].size \in {0, Len(heap[a].fields)}
    BY <1>1, <2>1 DEF Whole
  <2> QED BY <1>1, <2>1, <2>2
<1>4. ASSUME NEW k \in DOMAIN heap[a].fields, Hangs(heap, a, k)
      PROVE  /\ k \in 1 .. heap[a].size /\ GoesOn(a, k) /\ SubOf(heap, a, k) \in DOMAIN heap
             /\ heap[SubOf(heap, a, k)].kind \in Parser!Owning /\ heap[a].kind \notin Parser!Owning
  <2>1. /\ SubOf(heap, a, k) \in DOMAIN heap /\ heap[a].size = Len(heap[a].fields)
        /\ heap[SubOf(heap, a, k)].kind = heap[a].fields[k].type
    BY <1>4 DEF Sound, Hung
  <2>2. heap[a].fields[k].type \in Parser!Owning /\ heap[a].kind # "enum"
    BY <1>4 DEF Hangs
  <2>3. heap[a].kind \notin Parser!Owning
    BY <1>4 DEF Sound, Shallow
  <2>4. heap[a].kind \in Parser!Message
    BY <1>1, <2>2, <2>3 DEF Whole, Parser!Owning
  <2> QED BY <1>1, <1>2, <2>1, <2>2, <2>3, <2>4 DEF GoesOn, SubOf
<1>5. heap[a].size \in Nat
  BY <1>1 DEF Whole
<1>6. NodesBelow(a) \subseteq {b \in DOMAIN heap : heap[b].kind \in Parser!Owning}
  BY <1>4 DEF NodesBelow
<1>7. heap[a].kind \in Parser!Owning =>
          NodesBelow(a) = {} /\ \A k \in DOMAIN heap[a].fields : ~Hangs(heap, a, k)
  BY <1>4 DEF NodesBelow
<1> QED BY <1>3, <1>4, <1>5, <1>6, <1>7

\* So the recursion of free_node ends: what it frees is a function.
Nothing(n) == [k \in 1 .. n |-> <<>>]
LeafFreed == [a \in DOMAIN heap |-> Append(Parser!FlattenSeq(Nothing(heap[a].size)), a)]

LEMMA FreeExists ==
    ASSUME NoMapInOneof, Sound(heap)
    PROVE  \E f : Frees(f)
<1> DEFINE F == [a \in DOMAIN heap |-> Append(Parser!FlattenSeq(BelowFreed(LeafFreed, a)), a)]
<1>1. ASSUME NEW b \in DOMAIN heap, heap[b].kind \in Parser!Owning PROVE F[b] = LeafFreed[b]
  <2>1. \A k \in 1 .. heap[b].size : ~GoesOn(b, k)
    BY <1>1, LeadsBelow
  <2>2. BelowFreed(LeafFreed, b) = Nothing(heap[b].size)
    BY ONLY <2>1 DEF BelowFreed, Nothing
  <2> QED BY <2>2 DEF LeafFreed
<1> HIDE DEF F
<1>2. ASSUME NEW a \in DOMAIN heap PROVE BelowFreed(F, a) = BelowFreed(LeafFreed, a)
  <2>1. ASSUME NEW k \in 1 .. heap[a].size, GoesOn(a, k)
        PROVE  F[heap[a].fields[k].sub] = LeafFreed[heap[a].fields[k].sub]
    <3>1. k \in DOMAIN heap[a].fields /\ Hangs(heap, a, k)
      BY <2>1, LeadsBelow
    <3>2. SubOf(heap, a, k) \in NodesBelow(a)
      BY <3>1 DEF NodesBelow
    <3>3. SubOf(heap, a, k) \in DOMAIN heap /\ heap[SubOf(heap, a, k)].kind \in Parser!Owning
      BY <3>2, LeadsBelow
    <3> QED BY <1>1, <3>3 DEF SubOf
  <2> QED BY ONLY <2>1 DEF BelowFreed
<1>3. F = [a \in DOMAIN heap |-> Append(Parser!FlattenSeq(BelowFreed(F, a)), a)]
  <2>1. F = [a \in DOMAIN heap |-> Append(Parser!FlattenSeq(BelowFreed(LeafFreed, a)), a)]
    BY DEF F
  <2> QED BY ONLY <1>2, <2>1
<1> QED BY ONLY <1>3 DEF Frees

\* Sequences that are put one after the other.
LEMMA PiecesFlattened ==
    ASSUME NEW T, NEW n \in Nat, NEW s, s = [k \in 1 .. n |-> s[k]], \A k \in 1 .. n : s[k] \in Seq(T),
           Apart(s)
    PROVE  /\ Parser!FlattenSeq(s) \in Seq(T) /\ Once(Parser!FlattenSeq(s))
           /\ Elements(Parser!FlattenSeq(s)) = UNION {Elements(s[k]) : k \in 1 .. n}
<1>1. s \in Seq(Seq(T)) /\ DOMAIN s = 1 .. n
  OBVIOUS
<1>2. Parser!FlattenSeq(s) = FlattenSeq(s)
  BY DEF Parser!FlattenSeq, FlattenSeq
<1> QED BY <1>1, <1>2, FlattenedOnce

LEMMA NothingInIt == <<>> \in Seq(DOMAIN heap) /\ Once(<<>>) /\ Elements(<<>>) = {}
BY DEF Once, Elements

\* From a node it frees that node, and the nodes below it, once.
LEMMA FreeElements ==
    ASSUME NoMapInOneof, Sound(heap), NEW f, Frees(f), NEW a \in DOMAIN heap
    PROVE  f[a] \in Seq(DOMAIN heap) /\ Elements(f[a]) = {a} \cup NodesBelow(a) /\ Once(f[a])
<1> DEFINE Good(b) == /\ f[b] \in Seq(DOMAIN heap) /\ Elements(f[b]) = {b} \cup NodesBelow(b) /\ Once(f[b])
<1>1. \A b \in DOMAIN heap : f[b] = Append(Parser!FlattenSeq(BelowFreed(f, b)), b)
  <2>1. f = [b \in DOMAIN heap |-> Append(Parser!FlattenSeq(BelowFreed(f, b)), b)]
    BY DEF Frees
  <2> QED BY ONLY <2>1
<1>2. ASSUME NEW b \in DOMAIN heap,
             \A k \in 1 .. heap[b].size : GoesOn(b, k) => Good(SubOf(heap, b, k)) /\ NodesBelow(SubOf(heap, b, k)) = {}
      PROVE  Good(b)
  <2> DEFINE s == BelowFreed(f, b)
             n == heap[b].size
             t == Parser!FlattenSeq(s)
  <2>1. /\ n \in Nat
        /\ heap[b].kind \in Parser!Owning => NodesBelow(b) = {}
        /\ NodesBelow(b) \subseteq {c \in DOMAIN heap : heap[c].kind \in Parser!Owning}
        /\ \A k \in 1 .. n : GoesOn(b, k) => k \in DOMAIN heap[b].fields /\ Hangs(heap, b, k)
        /\ \A k \in DOMAIN heap[b].fields : Hangs(heap, b, k) => k \in 1 .. n /\ GoesOn(b, k)
    BY LeadsBelow
  <2>2. \A k \in 1 .. n : s[k] = IF GoesOn(b, k) THEN f[SubOf(heap, b, k)] ELSE <<>>
    BY DEF BelowFreed, SubOf
  <2>3. s = [k \in 1 .. n |-> s[k]] /\ DOMAIN s = 1 .. n
    BY DEF BelowFreed
  <2> HIDE DEF s, n, t
  <2>4. \A k \in 1 .. n : GoesOn(b, k) =>
            s[k] \in Seq(DOMAIN heap) /\ Once(s[k]) /\ Elements(s[k]) = {SubOf(heap, b, k)}
    BY <1>2, <2>2 DEF n
  <2>5. \A k \in 1 .. n : ~GoesOn(b, k) => s[k] \in Seq(DOMAIN heap) /\ Once(s[k]) /\ Elements(s[k]) = {}
    BY <2>2, NothingInIt
  <2>6. ASSUME NEW k \in 1 .. n, NEW j \in 1 .. n, k # j PROVE Elements(s[k]) \cap Elements(s[j]) = {}
    <3>1. CASE GoesOn(b, k) /\ GoesOn(b, j)
      <4>1. k \in DOMAIN heap[b].fields /\ Hangs(heap, b, k) /\ j \in DOMAIN heap[b].fields /\ Hangs(heap, b, j)
        BY <2>1, <3>1
      <4>2. SubOf(heap, b, k) # SubOf(heap, b, j)
        BY <2>6, <4>1 DEF Sound, HungOnce
      <4> QED BY <2>4, <3>1, <4>2
    <3> QED BY <2>5, <3>1
  <2>7. Apart(s)
    BY ONLY <2>3, <2>4, <2>5, <2>6 DEF Apart
  <2>8. t \in Seq(DOMAIN heap) /\ Once(t) /\ Elements(t) = UNION {Elements(s[k]) : k \in 1 .. n}
    <3>1. \A k \in 1 .. n : s[k] \in Seq(DOMAIN heap)
      BY ONLY <2>4, <2>5
    <3> QED BY ONLY <2>1, <2>3, <2>7, <3>1, PiecesFlattened DEF t
  <2>9. UNION {Elements(s[k]) : k \in 1 .. n} = NodesBelow(b)
    <3>1. UNION {Elements(s[k]) : k \in 1 .. n} = {SubOf(heap, b, k) : k \in {j \in 1 .. n : GoesOn(b, j)}}
      BY ONLY <2>4, <2>5
    <3> QED BY ONLY <2>1, <3>1 DEF NodesBelow
  <2>10. b \notin NodesBelow(b)
    BY ONLY <2>1
  <2>11. f[b] = Append(t, b)
    BY <1>1 DEF s, t
  <2>12. Append(t, b) \in Seq(DOMAIN heap) /\ Elements(Append(t, b)) = Elements(t) \cup {b} /\ Once(Append(t, b))
    <3>1. b \in DOMAIN heap /\ b \notin Elements(t)
      BY ONLY <1>2, <2>8, <2>9, <2>10
    <3> QED BY ONLY <2>8, <3>1, AppendedElements
  <2> QED BY ONLY <2>8, <2>9, <2>11, <2>12
<1>3. ASSUME NEW b \in DOMAIN heap, heap[b].kind \in Parser!Owning PROVE Good(b)
  <2>1. \A k \in 1 .. heap[b].size : ~GoesOn(b, k)
    BY <1>3, LeadsBelow
  <2> HIDE DEF Good
  <2> QED BY ONLY <1>2, <1>3, <2>1
<1>4. \A k \in 1 .. heap[a].size : GoesOn(a, k) => Good(SubOf(heap, a, k)) /\ NodesBelow(SubOf(heap, a, k)) = {}
  <2> SUFFICES ASSUME NEW k \in 1 .. heap[a].size, GoesOn(a, k)
               PROVE  Good(SubOf(heap, a, k)) /\ NodesBelow(SubOf(heap, a, k)) = {}
    BY Zenon
  <2>1. k \in DOMAIN heap[a].fields /\ Hangs(heap, a, k)
    BY LeadsBelow
  <2>2. SubOf(heap, a, k) \in NodesBelow(a)
    BY <2>1 DEF NodesBelow
  <2>3. SubOf(heap, a, k) \in DOMAIN heap /\ heap[SubOf(heap, a, k)].kind \in Parser!Owning
    BY <2>2, LeadsBelow
  <2>4. NodesBelow(SubOf(heap, a, k)) = {}
    BY <2>3, LeadsBelow
  <2> HIDE DEF Good
  <2> QED BY ONLY <1>3, <2>3, <2>4
<1> HIDE DEF Good
<1>5. Good(a)
  BY ONLY <1>2, <1>4, a \in DOMAIN heap
<1> QED BY <1>5 DEF Good

LEMMA FreedElements ==
    ASSUME NoMapInOneof, Sound(heap), NEW a \in DOMAIN heap
    PROVE  LET s == Parser!Freed(a) IN s \in Seq(DOMAIN heap) /\ Elements(s) = {a} \cup NodesBelow(a) /\ Once(s)
<1>1. PICK f : Frees(f) /\ Parser!Freed(a) = f[a]
  <2>1. \E f : Frees(f)
    BY FreeExists
  <2> QED BY <2>1 DEF Frees, BelowFreed, GoesOn, Parser!Freed
<1> QED BY <1>1, FreeElements

\* A sequence without repetitions is as long as its set is large.
LEMMA OnceCounted ==
    ASSUME NEW T, NEW s \in Seq(T), Once(s)
    PROVE  Cardinality(Elements(s)) = Len(s) /\ Parser!ToSet(s) = Elements(s)
<1> DEFINE D == 1 .. Len(s)
           f == [k \in D |-> s[k]]
<1>1. DOMAIN s = D /\ Len(s) \in Nat
  OBVIOUS
<1>2. IsFiniteSet(D) /\ Cardinality(D) = Len(s)
  BY <1>1, FS_Interval
<1>3. ExistsBijection(D, Elements(s))
  <2>1. f \in Bijection(D, Elements(s))
    BY <1>1 DEF Bijection, Injection, Surjection, IsInjective, Elements, Once
  <2> QED BY <2>1 DEF ExistsBijection
<1>4. Cardinality(Elements(s)) = Cardinality(D)
  <2> HIDE DEF D, f
  <2> QED BY ONLY <1>2, <1>3, FS_Bijection
<1> QED BY <1>2, <1>4 DEF Parser!ToSet, Elements

\* All nodes are freed, each once, when those of the definitions are.
Listed == {a \in DOMAIN heap : heap[a].kind \notin Parser!Owning}

LEMMA AllFreed ==
    ASSUME NoMapInOneof, Sound(heap), live = DOMAIN heap, ~corrupt,
           NEW nodes, Parser!IsSequence(nodes), Once(nodes), Elements(nodes) = Listed, Parser!Release(nodes)
    PROVE  live' = {} /\ ~corrupt'
<1> DEFINE n == Len(nodes)
           s == [k \in DOMAIN nodes |-> Parser!Freed(nodes[k])]
           freed == Parser!FlattenSeq(s)
<1>1. n \in Nat /\ DOMAIN nodes = 1 .. n
  BY ListParts
<1>2. s = [k \in 1 .. n |-> s[k]] /\ DOMAIN s = 1 .. n /\ \A k \in 1 .. n : s[k] = Parser!Freed(nodes[k])
  BY <1>1
<1>3. \A k \in 1 .. n : nodes[k] \in DOMAIN heap /\ heap[nodes[k]].kind \notin Parser!Owning
  BY <1>1 DEF Elements, Listed
<1> HIDE DEF s, n
<1>4. \A k \in 1 .. n : /\ s[k] \in Seq(DOMAIN heap) /\ Once(s[k])
                        /\ Elements(s[k]) = {nodes[k]} \cup NodesBelow(nodes[k])
  BY <1>2, <1>3, FreedElements
<1>5. \A a, b \in DOMAIN heap : a # b => NodesBelow(a) \cap NodesBelow(b) = {}
  BY DEF NodesBelow, Sound, HungOnce
<1>6. \A a \in DOMAIN heap : \A b \in NodesBelow(a) : b \in DOMAIN heap /\ heap[b].kind \in Parser!Owning
  BY LeadsBelow
<1>7. ASSUME NEW k \in 1 .. n, NEW j \in 1 .. n, k # j PROVE Elements(s[k]) \cap Elements(s[j]) = {}
  <2>1. nodes[k] # nodes[j]
    BY <1>1, <1>7 DEF Once
  <2>2. NodesBelow(nodes[k]) \cap NodesBelow(nodes[j]) = {}
    BY <1>3, <1>5, <2>1
  <2>3. nodes[k] \notin NodesBelow(nodes[j]) /\ nodes[j] \notin NodesBelow(nodes[k])
    BY <1>3, <1>6
  <2>4. Elements(s[k]) = {nodes[k]} \cup NodesBelow(nodes[k]) /\ Elements(s[j]) = {nodes[j]} \cup NodesBelow(nodes[j])
    BY <1>4
  <2> QED BY ONLY <2>1, <2>2, <2>3, <2>4
<1>8. Apart(s)
  BY ONLY <1>2, <1>4, <1>7 DEF Apart
<1>9. freed \in Seq(DOMAIN heap) /\ Once(freed) /\ Elements(freed) = UNION {Elements(s[k]) : k \in 1 .. n}
  <2> DEFINE T == DOMAIN heap
  <2>1. \A k \in 1 .. n : s[k] \in Seq(T)
    BY <1>4
  <2>2. s = [k \in 1 .. n |-> s[k]] /\ n \in Nat
    BY ONLY <1>1, <1>2
  <2> HIDE DEF T
  <2>3. /\ Parser!FlattenSeq(s) \in Seq(T) /\ Once(Parser!FlattenSeq(s))
        /\ Elements(Parser!FlattenSeq(s)) = UNION {Elements(s[k]) : k \in 1 .. n}
    BY ONLY <1>8, <2>1, <2>2, PiecesFlattened
  <2> QED BY <2>3 DEF T
<1>10. UNION {Elements(s[k]) : k \in 1 .. n} = DOMAIN heap
  <2>1. \A k \in 1 .. n : Elements(s[k]) \subseteq DOMAIN heap
    BY <1>3, <1>4, <1>6
  <2>2. ASSUME NEW a \in Listed PROVE \E k \in 1 .. n : nodes[k] = a
    BY <1>1 DEF Elements
  <2>3. ASSUME NEW b \in DOMAIN heap PROVE \E k \in 1 .. n : b \in Elements(s[k])
    <3>1. CASE heap[b].kind \notin Parser!Owning
      BY <1>4, <2>2, <3>1 DEF Listed
    <3>2. CASE heap[b].kind \in Parser!Owning
      <4>1. PICK a \in DOMAIN heap : \E k \in DOMAIN heap[a].fields : Hangs(heap, a, k) /\ SubOf(heap, a, k) = b
        BY <3>2 DEF Sound, AllHung
      <4>2. b \in NodesBelow(a)
        BY <4>1 DEF NodesBelow
      <4>3. heap[a].kind \notin Parser!Owning
        BY <4>2, LeadsBelow
      <4>4. PICK k \in 1 .. n : nodes[k] = a
        BY <2>2, <4>3 DEF Listed
      <4> QED BY <1>4, <4>2, <4>4
    <3> QED BY <3>1, <3>2
  <2> QED BY <2>1, <2>3
<1>11. Cardinality(Elements(freed)) = Len(freed) /\ Parser!ToSet(freed) = Elements(freed)
  <2> HIDE DEF freed
  <2> QED BY ONLY <1>9, OnceCounted
<1>12. Len(freed) \in Nat
  BY <1>9
<1>13. /\ live' = live \ Parser!ToSet(freed)
       /\ corrupt' = (corrupt \/ ~(Parser!ToSet(freed) \subseteq live)
                              \/ Parser!Cardinality(Parser!ToSet(freed)) < Len(freed))
  BY DEF Parser!Release, s
<1> HIDE DEF freed
<1>14. Parser!ToSet(freed) = DOMAIN heap
  BY ONLY <1>9, <1>10, <1>11
<1>15. Parser!Cardinality(Parser!ToSet(freed)) = Len(freed)
  <2>1. Parser!Cardinality(Parser!ToSet(freed)) = Cardinality(Parser!ToSet(freed))
    BY SameCardinality
  <2>2. Cardinality(Parser!ToSet(freed)) = Cardinality(Elements(freed))
    BY ONLY <1>11, Zenon
  <2> QED BY ONLY <1>11, <2>1, <2>2
<1>16. ~(Parser!Cardinality(Parser!ToSet(freed)) < Len(freed))
  BY ONLY <1>12, <1>15
<1>17. live' = {}
  BY ONLY <1>13, <1>14, live = DOMAIN heap
<1>18. Parser!ToSet(freed) \subseteq live
  BY ONLY <1>14, live = DOMAIN heap
<1> QED BY ONLY <1>13, <1>16, <1>17, <1>18, ~corrupt, Zenon

\* Releasing the nodes of the definitions ends the load.
LEMMA Releases ==
    ASSUME LoadInv, stage \notin {"failed", "destroyed"}, stage' \in {"failed", "destroyed"},
           NEW nodes, Parser!IsSequence(nodes), Once(nodes), Elements(nodes) = Listed, Parser!Release(nodes),
           UNCHANGED <<defs, todo, proto, proto3, node, frames, denied>>, frames = <<>>
    PROVE  LoadInv'
<1>1. /\ heap' = heap /\ cache' = Parser!NoCache /\ live' \subseteq live
  BY DEF Parser!Release
<1>2. corrupt' \in BOOLEAN
  <2>1. corrupt' \in {TRUE, FALSE}
    BY Zenon DEF Parser!Release
  <2> QED BY <2>1
<1>3. Sound(heap) /\ live = DOMAIN heap /\ ~corrupt
  BY DEF LoadInv, AliveInv
<1>4. NoMapInOneof => live' = {} /\ ~corrupt'
  BY <1>3, AllFreed
<1>5. TypesInv'
  BY <1>1, <1>2 DEF LoadInv, TypesInv
<1>6. CacheInv'
  <2>1. DOMAIN Parser!NoCache = {"size", "ids", "names"} /\ Parser!NoCache.ids = <<>> /\ Parser!NoCache.size = 0
    BY DEF Parser!NoCache
  <2>2. Parser!IsSequence(<<>>) /\ Len(<<>>) = 0 /\ DOMAIN <<>> = {}
    BY DEF Parser!IsSequence
  <2> QED BY <1>1, <2>1, <2>2 DEF CacheInv
<1>7. RoomInv' /\ RootsInv' /\ Sound(heap)' /\ AliveInv'
  BY <1>1, <1>3, <1>4 DEF RoomInv, RootsInv, AliveInv
<1>8. FramesInv'
  BY NoFrames
<1> QED BY <1>5, <1>6, <1>7, <1>8 DEF LoadInv

LEMMA UnwindKeeps ==
    ASSUME LoadInv, Parser!Unwind
    PROVE  LoadInv'
<1> DEFINE nodes == IF node = Parser!Null THEN cache.ids ELSE <<node>> \o cache.ids
<1>1. /\ stage = "unwind" /\ stage' = "failed" /\ Parser!Release(nodes)
      /\ UNCHANGED <<defs, todo, proto, proto3, node, frames, denied>>
  BY DEF Parser!Unwind
<1>2. frames = <<>>
  BY <1>1 DEF LoadInv, FramesInv
<1>3. /\ Parser!IsSequence(cache.ids) /\ Once(cache.ids) /\ node \in {Parser!Null} \cup DOMAIN heap
      /\ Elements(cache.ids) \subseteq DOMAIN heap
  BY DEF LoadInv, CacheInv, TypesInv, Once, Elements
<1>4. /\ \A a \in DOMAIN heap : a \in Listed <=> (a \in Elements(cache.ids) \/ (node # Parser!Null /\ a = node))
      /\ node # Parser!Null => node \notin Elements(cache.ids)
  BY <1>1 DEF LoadInv, RootsInv, Listed, Held, Elements
<1>5. Parser!IsSequence(nodes) /\ Once(nodes) /\ Elements(nodes) = Listed
  <2>1. CASE node = Parser!Null
    BY <1>3, <1>4, <2>1 DEF Listed
  <2>2. CASE node # Parser!Null
    <3> DEFINE T == DOMAIN heap
               u == <<node>>
    <3>1. node \in T
      BY <1>3, <2>2
    <3>2. cache.ids \in Seq(T)
      BY <1>3, ListParts DEF Elements
    <3>3. u \in Seq(T) /\ Once(u) /\ Elements(u) = {node}
      BY <3>1 DEF Once, Elements
    <3> HIDE DEF T, u
    <3>4. u \o cache.ids \in Seq(T) /\ Elements(u \o cache.ids) = {node} \cup Elements(cache.ids)
      BY ONLY <3>2, <3>3, JoinedElements, Joined
    <3>5. Once(u \o cache.ids)
      <4>1. Elements(u) \cap Elements(cache.ids) = {}
        BY <1>4, <2>2, <3>3
      <4> QED BY ONLY <1>3, <3>2, <3>3, <4>1, JoinedElements
    <3>6. nodes = u \o cache.ids
      BY <2>2 DEF u
    <3> HIDE DEF nodes
    <3>7. Parser!IsSequence(nodes)
      <4>1. nodes \in Seq(T)
        BY ONLY <3>4, <3>6
      <4>2. Len(nodes) \in Nat /\ nodes = [k \in 1 .. Len(nodes) |-> nodes[k]]
        BY ONLY <4>1
      <4> QED BY ONLY <4>2, ListMade
    <3>8. Elements(nodes) = Listed
      <4>1. Elements(nodes) = {node} \cup Elements(cache.ids)
        BY ONLY <3>4, <3>6
      <4> QED BY <1>3, <1>4, <2>2, <3>1, <4>1 DEF Listed, T
    <3> QED BY <3>5, <3>6, <3>7, <3>8
  <2> QED BY <2>1, <2>2
<1> HIDE DEF nodes
<1>6. stage \notin {"failed", "destroyed"} /\ stage' \in {"failed", "destroyed"}
  BY <1>1
<1> QED BY ONLY LoadInv, <1>1, <1>2, <1>5, <1>6, Releases

LEMMA CacheReleased ==
    ASSUME LoadInv, stage \in {"discard", "loaded"}, stage' \in {"failed", "destroyed"},
           Parser!Release(cache.ids), UNCHANGED <<defs, todo, proto, proto3, node, frames, denied>>
    PROVE  LoadInv'
<1>1. frames = <<>> /\ stage \notin {"failed", "destroyed"}
  BY DEF LoadInv, FramesInv
<1> DEFINE nodes == cache.ids
<1>2. Parser!IsSequence(nodes) /\ Once(nodes) /\ Elements(nodes) \subseteq DOMAIN heap
  BY DEF LoadInv, CacheInv, Once, Elements
<1>3. \A a \in DOMAIN heap : a \in Listed <=> a \in Elements(nodes)
  BY DEF LoadInv, RootsInv, Listed, Held, Elements
<1>4. Elements(nodes) = Listed
  BY <1>2, <1>3 DEF Listed
<1>5. /\ stage' \in {"failed", "destroyed"} /\ Parser!Release(nodes)
      /\ UNCHANGED <<defs, todo, proto, proto3, node, frames, denied>>
  OBVIOUS
<1> HIDE DEF nodes
<1> QED BY ONLY LoadInv, <1>1, <1>2, <1>4, <1>5, Releases

LEMMA DiscardKeeps ==
    ASSUME LoadInv, Parser!Discard
    PROVE  LoadInv'
BY CacheReleased DEF Parser!Discard

LEMMA DestroyKeeps ==
    ASSUME LoadInv, Parser!Destroy
    PROVE  LoadInv'
BY CacheReleased DEF Parser!Destroy

-----------------------------------------------------------------------------
(* The whole load *)

LEMMA StartHolds ==
    ASSUME LoadInit
    PROVE  LoadInv
<1>1. /\ defs \in DefLists /\ stage = "count" /\ proto = 2 /\ cache = Parser!NoCache /\ heap = <<>> /\ live = {}
      /\ corrupt = FALSE /\ node = Parser!Null /\ frames = <<>> /\ denied = FALSE
  BY DEF LoadInit, Parser!Init
<1>2. Parser!IsSequence(<<>>) /\ Len(<<>>) = 0 /\ DOMAIN <<>> = {}
  BY DEF Parser!IsSequence
<1>3. TypesInv
  BY <1>1 DEF TypesInv
<1>4. CacheInv
  <2>1. /\ DOMAIN Parser!NoCache = {"size", "ids", "names"}
        /\ Parser!NoCache.ids = <<>> /\ Parser!NoCache.size = 0
    BY DEF Parser!NoCache
  <2> QED BY <1>1, <1>2, <2>1 DEF CacheInv
<1>5. RoomInv
  BY <1>1 DEF RoomInv
<1>6. Sound(heap)
  BY <1>1, <1>2 DEF Sound, Hung, HungOnce, AllHung, Shallow
<1>7. RootsInv
  BY <1>1, <1>2 DEF RootsInv, Held
<1>8. AliveInv
  BY <1>1, <1>2 DEF AliveInv
<1>9. FramesInv
  BY <1>1, <1>2 DEF FramesInv
<1> QED BY <1>3, <1>4, <1>5, <1>6, <1>7, <1>8, <1>9 DEF LoadInv

LEMMA ParserKeeps ==
    ASSUME LoadInv, Parser!Next
    PROVE  LoadInv'
<1>1. CASE Parser!Count \/ Parser!Create
  BY <1>1, CountKeeps, CreateKeeps
<1>2. CASE Parser!SkipHeader \/ Parser!Skip
  BY <1>2, SkipKeeps
<1>3. CASE Parser!StartNode \/ Parser!Insert
  BY <1>3, StartNodeKeeps, InsertKeeps
<1>4. CASE Parser!ParseField \/ Parser!ParseBadItem
  BY <1>4, ParseFieldKeeps, ParseBadItemKeeps
<1>5. CASE Parser!EnterMap \/ Parser!LeaveMap
  BY <1>5, EnterMapKeeps, LeaveMapKeeps
<1>6. CASE Parser!EnterOneof \/ Parser!LeaveOneof
  BY <1>6, EnterOneofKeeps, LeaveOneofKeeps
<1>7. CASE Parser!CloseOneof \/ Parser!CloseMessage \/ Parser!ParseEnum
  BY <1>7, CloseOneofKeeps, CloseMessageKeeps, ParseEnumKeeps
<1>8. CASE Parser!Sort \/ Parser!RefuseTail \/ Parser!LinkNode \/ Parser!Linked
  BY <1>8, SortKeeps, LinkNodeKeeps, LinkedKeeps
<1>9. CASE Parser!Unwind \/ Parser!Discard \/ Parser!Destroy
  BY <1>9, UnwindKeeps, DiscardKeeps, DestroyKeeps
<1> QED BY ONLY Parser!Next, <1>1, <1>2, <1>3, <1>4, <1>5, <1>6, <1>7, <1>8, <1>9 DEF Parser!Next

LEMMA RestKeeps ==
    ASSUME LoadInv, UNCHANGED loading
    PROVE  LoadInv'
<1>1. UNCHANGED <<defs, stage, todo, proto, proto3, cache, heap, live, corrupt, node, frames, denied>>
  BY DEF loading
<1>2. TypesInv' /\ CacheInv' /\ Sound(heap)' /\ AliveInv' /\ RootsInv'
  BY <1>1 DEF LoadInv, TypesInv, CacheInv, AliveInv, RootsInv, Held
<1>3. RoomInv'
  BY <1>1 DEF LoadInv, RoomInv, Unread, Parser!Definitions
<1>4. FramesInv'
  BY <1>1 DEF LoadInv, FramesInv
<1> QED BY <1>2, <1>3, <1>4 DEF LoadInv

LEMMA StepKeeps == LoadInv /\ [LoadNext]_<<vars, loading>> => LoadInv'
<1> SUFFICES ASSUME LoadInv, [LoadNext]_<<vars, loading>> PROVE LoadInv'
  OBVIOUS
<1>1. CASE Parse
  BY <1>1, ParserKeeps DEF Parse
<1>2. CASE Walk \/ Codec
  BY <1>2, RestKeeps DEF Walk, Codec
<1>3. CASE Destroy
  BY <1>3, DestroyKeeps DEF Destroy
<1>4. CASE UNCHANGED <<vars, loading>>
  BY <1>4, RestKeeps
<1> QED BY ONLY [LoadNext]_<<vars, loading>>, <1>1, <1>2, <1>3, <1>4 DEF LoadNext

\* Every state a load can reach satisfies the invariant.
THEOREM LoadInvariance == LoadSpec => []LoadInv
<1>1. LoadInit => LoadInv
  BY StartHolds
<1> QED BY <1>1, StepKeeps, PTL DEF LoadSpec

\* An exception is pending or is not.
RaisedInv == raised \in BOOLEAN

\* Each action of the parser keeps it so.
LEMMA RaisedKeeps ==
    ASSUME RaisedInv, Parser!Next
    PROVE  RaisedInv'
<1> USE DEF RaisedInv, Parser!Fail, Parser!FailHere, Parser!Denied
<1>1. CASE Parser!Count \/ Parser!Create \/ Parser!RefuseTail \/ Parser!Sort \/ Parser!LinkNode
  BY <1>1 DEF Parser!Count, Parser!Create, Parser!RefuseTail, Parser!Sort, Parser!LinkNode
<1>2. CASE \/ Parser!SkipHeader \/ Parser!Skip \/ Parser!Insert \/ Parser!Linked
           \/ Parser!Unwind \/ Parser!Discard \/ Parser!Destroy
  BY <1>2 DEF Parser!SkipHeader, Parser!Skip, Parser!Insert, Parser!Linked,
              Parser!Unwind, Parser!Discard, Parser!Destroy
<1>3. CASE Parser!StartNode \/ Parser!EnterMap \/ Parser!EnterOneof
  BY <1>3 DEF Parser!StartNode, Parser!EnterMap, Parser!EnterOneof, Parser!Enter
<1>4. CASE Parser!ParseField \/ Parser!LeaveMap \/ Parser!LeaveOneof \/ Parser!ParseBadItem
  BY <1>4 DEF Parser!ParseField, Parser!LeaveMap, Parser!LeaveOneof, Parser!ParseBadItem, Parser!OptionsRead
<1>5. CASE Parser!CloseOneof \/ Parser!CloseMessage \/ Parser!ParseEnum
  BY <1>5 DEF Parser!CloseOneof, Parser!CloseMessage, Parser!ParseEnum, Parser!Closed
<1> QED BY ONLY Parser!Next, <1>1, <1>2, <1>3, <1>4, <1>5 DEF Parser!Next

\* It is a Boolean in every state of a load.
LEMMA RaisedTyped == LoadSpec => []RaisedInv
<1>1. LoadInit => RaisedInv
  BY DEF LoadInit, Parser!Init, RaisedInv
<1>2. ASSUME RaisedInv, Parser!Next PROVE RaisedInv'
  BY <1>2, RaisedKeeps
<1>3. Parser!Destroy => Parser!Next
  BY DEF Parser!Next
<1>4. RaisedInv /\ [LoadNext]_<<vars, loading>> => RaisedInv'
  BY <1>2, <1>3 DEF LoadNext, Parse, Walk, Codec, Destroy, loading, RaisedInv
<1> QED BY <1>1, <1>4, PTL DEF LoadSpec

\* Whatever the definition list, and wherever memory runs out, parse_msg_fields
\* and parse_oneof_fields write no field and no entry of v_fields past the end
\* of the array they allocated for it.
THEOREM ParserInsideArrays == LoadSpec => []InsideArrays
<1>1. ASSUME LoadInv, RaisedInv PROVE InsideArrays
  <2>1. live \subseteq DOMAIN heap
    BY <1>1 DEF LoadInv, AliveInv
  <2>2. \A k \in DOMAIN frames : frames[k].node \in DOMAIN heap
                                 /\ Len(frames[k].items) <= Len(heap[frames[k].node].fields)
    BY <1>1 DEF LoadInv, FramesInv, Calls
  <2>3. \A a \in DOMAIN heap : heap[a].vfields # <<>> => Len(heap[a].vfields) = heap[a].vsize
    BY <1>1 DEF LoadInv, Sound, Whole
  <2>4. Parser!TypeOK
    BY <1>1, <2>1, <2>2 DEF LoadInv, TypesInv, CacheInv, RaisedInv, Parser!TypeOK
  <2>5. Parser!InsideArrays
    BY <2>1, <2>2, <2>3 DEF Parser!InsideArrays
  <2> QED BY <2>4, <2>5 DEF InsideArrays
<1> QED BY <1>1, LoadInvariance, RaisedTyped, PTL

\* Protobuf has no map in a oneof.  Where the list keeps to that, a load that
\* fails at any definition, item, allocation or name, and the destruction of a
\* loaded cache, leave no node behind and free none twice.
THEOREM ParserLeaksNothing == ASSUME NoMapInOneof PROVE LoadSpec => []NothingLeaks
<1>1. ASSUME LoadInv PROVE NothingLeaks
  BY <1>1 DEF LoadInv, AliveInv, NothingLeaks, Parser!NothingLeaks
<1> QED BY <1>1, LoadInvariance, PTL

\* The three ways of owning a node, as OneOwner counts them.
FieldsOf(n) == IF heap[n].kind = "enum" THEN {} ELSE DOMAIN heap[n].fields
OwnedBy(m, k, n) == Parser!At(<<m, k>>).type \in {"map", "oneof"} /\ Parser!At(<<m, k>>).sub = n
HangingFrom(n) == UNION {{<<m, k>> : k \in {j \in FieldsOf(m) : OwnedBy(m, j, n)}} : m \in live}
InsertedAt(n) == {k \in DOMAIN cache.ids : cache.ids[k] = n}
HeldNode(n) == IF node = n /\ stage \in {"fields", "unwind"} THEN {n} ELSE {}

LEMMA SmallSets == Cardinality({}) = 0 /\ \A x : Cardinality({x}) = 1
BY FS_EmptySet, FS_Singleton

LEMMA Owners ==
    ASSUME LoadInv, NEW n \in live, live = DOMAIN heap, stage \notin {"failed", "destroyed"}
    PROVE  Cardinality(HangingFrom(n)) + Cardinality(InsertedAt(n)) + Cardinality(HeldNode(n)) = 1
<1>1. Sound(heap) /\ n \in DOMAIN heap
  BY DEF LoadInv
<1>2. \A m, k : OwnedBy(m, k, n) <=> (heap[m].fields[k].type \in Parser!Owning /\ SubOf(heap, m, k) = n)
  BY DEF OwnedBy, Parser!At, SubOf, Parser!Owning
<1>3. \A m \in DOMAIN heap : \A k :
          k \in FieldsOf(m) /\ OwnedBy(m, k, n) <=>
              k \in DOMAIN heap[m].fields /\ Hangs(heap, m, k) /\ SubOf(heap, m, k) = n
  BY ONLY <1>2 DEF FieldsOf, Hangs
<1>4. \A q : q \in HangingFrom(n) <=>
          \E m \in DOMAIN heap : \E k \in DOMAIN heap[m].fields :
              q = <<m, k>> /\ Hangs(heap, m, k) /\ SubOf(heap, m, k) = n
  BY ONLY <1>3, live = DOMAIN heap DEF HangingFrom
<1>5. \A a \in DOMAIN heap :
          heap[a].kind \notin Parser!Owning <=> (a \in {cache.ids[k] : k \in DOMAIN cache.ids} \/ (Held /\ a = node))
  BY DEF LoadInv, RootsInv
<1>6. Held => \A k \in DOMAIN cache.ids : cache.ids[k] # node
  BY DEF LoadInv, RootsInv
<1>7. \A j, k \in DOMAIN cache.ids : cache.ids[j] = cache.ids[k] => j = k
  BY DEF LoadInv, CacheInv
<1>8. n # Parser!Null
  BY <1>1, ListParts DEF Sound, Parser!Null
<1>9. HeldNode(n) = IF Held /\ n = node THEN {n} ELSE {}
  BY <1>8 DEF HeldNode, Held
<1>10. CASE heap[n].kind \in Parser!Owning
  <2>1. InsertedAt(n) = {} /\ HeldNode(n) = {}
    BY <1>1, <1>5, <1>9, <1>10 DEF InsertedAt
  <2>2. PICK a \in DOMAIN heap : \E k \in DOMAIN heap[a].fields : Hangs(heap, a, k) /\ SubOf(heap, a, k) = n
    BY <1>1, <1>10 DEF Sound, AllHung
  <2>3. PICK k \in DOMAIN heap[a].fields : Hangs(heap, a, k) /\ SubOf(heap, a, k) = n
    BY <2>2
  <2>4. \A m \in DOMAIN heap : \A j \in DOMAIN heap[m].fields :
            Hangs(heap, m, j) /\ SubOf(heap, m, j) = n => m = a /\ j = k
    BY <1>1, <2>3 DEF Sound, HungOnce
  <2>5. HangingFrom(n) = {<<a, k>>}
    BY ONLY <1>4, <2>2, <2>3, <2>4
  <2> HIDE DEF HangingFrom, InsertedAt, HeldNode
  <2>6. Cardinality(HangingFrom(n)) = 1 /\ Cardinality(InsertedAt(n)) = 0 /\ Cardinality(HeldNode(n)) = 0
    BY ONLY <2>1, <2>5, SmallSets, Zenon
  <2> QED BY ONLY <2>6
<1>11. CASE heap[n].kind \notin Parser!Owning
  <2>1. HangingFrom(n) = {}
    <3>1. \A m \in DOMAIN heap : \A k \in DOMAIN heap[m].fields : ~(Hangs(heap, m, k) /\ SubOf(heap, m, k) = n)
      BY <1>1, <1>11 DEF Sound, Hung, Hangs
    <3> QED BY ONLY <1>4, <3>1
  <2>2. Cardinality(HangingFrom(n)) = 0
    BY ONLY <2>1, SmallSets, Zenon
  <2>3. CASE Held /\ n = node
    <3>1. InsertedAt(n) = {} /\ HeldNode(n) = {n}
      BY <1>6, <1>9, <2>3 DEF InsertedAt
    <3>2. Cardinality(InsertedAt(n)) = 0 /\ Cardinality(HeldNode(n)) = 1
      BY ONLY <3>1, SmallSets, Zenon
    <3> QED BY ONLY <2>2, <3>2
  <2>4. CASE ~(Held /\ n = node)
    <3>1. PICK k \in DOMAIN cache.ids : cache.ids[k] = n
      BY <1>1, <1>5, <1>11, <2>4
    <3>2. InsertedAt(n) = {k}
      BY <1>7, <3>1 DEF InsertedAt
    <3>3. HeldNode(n) = {}
      BY <1>9, <2>4
    <3>4. Cardinality(InsertedAt(n)) = 1 /\ Cardinality(HeldNode(n)) = 0
      BY ONLY <3>2, <3>3, SmallSets, Zenon
    <3> QED BY ONLY <2>2, <3>4
  <2> QED BY <2>3, <2>4
<1> QED BY <1>10, <1>11

\* Under the same condition every node a load has made has one owner at any
\* time: the cache, parse_node's variable, or the field of a map or oneof.
THEOREM NodesHaveOneOwner == ASSUME NoMapInOneof PROVE LoadSpec => []OneOwner
<1>1. ASSUME LoadInv PROVE OneOwner
  <2> SUFFICES ASSUME NEW n \in live
               PROVE  Parser!Cardinality(HangingFrom(n)) + Parser!Cardinality(InsertedAt(n))
                          + Parser!Cardinality(HeldNode(n)) = 1
    BY DEF OneOwner, Parser!OneOwner, HangingFrom, InsertedAt, HeldNode, FieldsOf, OwnedBy
  <2>1. live = DOMAIN heap /\ stage \notin {"failed", "destroyed"}
    BY <1>1 DEF LoadInv, AliveInv
  <2> HIDE DEF HangingFrom, InsertedAt, HeldNode
  <2>2. Cardinality(HangingFrom(n)) + Cardinality(InsertedAt(n)) + Cardinality(HeldNode(n)) = 1
    BY <1>1, <2>1, Owners
  <2> QED BY ONLY <2>2, SameCardinality
<1> QED BY <1>1, LoadInvariance, PTL

-----------------------------------------------------------------------------
(* What the fields of nodes refer to *)

\* A field refers to nothing, owns the node below it, or refers to one that
\* no field owns; an alternative of a oneof is no oneof.
Suits(h, kind, f) ==
    /\ \/ f.type \in Parser!Owning
       \/ f.sub = Parser!Null
       \/ f.sub \in DOMAIN h /\ h[f.sub].kind \notin Parser!Owning
    /\ kind = "oneof" => f.type # "oneof"
Referred(h) ==
    \A a \in DOMAIN h : h[a].kind # "enum" => \A k \in DOMAIN h[a].fields : Suits(h, h[a].kind, h[a].fields[k])
NamesInv ==
    /\ Parser!IsSequence(cache.names)
    /\ \A k \in DOMAIN cache.names : \E j \in DOMAIN cache.ids : cache.names[k] = cache.ids[j]
RefInv == Referred(heap) /\ NamesInv

\* Nodes stay what they are, so that only new references matter.
LEMMA StaysReferred ==
    ASSUME NEW h, NEW g, DOMAIN h \subseteq DOMAIN g, \A b \in DOMAIN h : g[b].kind = h[b].kind,
           \A a \in DOMAIN g : g[a].kind # "enum" => \A k \in DOMAIN g[a].fields : Suits(h, g[a].kind, g[a].fields[k])
    PROVE  Referred(g)
BY DEF Referred, Suits

\* A field that is still blank suits any node.
LEMMA BlankSuits ==
    ASSUME NEW h, NEW kind, NEW f, Blank(f)
    PROVE  Suits(h, kind, f)
BY DEF Blank, Suits

LEMMA CompleteSuits ==
    ASSUME LoadInv, Referred(heap), frames # <<>>, Parser!Kind # "enum", Items # <<>>,
           NEW x, NEW numbers, Parser!Complete(x, numbers), DOMAIN x = FieldParts, Suits(heap, Parser!Kind, x)
    PROVE  Referred(heap')
<1> DEFINE a == Parser!Top.node
           m == Position
           y == IF Parser!Kind = "oneof" THEN x ELSE [x EXCEPT !.proto = heap[a].proto]
           v == IF Parser!Kind = "oneof" THEN heap[a].vsize ELSE heap[a].vsize + numbers
<1>1. heap' = [heap EXCEPT ![a].fields[m] = y, ![a].vsize = v]
  BY DEF Parser!Complete, Parser!Here, Position, Current
<1>2. Sound(heap) /\ a \in DOMAIN heap
  BY TopCall DEF LoadInv
<1>3. y.type = x.type /\ y.sub = x.sub
  BY DEF FieldParts
<1>4. Parser!Kind = heap[a].kind
  BY DEF Parser!Kind
<1> HIDE DEF y, v, m
<1>5. Written(heap, heap', a, m, y, v)
  BY ONLY <1>1, <1>2, NodeWritten
<1>6. Suits(heap, heap[a].kind, y)
  BY <1>3, <1>4 DEF Suits
<1>7. /\ DOMAIN heap' = DOMAIN heap /\ \A b \in DOMAIN heap : b # a => heap'[b] = heap[b]
      /\ heap'[a].kind = heap[a].kind /\ DOMAIN heap'[a].fields = DOMAIN heap[a].fields
      /\ \A k \in DOMAIN heap[a].fields : heap'[a].fields[k] = IF k = m THEN y ELSE heap[a].fields[k]
  BY <1>5 DEF Written
<1> DEFINE g == heap'
<1>8. \A b \in DOMAIN heap : g[b].kind = heap[b].kind
  BY <1>7
<1>9. ASSUME NEW b \in DOMAIN g, g[b].kind # "enum", NEW k \in DOMAIN g[b].fields
      PROVE  Suits(heap, g[b].kind, g[b].fields[k])
  <2>1. CASE b = a /\ k = m
    BY <1>2, <1>6, <1>7, <1>9, <2>1
  <2>2. CASE ~(b = a /\ k = m)
    <3>1. b \in DOMAIN heap /\ k \in DOMAIN heap[b].fields /\ g[b].fields[k] = heap[b].fields[k] /\ g[b].kind = heap[b].kind
      BY <1>7, <1>9, <2>2
    <3> QED BY <1>9, <3>1 DEF Referred
  <2> QED BY <2>1, <2>2
<1>10. DOMAIN heap \subseteq DOMAIN g
  BY <1>7
<1> HIDE DEF g
<1>11. Referred(g)
  BY ONLY <1>8, <1>9, <1>10, StaysReferred
<1> QED BY <1>11 DEF g

LEMMA ParseFieldSuits ==
    ASSUME LoadInv, Referred(heap), Parser!ParseField
    PROVE  Referred(heap')
<1> DEFINE item == Parser!Item
           f == Parser!Filled([Parser!Named(item) EXCEPT !.subName = Parser!SubName(item[5])], item)
<1>1. frames # <<>> /\ Parser!Kind # "enum" /\ Items # <<>>
  BY DEF Parser!ParseField, Parser!Reading, Items
<1>2. CASE Parser!BeforeType(item) /\ Parser!Basic(item[5]) /\ Parser!AfterType(item)
  <2>1. Parser!Complete(f, Parser!Numbers(f))
    BY <1>2 DEF Parser!ParseField
  <2>2. item[5][1] \notin Parser!Owning
    BY <1>2 DEF Parser!Basic, Parser!Scalars, Parser!Ref, Parser!Owning
  <2>3. DOMAIN f = FieldParts /\ f.type = item[5][1] /\ f.sub = Parser!Null
    BY DEF Parser!Filled, Parser!Named, Parser!ZeroField, FieldParts
  <2>4. Suits(heap, Parser!Kind, f)
    BY <2>2, <2>3 DEF Suits, Parser!Owning
  <2> HIDE DEF f
  <2> QED BY ONLY LoadInv, Referred(heap), <1>1, <2>1, <2>3, <2>4, CompleteSuits
<1>3. CASE ~(Parser!BeforeType(item) /\ Parser!Basic(item[5]) /\ Parser!AfterType(item))
  BY <1>3 DEF Parser!ParseField, Parser!FailHere
<1> QED BY <1>2, <1>3

LEMMA LeaveMapSuits ==
    ASSUME LoadInv, Referred(heap), Parser!LeaveMap
    PROVE  Referred(heap')
<1> DEFINE item == Parser!Item
           c == Parser!At(Parser!Here)
           f == Parser!Filled(c, item)
<1>1. frames # <<>> /\ Parser!Kind # "enum" /\ Items # <<>> /\ item[1] = "field" /\ c.sub # Parser!Null
  BY DEF Parser!LeaveMap, Parser!Reading, Items
<1>2. CASE Parser!AfterType(item)
  <2>1. Parser!Complete(f, 1)
    BY <1>2 DEF Parser!LeaveMap
  <2>2. DOMAIN c = FieldParts /\ c = heap[Parser!Top.node].fields[Position] /\ Matches(c.type, item)
    BY <1>1, CurrentField
  <2>3. DOMAIN f = FieldParts /\ f.type = "map"
    BY <1>1, <2>2 DEF Parser!Filled, FieldParts, Matches
  <2>4. Suits(heap, Parser!Kind, f)
    BY <2>3 DEF Suits, Parser!Owning
  <2> HIDE DEF f
  <2> QED BY ONLY LoadInv, Referred(heap), <1>1, <2>1, <2>3, <2>4, CompleteSuits
<1>3. CASE ~Parser!AfterType(item)
  BY <1>3 DEF Parser!LeaveMap, Parser!FailHere
<1> QED BY <1>2, <1>3

LEMMA LeaveOneofSuits ==
    ASSUME LoadInv, Referred(heap), Parser!LeaveOneof
    PROVE  Referred(heap')
<1> DEFINE c == Parser!At(Parser!Here)
           s == heap[c.sub]
           f == [c EXCEPT !.fnum = s.fields[1].fnum]
<1>1. /\ frames # <<>> /\ Parser!Kind # "enum" /\ Items # <<>> /\ Parser!Item[1] = "oneof" /\ c.sub # Parser!Null
      /\ Parser!Kind \in Parser!Message /\ Parser!Complete(f, s.size)
  BY DEF Parser!LeaveOneof, Parser!Reading, Items
<1>2. DOMAIN c = FieldParts /\ c = heap[Parser!Top.node].fields[Position] /\ Matches(c.type, Parser!Item)
  BY <1>1, CurrentField
<1>3. DOMAIN f = FieldParts /\ f.type = "oneof"
  BY <1>1, <1>2 DEF FieldParts, Matches
<1>4. Suits(heap, Parser!Kind, f)
  BY <1>1, <1>3 DEF Suits, Parser!Owning, Parser!Message
<1> HIDE DEF f
<1> QED BY ONLY LoadInv, Referred(heap), <1>1, <1>3, <1>4, CompleteSuits

\* A node is made and hung below the current field.
LEMMA EnterSuits ==
    ASSUME LoadInv, Referred(heap), frames # <<>>, Parser!Kind # "enum", Items # <<>>,
           NEW x, DOMAIN x = FieldParts, x.type \in Parser!Owning, Parser!Kind = "oneof" => x.type # "oneof",
           NEW kind, NEW length \in Nat, NEW new, FreshNode(new, kind, length, length), kind \in Parser!Owning,
           heap' = Append([heap EXCEPT ![Parser!Here[1]].fields[Parser!Here[2]] = [x EXCEPT !.sub = Parser!Fresh]], new)
    PROVE  Referred(heap')
<1> DEFINE a == Parser!Top.node
           m == Position
           y == [x EXCEPT !.sub = Parser!Fresh]
           n == Len(heap) + 1
           g == heap'
<1>1. Sound(heap) /\ a \in DOMAIN heap
  BY TopCall DEF LoadInv
<1>2. Parser!Here = <<a, m>> /\ Parser!Kind = heap[a].kind
  BY CurrentField
<1>3. y.type = x.type
  BY DEF FieldParts
<1>4. Suits(heap, heap[a].kind, y)
  BY <1>2, <1>3 DEF Suits
<1>5. g = Append([heap EXCEPT ![a].fields[m] = y], new)
  BY <1>2
<1> HIDE DEF y, m, g
<1>6. Grown(heap, g, a, m, y, new)
  BY ONLY <1>1, <1>5, NodeGrown
<1>7. /\ DOMAIN g = DOMAIN heap \cup {n} /\ n \notin DOMAIN heap /\ g[n] = new
      /\ \A b \in DOMAIN heap : b # a => g[b] = heap[b]
      /\ g[a].kind = heap[a].kind /\ DOMAIN g[a].fields = DOMAIN heap[a].fields
      /\ \A j \in DOMAIN heap[a].fields : g[a].fields[j] = IF j = m THEN y ELSE heap[a].fields[j]
  BY <1>6 DEF Grown
<1> HIDE DEF n
<1>8. \A b \in DOMAIN heap : g[b].kind = heap[b].kind
  BY <1>7
<1>9. ASSUME NEW b \in DOMAIN g, g[b].kind # "enum", NEW k \in DOMAIN g[b].fields
      PROVE  Suits(heap, g[b].kind, g[b].fields[k])
  <2>1. CASE b = n
    BY <1>7, <1>9, <2>1, BlankSuits DEF FreshNode
  <2>2. CASE b = a /\ k = m
    BY <1>1, <1>4, <1>7, <1>9, <2>2
  <2>3. CASE b # n /\ ~(b = a /\ k = m)
    <3>1. b \in DOMAIN heap /\ k \in DOMAIN heap[b].fields /\ g[b].fields[k] = heap[b].fields[k] /\ g[b].kind = heap[b].kind
      BY <1>7, <1>9, <2>3
    <3> QED BY <1>9, <3>1 DEF Referred
  <2> QED BY <2>1, <2>2, <2>3
<1>10. DOMAIN heap \subseteq DOMAIN g
  BY <1>7
<1>11. Referred(g)
  BY ONLY <1>8, <1>9, <1>10, StaysReferred
<1> QED BY <1>11 DEF g

LEMMA EnterMapSuits ==
    ASSUME LoadInv, Referred(heap), Parser!EnterMap
    PROVE  Referred(heap')
<1> DEFINE item == Parser!Item
           new == Parser!MakeNode("map", item[2], 0, 2, 2)
           x == Parser!Named(item)
           Stored == heap' = Append([heap EXCEPT ![Parser!Here[1]].fields[Parser!Here[2]] = [x EXCEPT !.sub = Parser!Fresh]], new)
<1>1. frames # <<>> /\ Parser!Kind # "enum" /\ Items # <<>> /\ item[5][1] = "map"
  BY DEF Parser!EnterMap, Parser!Reading, Items
<1>2. FreshNode(new, "map", 2, 2)
  BY NodeMade DEF Parser!Message
<1>3. DOMAIN x = FieldParts /\ x.type = "map" /\ "map" \in Parser!Owning /\ "map" # "oneof" /\ 2 \in Nat
  BY <1>1 DEF Parser!Named, Parser!ZeroField, FieldParts, Parser!Owning
<1>4. Stored \/ heap' = heap
  BY DEF Parser!EnterMap, Parser!Enter, Parser!Denied
<1>5. CASE Stored
  <2> HIDE DEF new, x
  <2> QED BY ONLY LoadInv, Referred(heap), <1>1, <1>2, <1>3, <1>5, EnterSuits
<1> QED BY <1>4, <1>5

LEMMA EnterOneofSuits ==
    ASSUME LoadInv, Referred(heap), Parser!EnterOneof
    PROVE  Referred(heap')
<1> DEFINE item == Parser!Item
           list == item[4]
           new == Parser!MakeNode("oneof", Parser!Null, 0, Len(list), Len(list))
           x == [Parser!ZeroField EXCEPT !.name = item[2], !.rnum = item[3] - 1, !.type = "oneof"]
           Stored == heap' = Append([heap EXCEPT ![Parser!Here[1]].fields[Parser!Here[2]] = [x EXCEPT !.sub = Parser!Fresh]], new)
<1>1. frames # <<>> /\ Parser!Kind # "enum" /\ Items # <<>> /\ item[1] = "oneof" /\ Parser!Kind \in Parser!Message
  BY DEF Parser!EnterOneof, Parser!Reading, Items
<1>2. Reads(Parser!Kind, Items) /\ 1 \in DOMAIN Items /\ item = Items[1]
  BY <1>1, CurrentField
<1>3. Len(list) \in Nat
  <2>1. Parser!Kind \in {"msg", "group"}
    BY <1>1, <1>2 DEF Reads, Parser!Message
  <2>2. Parser!ItemAssumption(item)
    BY <1>2, <2>1 DEF Reads
  <2> QED BY <1>1, <2>2, ListParts DEF Parser!ItemAssumption
<1> DEFINE length == Len(list)
<1>4. length \in Nat /\ FreshNode(new, "oneof", length, length)
  BY <1>3, NodeMade
<1>5. /\ DOMAIN x = FieldParts /\ x.type \in Parser!Owning /\ "oneof" \in Parser!Owning
      /\ Parser!Kind = "oneof" => x.type # "oneof"
  BY <1>1 DEF Parser!ZeroField, FieldParts, Parser!Owning, Parser!Message
<1>6. Stored \/ heap' = heap
  BY DEF Parser!EnterOneof, Parser!Enter, Parser!Denied, Parser!FailHere
<1>7. CASE Stored
  <2> HIDE DEF new, x, length
  <2> QED BY ONLY LoadInv, Referred(heap), <1>1, <1>4, <1>5, <1>7, EnterSuits
<1> QED BY <1>6, <1>7

\* The fields of a node are sorted; the rest keeps its types and references.
LEMMA SortedSuits ==
    ASSUME LoadInv, Referred(heap), NEW a \in DOMAIN heap, NEW g, DOMAIN g = DOMAIN heap,
           g[a].kind = heap[a].kind,
           NEW q, Permutes(q, DOMAIN heap[a].fields), DOMAIN g[a].fields = DOMAIN heap[a].fields,
           \A k \in DOMAIN heap[a].fields : g[a].fields[k] = heap[a].fields[q[k]],
           \A b \in DOMAIN heap : b # a => SameNode(heap, g, b)
    PROVE  Referred(g)
<1>1. \A b \in DOMAIN heap : g[b].kind = heap[b].kind
  BY DEF SameNode, SameShape
<1>2. ASSUME NEW b \in DOMAIN g, g[b].kind # "enum", NEW k \in DOMAIN g[b].fields
      PROVE  Suits(heap, g[b].kind, g[b].fields[k])
  <2>1. CASE b = a
    <3>1. q[k] \in DOMAIN heap[a].fields /\ g[a].fields[k] = heap[a].fields[q[k]]
      BY <1>2, <2>1 DEF Permutes
    <3> QED BY <1>1, <1>2, <2>1, <3>1 DEF Referred
  <2>2. CASE b # a
    <3>1. SameNode(heap, g, b) /\ b \in DOMAIN heap
      BY <2>2
    <3>2. heap[b].kind # "enum" /\ k \in DOMAIN heap[b].fields
      BY <1>2, <3>1 DEF SameNode, SameShape
    <3>3. g[b].fields[k].type = heap[b].fields[k].type /\ g[b].fields[k].sub = heap[b].fields[k].sub
      BY <3>1, <3>2 DEF SameNode, SubOf
    <3>4. Suits(heap, heap[b].kind, heap[b].fields[k])
      BY <3>1, <3>2 DEF Referred
    <3>5. g[b].kind = heap[b].kind
      BY <1>1, <3>1
    <3> QED BY ONLY <3>3, <3>4, <3>5 DEF Suits
  <2> QED BY <2>1, <2>2
<1> QED BY ONLY <1>1, <1>2, DOMAIN g = DOMAIN heap, StaysReferred

LEMMA CloseOneofSuits ==
    ASSUME LoadInv, Referred(heap), Parser!CloseOneof
    PROVE  Referred(heap')
<1> DEFINE a == Parser!Top.node
           f == heap[a].fields
           g == heap'
<1>1. frames # <<>>
  BY DEF Parser!CloseOneof, Parser!Closing
<1>2. Sound(heap) /\ a \in DOMAIN heap /\ Whole(heap[a]) /\ Parser!IsSequence(f)
  BY <1>1, TopCall DEF LoadInv, Sound, Whole
<1>3. PICK s \in Parser!Sortings(f, Parser!NamesOf(f)) : Parser!Closed([heap EXCEPT ![a].fields = s])
  BY DEF Parser!CloseOneof
<1>4. PICK q : Moves(q, f, s)
  BY SortingMoves
<1> DEFINE n == [heap[a] EXCEPT !.fields = s]
<1>5. g = [heap EXCEPT ![a] = n]
  BY <1>2, <1>3 DEF Parser!Closed
<1>6. n.fields = s /\ n.kind = heap[a].kind
  BY <1>2 DEF Whole, NodeParts
<1>7. DOMAIN s = DOMAIN f /\ Permutes(q, DOMAIN f) /\ \A k \in DOMAIN f : s[k] = f[q[k]]
  BY ONLY <1>2, <1>4, SortedTable
<1> HIDE DEF n, g
<1>8. DOMAIN g = DOMAIN heap /\ g[a] = n /\ \A b \in DOMAIN heap : b # a => g[b] = heap[b]
  BY <1>2, <1>5
<1>9. \A b \in DOMAIN heap : b # a => SameNode(heap, g, b)
  BY <1>8 DEF SameNode, SameShape, SubOf
<1>10. Referred(g)
  BY ONLY LoadInv, Referred(heap), <1>2, <1>6, <1>7, <1>8, <1>9, SortedSuits
<1> QED BY <1>10 DEF g

LEMMA CloseMessageSuits ==
    ASSUME LoadInv, Referred(heap), Parser!CloseMessage
    PROVE  Referred(heap')
<1> DEFINE a == Parser!Top.node
           f == heap[a].fields
           m == Len(f) + 1
           g == heap'
           V(s) == Parser!VFields(a, s)
           New(s, t) == [heap[a] EXCEPT !.fields = s, !.vfields = t, !.dense = Parser!Dense(t)]
           Heap(s, t) == [b \in DOMAIN heap |->
                             CASE b = a -> New(s, t)
                               [] b # a /\ b \in Parser!OneofsOf(s) -> [heap[b] EXCEPT !.fields = Noted(@)]
                               [] OTHER -> heap[b]]
<1>1. frames # <<>> /\ heap[a].kind \in Parser!Message
  BY DEF Parser!CloseMessage, Parser!Closing, Parser!Kind
<1>2. Sound(heap) /\ a \in DOMAIN heap /\ DOMAIN heap[a] = NodeParts /\ Parser!IsSequence(f)
  BY <1>1, TopCall DEF LoadInv, Sound, Whole
<1>3. CASE Parser!Denied
  BY <1>3 DEF Parser!Denied
<1>4. CASE ~Parser!Denied
  <2>1. PICK s \in Parser!Sortings(f, Parser!SlotsOf(f)) :
            \E t \in Parser!Sortings(V(s), Parser!NumbersIn(V(s))) : Parser!Closed(Heap(s, t))
    BY <1>4 DEF Parser!CloseMessage, Noted
  <2>2. PICK t : Parser!Closed(Heap(s, t))
    BY <2>1
  <2>3. PICK q : Moves(q, f, s)
    BY SortingMoves
  <2>4. DOMAIN s = DOMAIN f /\ Permutes(q, DOMAIN f) /\ \A k \in DOMAIN f : s[k] = f[q[k]]
    BY ONLY <1>2, <2>3, SortedTable
  <2> DEFINE n == New(s, t)
             e == Heap(s, t)
  <2>5. g = e
    BY <2>2 DEF Parser!Closed
  <2>6. n.fields = s /\ n.kind = heap[a].kind
    BY <1>2 DEF NodeParts
  <2>7. e[a] = n /\ DOMAIN e = DOMAIN heap
    <3> HIDE DEF n
    <3> QED BY <1>2 DEF n
  <2>8. \A b \in Parser!OneofsOf(s) : b \in DOMAIN heap /\ heap[b].kind = "oneof"
    <3> SUFFICES ASSUME NEW k \in DOMAIN s, s[k].type = "oneof"
                 PROVE  s[k].sub \in DOMAIN heap /\ heap[s[k].sub].kind = "oneof"
      BY DEF Parser!OneofsOf
    <3>1. q[k] \in DOMAIN f /\ s[k] = f[q[k]]
      BY <2>4 DEF Permutes
    <3>2. Hangs(heap, a, q[k])
      BY <1>1, <3>1 DEF Hangs, Parser!Message, Parser!Owning
    <3> QED BY <1>2, <3>1, <3>2 DEF Sound, Hung, SubOf
  <2>9. ASSUME NEW b \in DOMAIN heap, b # a PROVE SameNode(heap, g, b)
    <3>1. Whole(heap[b])
      BY <1>2 DEF Sound
    <3>2. CASE b \in Parser!OneofsOf(s)
      <4>1. NotesAll(heap[b], g[b])
        BY <2>5, <2>9, <3>2 DEF NotesAll
      <4>2. heap[b].kind = "oneof"
        BY <2>8, <3>2
      <4> HIDE DEF g
      <4>3. /\ SameShape(g[b], heap[b]) /\ g[b].vsize = heap[b].vsize /\ g[b].vfields = heap[b].vfields
            /\ \A k \in DOMAIN heap[b].fields :
                g[b].fields[k].type = heap[b].fields[k].type /\ g[b].fields[k].sub = heap[b].fields[k].sub
        BY ONLY <3>1, <4>1, <4>2, NodeNoted
      <4> QED BY ONLY <4>3 DEF SameNode, SubOf
    <3>3. CASE b \notin Parser!OneofsOf(s)
      <4>1. g[b] = heap[b]
        BY <2>5, <2>9, <3>3
      <4> HIDE DEF g
      <4> QED BY ONLY <3>1, <4>1 DEF SameNode, SameShape, SubOf
    <3> QED BY <3>2, <3>3
  <2> HIDE DEF n, e, g
  <2>10. DOMAIN g = DOMAIN heap /\ g[a].kind = heap[a].kind /\ g[a].fields = s
    BY ONLY <2>5, <2>6, <2>7
  <2>11. Referred(g)
    BY ONLY LoadInv, Referred(heap), <1>2, <2>4, <2>9, <2>10, SortedSuits
  <2> QED BY <2>11 DEF g
<1> QED BY <1>3, <1>4

LEMMA ParseEnumSuits ==
    ASSUME LoadInv, Referred(heap), Parser!ParseEnum
    PROVE  Referred(heap')
<1> DEFINE a == Parser!Top.node
           g == heap'
           symbols == {k \in DOMAIN Items : Items[k][1] = "symbol"}
           Symbol(k) == [name |-> Items[k][2], value |-> Items[k][3]]
           firsts == {k \in symbols : \A j \in symbols : j < k => Items[j][3] # Items[k][3]}
           f == [k \in DOMAIN Items |-> IF k \in symbols THEN Symbol(k) ELSE Parser!ZeroSymbol]
           u == [k \in firsts |-> Symbol(k)]
<1>1. frames # <<>> /\ heap[a].kind = "enum"
  BY DEF Parser!ParseEnum, Parser!Kind
<1>2. Sound(heap) /\ a \in DOMAIN heap /\ DOMAIN heap[a] = NodeParts
  BY <1>1, TopCall DEF LoadInv, Sound, Whole
<1>3. CASE Parser!FailHere
  BY <1>3 DEF Parser!FailHere
<1>4. CASE ~Parser!FailHere
  <2>1. PICK s \in Parser!Sortings(f, Parser!NamesOf(f)), t \in Parser!Sortings(u, Parser!ValuesOf(u)) :
            Parser!Closed([heap EXCEPT ![a].fields = s, ![a].vsize = Parser!Cardinality(firsts), ![a].vfields = t])
    BY <1>4 DEF Parser!ParseEnum, Items
  <2> DEFINE v == Parser!Cardinality(firsts)
             n == [heap[a] EXCEPT !.fields = s, !.vsize = v, !.vfields = t]
  <2> HIDE DEF v, f, u, firsts
  <2>2. g = [heap EXCEPT ![a] = n]
    BY <1>2, <2>1 DEF Parser!Closed, v
  <2>3. n.kind = "enum"
    BY <1>1, <1>2 DEF NodeParts
  <2> HIDE DEF n, g
  <2>4. DOMAIN g = DOMAIN heap /\ g[a].kind = heap[a].kind /\ \A b \in DOMAIN heap : b # a => g[b] = heap[b]
    BY <1>1, <1>2, <2>2, <2>3
  <2>5. \A b \in DOMAIN heap : g[b].kind = heap[b].kind
    BY <2>4
  <2>6. ASSUME NEW b \in DOMAIN g, g[b].kind # "enum", NEW k \in DOMAIN g[b].fields
        PROVE  Suits(heap, g[b].kind, g[b].fields[k])
    <3>1. b # a /\ b \in DOMAIN heap /\ g[b] = heap[b]
      BY <1>1, <2>4, <2>6
    <3> QED BY <2>6, <3>1 DEF Referred
  <2>7. DOMAIN heap \subseteq DOMAIN g
    BY <2>4
  <2>8. Referred(g)
    BY ONLY <2>5, <2>6, <2>7, StaysReferred
  <2> QED BY <2>8 DEF g
<1> QED BY <1>3, <1>4

\* The node of a definition is made.
LEMMA StartNodeSuits ==
    ASSUME LoadInv, Referred(heap), Parser!StartNode
    PROVE  Referred(heap')
<1>1. heap' = heap \/ \E new : heap' = Append(heap, new) /\ \A k \in DOMAIN new.fields : new.kind # "enum" => Blank(new.fields[k])
  <2> SUFFICES ASSUME NEW kind, NEW name, NEW protoV, NEW length, NEW used
               PROVE  LET new == Parser!MakeNode(kind, name, protoV, length, used)
                      IN  \A k \in DOMAIN new.fields : new.kind # "enum" => Blank(new.fields[k])
    BY DEF Parser!StartNode, Parser!Denied, Parser!FailHere
  <2> DEFINE new == Parser!MakeNode(kind, name, protoV, length, used)
  <2>1. /\ new.kind = kind
        /\ new.fields = [k \in 1 .. length |-> IF kind = "enum" THEN Parser!ZeroSymbol ELSE Parser!ZeroField]
    BY DEF Parser!MakeNode
  <2>2. Blank(Parser!ZeroField)
    BY DEF Parser!ZeroField, Blank
  <2> HIDE DEF new
  <2>3. \A k \in DOMAIN new.fields : new.kind # "enum" => Blank(new.fields[k])
    BY <2>1, <2>2
  <2> QED BY <2>3 DEF new
<1>2. CASE heap' # heap
  <2>1. PICK new : heap' = Append(heap, new) /\ \A k \in DOMAIN new.fields : new.kind # "enum" => Blank(new.fields[k])
    BY <1>1, <1>2
  <2> DEFINE g == heap'
             n == Len(heap) + 1
  <2>2. Parser!IsSequence(heap)
    BY DEF LoadInv, Sound
  <2>3. DOMAIN g = DOMAIN heap \cup {n} /\ n \notin DOMAIN heap /\ g[n] = new /\ \A b \in DOMAIN heap : g[b] = heap[b]
    BY <2>1, <2>2, ListAppended
  <2> HIDE DEF g, n
  <2>4. ASSUME NEW b \in DOMAIN g, g[b].kind # "enum", NEW k \in DOMAIN g[b].fields
        PROVE  Suits(heap, g[b].kind, g[b].fields[k])
    <3>1. CASE b = n
      BY <2>1, <2>3, <2>4, <3>1, BlankSuits
    <3>2. CASE b # n
      BY <2>3, <2>4, <3>2 DEF Referred
    <3> QED BY <3>1, <3>2
  <2>5. DOMAIN heap \subseteq DOMAIN g /\ \A b \in DOMAIN heap : g[b].kind = heap[b].kind
    BY <2>3
  <2>6. Referred(g)
    BY ONLY <2>4, <2>5, StaysReferred
  <2> QED BY <2>6 DEF g
<1> QED BY <1>2

-----------------------------------------------------------------------------
(* bsearch *)

\* What it makes of a part of the keys, those behind the first l up to u, if f
\* has what it makes of smaller parts.
SearchAt(f, keys, key, l, u, mid) ==
    IF l >= u THEN 0
    ELSE IF key < keys[mid + 1] THEN f[<<l, mid>>]
    ELSE IF key > keys[mid + 1] THEN f[<<mid + 1, u>>] ELSE mid + 1
SearchBody(f, keys, key, part) == SearchAt(f, keys, key, part[1], part[2], (part[1] + part[2]) \div 2)
Searches(f, keys, key) == f = [part \in Nat \X Nat |-> SearchBody(f, keys, key, part)]

\* It looks at a smaller part, or has the answer.
LEMMA SearchEnds ==
    ASSUME NEW keys, NEW key, NEW l \in Nat, NEW u \in Nat, NEW mid, NEW f, l >= u
    PROVE  SearchAt(f, keys, key, l, u, mid) = 0
<1>1. ~(l < u) /\ l >= u
  OBVIOUS
<1> QED BY ONLY <1>1 DEF SearchAt

LEMMA SearchSteps ==
    ASSUME NEW keys, NEW key, NEW l \in Nat, NEW u \in Nat, NEW mid, mid = (l + u) \div 2, l < u
    PROVE  /\ mid \in l .. u - 1
           /\ \A f : SearchAt(f, keys, key, l, u, mid) \in {mid + 1, f[<<l, mid>>], f[<<mid + 1, u>>]}
<1>1. mid \in l .. u - 1 /\ ~(l >= u) /\ l < u
  OBVIOUS
<1>2. \A f : SearchAt(f, keys, key, l, u, mid) \in {mid + 1, f[<<l, mid>>], f[<<mid + 1, u>>]}
  BY ONLY <1>1 DEF SearchAt
<1> QED BY <1>1, <1>2

\* What it makes of a part depends on those two smaller ones only.
Agree(f, g, l, u, mid) == l < u => f[<<l, mid>>] = g[<<l, mid>>] /\ f[<<mid + 1, u>>] = g[<<mid + 1, u>>]

LEMMA SearchAgrees ==
    ASSUME NEW keys, NEW key, NEW l \in Nat, NEW u \in Nat, NEW mid, NEW f, NEW g, Agree(f, g, l, u, mid)
    PROVE  SearchAt(f, keys, key, l, u, mid) = SearchAt(g, keys, key, l, u, mid)
<1>1. CASE l < u
  BY <1>1 DEF SearchAt, Agree
<1>2. CASE l >= u
  BY <1>2, SearchEnds
<1> QED BY <1>1, <1>2

\* So its recursion ends.
PartSize == [part \in Nat \X Nat |-> IF part[1] < part[2] THEN part[2] - part[1] ELSE 0]

LEMMA PartsShrink ==
    ASSUME NEW l \in Nat, NEW u \in Nat, NEW mid, l < u, mid \in l .. u - 1
    PROVE  /\ <<l, mid>> \in Nat \X Nat /\ PartSize[<<l, mid>>] < PartSize[<<l, u>>]
           /\ <<mid + 1, u>> \in Nat \X Nat /\ PartSize[<<mid + 1, u>>] < PartSize[<<l, u>>]
<1>1. mid \in Nat /\ mid + 1 \in Nat /\ l <= mid /\ mid < u
  OBVIOUS
<1>2. \A a, b \in Nat : PartSize[<<a, b>>] = IF a < b THEN b - a ELSE 0
  BY DEF PartSize
<1>3. PartSize[<<l, u>>] = u - l
  BY <1>2
<1>4. PartSize[<<l, mid>>] < u - l
  <2>1. PartSize[<<l, mid>>] = IF l < mid THEN mid - l ELSE 0
    BY <1>1, <1>2
  <2> QED BY ONLY <1>1, <2>1, l \in Nat, u \in Nat
<1>5. PartSize[<<mid + 1, u>>] < u - l
  <2>1. PartSize[<<mid + 1, u>>] = IF mid + 1 < u THEN u - (mid + 1) ELSE 0
    BY <1>1, <1>2
  <2> QED BY ONLY <1>1, <2>1, l \in Nat, u \in Nat
<1> QED BY <1>1, <1>3, <1>4, <1>5

LEMMA SearchExists ==
    ASSUME NEW keys, NEW key
    PROVE  \E f \in [Nat \X Nat -> Nat] : Searches(f, keys, key)
<1> DEFINE S == Nat \X Nat
           B == [f \in [S -> Nat] |-> [part \in S |-> SearchBody(f, keys, key, part)]]
<1>1. Nat # {} /\ PartSize \in [S -> Nat]
  BY DEF PartSize
<1>2. ASSUME NEW f \in [S -> Nat], NEW part \in S
      PROVE  SearchBody(f, keys, key, part) \in Nat
  <2>1. PICK l \in Nat, u \in Nat : part = <<l, u>>
    OBVIOUS
  <2> DEFINE mid == (l + u) \div 2
  <2>2. SearchBody(f, keys, key, part) = SearchAt(f, keys, key, l, u, mid)
    BY <2>1 DEF SearchBody
  <2>3. mid = (l + u) \div 2
    OBVIOUS
  <2> HIDE DEF mid
  <2>4. CASE l >= u
    <3>1. SearchAt(f, keys, key, l, u, mid) = 0
      BY <2>4, SearchEnds
    <3> QED BY <2>2, <3>1
  <2>5. CASE l < u
    <3>1. mid \in l .. u - 1 /\ SearchAt(f, keys, key, l, u, mid) \in {mid + 1, f[<<l, mid>>], f[<<mid + 1, u>>]}
      BY <2>3, <2>5, SearchSteps
    <3>2. mid + 1 \in Nat /\ f[<<l, mid>>] \in Nat /\ f[<<mid + 1, u>>] \in Nat
      BY <2>5, <3>1, PartsShrink
    <3> QED BY <2>2, <3>1, <3>2
  <2> QED BY <2>4, <2>5
<1>3. B \in [[S -> Nat] -> [S -> Nat]]
  BY <1>2
<1>4. LooksBelow(S, Nat, PartSize, B)
  <2> SUFFICES ASSUME NEW f \in [S -> Nat], NEW g \in [S -> Nat], NEW part \in S,
                      \A y \in S : PartSize[y] < PartSize[part] => f[y] = g[y]
               PROVE  B[f][part] = B[g][part]
    BY DEF LooksBelow
  <2>1. PICK l \in Nat, u \in Nat : part = <<l, u>>
    OBVIOUS
  <2> DEFINE mid == (l + u) \div 2
  <2>2. B[f][part] = SearchAt(f, keys, key, l, u, mid) /\ B[g][part] = SearchAt(g, keys, key, l, u, mid)
    BY <2>1 DEF SearchBody
  <2>3. mid = (l + u) \div 2
    OBVIOUS
  <2> HIDE DEF mid, B
  <2>4. ASSUME l < u PROVE f[<<l, mid>>] = g[<<l, mid>>] /\ f[<<mid + 1, u>>] = g[<<mid + 1, u>>]
    <3>1. mid \in l .. u - 1
      BY <2>3, <2>4
    <3> QED BY <2>1, <2>4, <3>1, PartsShrink
  <2>5. SearchAt(f, keys, key, l, u, mid) = SearchAt(g, keys, key, l, u, mid)
    BY ONLY <2>4, l \in Nat, u \in Nat, SearchAgrees DEF Agree
  <2> QED BY <2>2, <2>5
<1>5. HasFunction(S, Nat, B)
  <2> HIDE DEF B
  <2> QED BY <1>1, <1>3, <1>4, Recursion
<1>6. PICK f \in [S -> Nat] : f = B[f]
  BY <1>5 DEF HasFunction
<1>7. Searches(f, keys, key)
  BY <1>6 DEF Searches
<1> QED BY <1>7

\* It finds one of the keys, or nothing.
LEMMA SearchFinds ==
    ASSUME NEW keys, NEW key, NEW f, Searches(f, keys, key), NEW l \in Nat, NEW u \in Nat
    PROVE  f[<<l, u>>] \in {0} \cup (l + 1) .. u
<1> DEFINE S == Nat \X Nat
           G == {part \in S : f[part] \in {0} \cup (part[1] + 1) .. part[2]}
<1>1. PartSize \in [S -> Nat] /\ G \in SUBSET S
  BY DEF PartSize
<1>2. ASSUME NEW part \in S, \A y \in S : PartSize[y] < PartSize[part] => y \in G
      PROVE  part \in G
  <2>1. PICK a \in Nat, b \in Nat : part = <<a, b>>
    OBVIOUS
  <2> DEFINE mid == (a + b) \div 2
  <2>2. f[part] = SearchAt(f, keys, key, a, b, mid)
    <3>1. f[part] = SearchBody(f, keys, key, part)
      BY DEF Searches
    <3> QED BY <2>1, <3>1 DEF SearchBody
  <2>3. mid = (a + b) \div 2
    OBVIOUS
  <2> HIDE DEF mid
  <2>4. f[part] \in {0} \cup (a + 1) .. b
    <3>1. CASE a >= b
      <4>1. SearchAt(f, keys, key, a, b, mid) = 0
        BY <3>1, SearchEnds
      <4> QED BY <2>2, <4>1
    <3>2. CASE a < b
      <4>1. mid \in a .. b - 1 /\ SearchAt(f, keys, key, a, b, mid) \in {mid + 1, f[<<a, mid>>], f[<<mid + 1, b>>]}
        BY <2>3, <3>2, SearchSteps
      <4>2. <<a, mid>> \in G /\ <<mid + 1, b>> \in G
        <5>1. /\ <<a, mid>> \in S /\ PartSize[<<a, mid>>] < PartSize[<<a, b>>]
              /\ <<mid + 1, b>> \in S /\ PartSize[<<mid + 1, b>>] < PartSize[<<a, b>>]
          BY <3>2, <4>1, PartsShrink
        <5> HIDE DEF G
        <5> QED BY <1>2, <2>1, <5>1
      <4>3. f[<<a, mid>>] \in {0} \cup (a + 1) .. mid /\ f[<<mid + 1, b>>] \in {0} \cup (mid + 2) .. b
        BY <4>1, <4>2
      <4> HIDE DEF G
      <4> QED BY <2>2, <4>1, <4>3
    <3> QED BY <3>1, <3>2
  <2> QED BY <2>1, <2>4
<1>3. G = S
  <2>1. Inherited(S, PartSize, G)
    BY <1>2 DEF Inherited
  <2> HIDE DEF G
  <2> QED BY <1>1, <2>1, MeasuredSet
<1>4. <<l, u>> \in G
  BY <1>3
<1> QED BY <1>4

LEMMA BsearchFinds ==
    ASSUME NEW keys, NEW key, Len(keys) \in Nat
    PROVE  Parser!Bsearch(keys, key) \in {0} \cup 1 .. Len(keys)
<1>1. PICK f : Searches(f, keys, key) /\ Parser!Bsearch(keys, key) = f[<<0, Len(keys)>>]
  <2> DEFINE c == CHOOSE f : Searches(f, keys, key)
  <2>1. Searches(c, keys, key)
    BY SearchExists
  <2>2. Parser!Bsearch(keys, key) = c[<<0, Len(keys)>>]
    BY DEF Searches, SearchBody, SearchAt, Parser!Bsearch
  <2> QED BY <2>1, <2>2
<1> QED BY <1>1, SearchFinds

\* What a name refers to is in the cache.
LEMMA NameFound ==
    ASSUME NamesInv, CacheInv, NEW name
    PROVE  Parser!GetNodeByName(name) \in {Parser!Null} \cup {cache.ids[k] : k \in DOMAIN cache.ids}
<1> DEFINE keys == [j \in DOMAIN cache.names |-> heap[cache.names[j]].name]
           i0 == Parser!Bsearch(keys, name)
<1>1. Len(cache.names) \in Nat /\ DOMAIN cache.names = 1 .. Len(cache.names)
  BY ListParts DEF NamesInv
<1>2. Len(keys) = Len(cache.names)
  BY <1>1
<1>3. Parser!GetNodeByName(name) = IF i0 = 0 THEN Parser!Null ELSE cache.names[i0]
  BY DEF Parser!GetNodeByName
<1> HIDE DEF keys
<1>4. i0 \in {0} \cup 1 .. Len(cache.names)
  BY <1>1, <1>2, BsearchFinds
<1> QED BY <1>1, <1>3, <1>4 DEF NamesInv

\* A resolved reference is to a node that no field owns.
LEMMA LinkNodeSuits ==
    ASSUME LoadInv, RefInv, Parser!LinkNode
    PROVE  Referred(heap')
<1> DEFINE open == {ptr \in Parser!Visited(Head(todo)) :
                       Parser!At(ptr).type \in Parser!Ref /\ Parser!At(ptr).sub = Parser!Null}
           Linked(a, k) == IF <<a, k>> \in open
                           THEN [heap[a].fields[k] EXCEPT !.sub = Parser!GetNodeByName(heap[a].fields[k].subName)]
                           ELSE heap[a].fields[k]
           AllLinked(a) == [k \in DOMAIN heap[a].fields |-> Linked(a, k)]
           g == heap'
<1>1. stage = "link"
  BY DEF Parser!LinkNode
<1>2. ASSUME NEW name
      PROVE  LET n == Parser!GetNodeByName(name)
             IN  n = Parser!Null \/ (n \in DOMAIN heap /\ heap[n].kind \notin Parser!Owning)
  <2>1. Parser!GetNodeByName(name) \in {Parser!Null} \cup {cache.ids[k] : k \in DOMAIN cache.ids}
    BY NameFound DEF LoadInv, RefInv
  <2>2. \A k \in DOMAIN cache.ids : cache.ids[k] \in DOMAIN heap /\ heap[cache.ids[k]].kind \notin Parser!Owning
    BY <1>1 DEF LoadInv, RootsInv, CacheInv
  <2> QED BY <2>1, <2>2
<1>3. CASE heap' = heap
  BY <1>3 DEF RefInv
<1>4. CASE heap' # heap
  <2>1. g = [a \in DOMAIN heap |-> [heap[a] EXCEPT !.fields = AllLinked(a)]]
    BY <1>4 DEF Parser!LinkNode
  <2>2. ASSUME NEW a \in DOMAIN heap
        PROVE  g[a].kind = heap[a].kind /\ g[a].fields = AllLinked(a)
    <3> DEFINE l == AllLinked(a)
    <3>1. g[a] = [heap[a] EXCEPT !.fields = l]
      BY <2>1
    <3>2. DOMAIN heap[a] = NodeParts
      BY DEF LoadInv, Sound, Whole
    <3> HIDE DEF l, g
    <3> QED BY <3>1, <3>2 DEF NodeParts, l
  <2>3. DOMAIN g = DOMAIN heap
    BY <2>1
  <2> HIDE DEF g
  <2>4. ASSUME NEW a \in DOMAIN g, g[a].kind # "enum", NEW k \in DOMAIN g[a].fields
        PROVE  Suits(heap, g[a].kind, g[a].fields[k])
    <3> DEFINE x == heap[a].fields[k]
               name == x.subName
               z == [x EXCEPT !.sub = Parser!GetNodeByName(name)]
    <3>1. a \in DOMAIN heap /\ k \in DOMAIN heap[a].fields /\ heap[a].kind # "enum" /\ g[a].kind = heap[a].kind
      BY <2>2, <2>3, <2>4
    <3>2. g[a].fields[k] = IF <<a, k>> \in open THEN z ELSE x
      BY <2>2, <3>1
    <3>3. Suits(heap, heap[a].kind, x)
      BY <3>1 DEF RefInv, Referred
    <3>4. DOMAIN x = FieldParts
      BY <3>1 DEF LoadInv, Sound, Whole
    <3>5. z.type = x.type /\ z.sub = Parser!GetNodeByName(name)
      <4> HIDE DEF x, name
      <4> QED BY <3>4 DEF FieldParts
    <3> HIDE DEF z, x, open, name
    <3>6. z.sub = Parser!Null \/ (z.sub \in DOMAIN heap /\ heap[z.sub].kind \notin Parser!Owning)
      BY <1>2, <3>5
    <3>7. Suits(heap, heap[a].kind, z)
      BY ONLY <3>3, <3>5, <3>6 DEF Suits
    <3> QED BY <3>1, <3>2, <3>3, <3>7
  <2>5. DOMAIN heap \subseteq DOMAIN g /\ \A b \in DOMAIN heap : g[b].kind = heap[b].kind
    BY <2>2, <2>3
  <2>6. Referred(g)
    BY ONLY <2>4, <2>5, StaysReferred
  <2> QED BY <2>6 DEF g
<1> QED BY <1>3, <1>4

-----------------------------------------------------------------------------
(* The steps of a load keep what fields and names refer to *)

LEMMA EmptyNames ==
    ASSUME NEW c, c.names = <<>>
    PROVE  /\ Parser!IsSequence(c.names)
           /\ \A k \in DOMAIN c.names : \E j \in DOMAIN c.ids : c.names[k] = c.ids[j]
<1>1. Parser!IsSequence(<<>>) /\ DOMAIN <<>> = {}
  BY DEF Parser!IsSequence
<1> QED BY <1>1

LEMMA CreateNames ==
    ASSUME RefInv, LoadInv, Parser!Create
    PROVE  RefInv'
<1>1. heap' = heap /\ stage = "create"
  BY DEF Parser!Create, Parser!memory
<1>2. cache' = cache \/ cache' = [Parser!NoCache EXCEPT !.size = Parser!Counted]
  BY DEF Parser!Create
<1>3. CASE cache' = cache
  BY <1>1, <1>3 DEF RefInv, NamesInv, Referred
<1>4. CASE cache' = [Parser!NoCache EXCEPT !.size = Parser!Counted]
  <2>1. cache'.names = <<>>
    BY <1>4 DEF Parser!NoCache
  <2> DEFINE c == cache'
  <2>2. c.names = <<>>
    BY <2>1
  <2> HIDE DEF c
  <2>3. /\ Parser!IsSequence(c.names)
        /\ \A k \in DOMAIN c.names : \E j \in DOMAIN c.ids : c.names[k] = c.ids[j]
    BY ONLY <2>2, EmptyNames
  <2> QED BY <1>1, <2>3 DEF c, RefInv, NamesInv, Referred
<1> QED BY <1>2, <1>3, <1>4

LEMMA InsertNames ==
    ASSUME RefInv, LoadInv, Parser!Insert
    PROVE  RefInv'
<1>1. heap' = heap
  BY DEF Parser!Insert, Parser!memory
<1>2. /\ DOMAIN cache = {"size", "ids", "names"} /\ Parser!IsSequence(cache.ids) /\ Parser!IsSequence(cache.names)
      /\ \A k \in DOMAIN cache.names : \E j \in DOMAIN cache.ids : cache.names[k] = cache.ids[j]
  BY DEF LoadInv, CacheInv, RefInv, NamesInv
<1> DEFINE ids == Append(cache.ids, node)
           names2 == Append(cache.names, node)
<1>3. cache' = cache \/ cache' = [cache EXCEPT !.ids = ids, !.names = names2]
  BY DEF Parser!Insert
<1>4. CASE cache' = cache
  BY <1>1, <1>4 DEF RefInv, NamesInv, Referred
<1>5. CASE cache' = [cache EXCEPT !.ids = ids, !.names = names2]
  <2> HIDE DEF ids, names2
  <2>1. cache'.ids = ids /\ cache'.names = names2
    BY <1>2, <1>5
  <2>2. /\ DOMAIN ids = DOMAIN cache.ids \cup {Len(cache.ids) + 1}
        /\ ids[Len(cache.ids) + 1] = node /\ \A k \in DOMAIN cache.ids : ids[k] = cache.ids[k]
    BY <1>2, ListAppended DEF ids
  <2>3. /\ Parser!IsSequence(names2) /\ DOMAIN names2 = DOMAIN cache.names \cup {Len(cache.names) + 1}
        /\ names2[Len(cache.names) + 1] = node /\ \A k \in DOMAIN cache.names : names2[k] = cache.names[k]
    BY <1>2, ListAppended DEF names2
  <2>4. \A k \in DOMAIN names2 : \E j \in DOMAIN ids : names2[k] = ids[j]
    BY <1>2, <2>2, <2>3
  <2> QED BY <1>1, <2>1, <2>3, <2>4 DEF RefInv, NamesInv, Referred
<1> QED BY <1>3, <1>4, <1>5

LEMMA SortNames ==
    ASSUME RefInv, LoadInv, Parser!Sort
    PROVE  RefInv'
<1>1. heap' = heap
  BY DEF Parser!Sort, Parser!memory
<1>2. /\ DOMAIN cache = {"size", "ids", "names"} /\ Parser!IsSequence(cache.names)
      /\ \A k \in DOMAIN cache.names : \E j \in DOMAIN cache.ids : cache.names[k] = cache.ids[j]
  BY DEF LoadInv, CacheInv, RefInv, NamesInv
<1> DEFINE keys == [k \in DOMAIN cache.names |-> heap[cache.names[k]].name]
<1>3. cache' = cache \/ \E names2 \in Parser!Sortings(cache.names, keys) : cache' = [cache EXCEPT !.names = names2]
  BY DEF Parser!Sort
<1> HIDE DEF keys
<1>4. CASE cache' = cache
  BY <1>1, <1>4 DEF RefInv, NamesInv, Referred
<1>5. ASSUME NEW names2 \in Parser!Sortings(cache.names, keys), cache' = [cache EXCEPT !.names = names2]
      PROVE  RefInv'
  <2>1. cache'.ids = cache.ids /\ cache'.names = names2
    BY <1>2, <1>5
  <2>2. PICK q : Moves(q, cache.names, names2)
    BY SortingMoves
  <2>3. /\ Parser!IsSequence(names2) /\ DOMAIN names2 = DOMAIN cache.names
        /\ Permutes(q, DOMAIN cache.names) /\ \A k \in DOMAIN cache.names : names2[k] = cache.names[q[k]]
    BY ONLY <1>2, <2>2, SortedTable
  <2>4. \A k \in DOMAIN names2 : \E j \in DOMAIN cache.ids : names2[k] = cache.ids[j]
    BY <1>2, <2>3 DEF Permutes
  <2> QED BY <1>1, <2>1, <2>3, <2>4 DEF RefInv, NamesInv, Referred
<1> QED BY <1>3, <1>4, <1>5

LEMMA ReleaseNames ==
    ASSUME RefInv, NEW nodes, Parser!Release(nodes)
    PROVE  RefInv'
<1>1. heap' = heap /\ cache' = Parser!NoCache
  BY DEF Parser!Release
<1> DEFINE c == Parser!NoCache
<1>2. c.names = <<>>
  BY DEF Parser!NoCache
<1> HIDE DEF c
<1>3. /\ Parser!IsSequence(c.names)
      /\ \A k \in DOMAIN c.names : \E j \in DOMAIN c.ids : c.names[k] = c.ids[j]
  BY ONLY <1>2, EmptyNames
<1> QED BY <1>1, <1>3 DEF c, RefInv, NamesInv, Referred

LEMMA CacheKept ==
    ASSUME RefInv, cache' = cache, Referred(heap')
    PROVE  RefInv'
BY DEF RefInv, NamesInv, Referred, Suits

LEMMA HeapKept ==
    ASSUME RefInv, cache' = cache, heap' = heap
    PROVE  RefInv'
BY DEF RefInv, NamesInv, Referred, Suits

LEMMA RefKeeps ==
    ASSUME LoadInv, RefInv, Parser!Next
    PROVE  RefInv'
<1> USE DEF Parser!memory
<1>1. CASE Parser!Count
  BY <1>1, HeapKept DEF Parser!Count
<1>2. CASE Parser!Create \/ Parser!Insert \/ Parser!Sort
  BY <1>2, CreateNames, InsertNames, SortNames
<1>3. CASE Parser!SkipHeader \/ Parser!Skip
  BY <1>3, HeapKept DEF Parser!SkipHeader, Parser!Skip
<1>4. CASE Parser!StartNode
  <2>1. cache' = cache
    BY <1>4 DEF Parser!StartNode
  <2> QED BY <1>4, <2>1, CacheKept, StartNodeSuits DEF RefInv
<1>5. CASE Parser!ParseField
  <2>1. cache' = cache
    BY <1>5 DEF Parser!ParseField
  <2> QED BY <1>5, <2>1, CacheKept, ParseFieldSuits DEF RefInv
<1>6. CASE Parser!EnterMap \/ Parser!LeaveMap
  <2>1. cache' = cache
    BY <1>6 DEF Parser!EnterMap, Parser!LeaveMap
  <2> QED BY <1>6, <2>1, CacheKept, EnterMapSuits, LeaveMapSuits DEF RefInv
<1>7. CASE Parser!EnterOneof \/ Parser!LeaveOneof
  <2>1. cache' = cache
    BY <1>7 DEF Parser!EnterOneof, Parser!LeaveOneof
  <2> QED BY <1>7, <2>1, CacheKept, EnterOneofSuits, LeaveOneofSuits DEF RefInv
<1>8. CASE Parser!ParseBadItem
  BY <1>8, HeapKept DEF Parser!ParseBadItem, Parser!FailHere
<1>9. CASE Parser!CloseOneof \/ Parser!CloseMessage \/ Parser!ParseEnum
  <2>1. cache' = cache
    BY <1>9 DEF Parser!CloseOneof, Parser!CloseMessage, Parser!ParseEnum
  <2> QED BY <1>9, <2>1, CacheKept, CloseOneofSuits, CloseMessageSuits, ParseEnumSuits DEF RefInv
<1>10. CASE Parser!LinkNode
  <2>1. cache' = cache
    BY <1>10 DEF Parser!LinkNode
  <2> QED BY <1>10, <2>1, CacheKept, LinkNodeSuits
<1>11. CASE Parser!Linked \/ Parser!RefuseTail
  BY <1>11, HeapKept DEF Parser!Linked, Parser!RefuseTail
<1>12. CASE Parser!Unwind \/ Parser!Discard \/ Parser!Destroy
  BY <1>12, ReleaseNames DEF Parser!Unwind, Parser!Discard, Parser!Destroy
<1> QED BY ONLY Parser!Next, <1>1, <1>2, <1>3, <1>4, <1>5, <1>6, <1>7, <1>8, <1>9, <1>10, <1>11, <1>12 DEF Parser!Next

-----------------------------------------------------------------------------
(* What the walk finds: the nodes of the loaded cache *)

\* The walk has a name for every node, and for it as an enum.
Addressed == \A a \in DOMAIN heap : a \in Node /\ -a \in Node
Loaded == LoadInv /\ RefInv /\ Addressed /\ stage = "loaded"

LEMMA LoadedHeap ==
    ASSUME Loaded
    PROVE  /\ live = DOMAIN heap /\ DOMAIN heap \subseteq Nat \ {0}
           /\ \A a \in DOMAIN heap : Parser!IsSequence(heap[a].fields)
           /\ \A k \in DOMAIN cache.ids : cache.ids[k] \in DOMAIN heap /\ heap[cache.ids[k]].kind \notin Parser!Owning
<1>1. DOMAIN heap = 1 .. Len(heap) /\ Len(heap) \in Nat
  BY ListParts DEF Loaded, LoadInv, Sound
<1> QED BY <1>1 DEF Loaded, LoadInv, AliveInv, RootsInv, CacheInv, Sound, Whole

\* What a field refers to is a node, or nothing.
LEMMA SubKnown ==
    ASSUME Loaded, NEW a \in DOMAIN heap, heap[a].kind # "enum", NEW k \in DOMAIN heap[a].fields
    PROVE  LET f == heap[a].fields[k] IN
           /\ f.sub = Parser!Null \/ f.sub \in DOMAIN heap
           /\ f.type \in Parser!Owning => f.sub \in DOMAIN heap /\ heap[f.sub].kind = f.type
           /\ f.type \notin Parser!Owning => f.sub = Parser!Null \/ heap[f.sub].kind \notin Parser!Owning
           /\ heap[a].kind = "oneof" => f.type # "oneof"
<1> DEFINE f == heap[a].fields[k]
<1>1. Suits(heap, heap[a].kind, f)
  BY DEF Loaded, RefInv, Referred
<1>2. f.type \in Parser!Owning => f.sub \in DOMAIN heap /\ heap[f.sub].kind = f.type
  BY DEF Loaded, LoadInv, Sound, Hung, Hangs, SubOf
<1> QED BY <1>1, <1>2 DEF Suits

\* The name of a node is its own: that of an enum is below 0.
LEMMA IdOfNode ==
    ASSUME Loaded, NEW n, n = Parser!Null \/ n \in DOMAIN heap
    PROVE  /\ Id(n) \in Node /\ Id(n) \in Int
           /\ \A o \in DOMAIN heap : Id(n) = o => n = o /\ heap[n].kind # "enum"
<1>1. DOMAIN heap \subseteq Nat \ {0} /\ Parser!Null = 0
  BY LoadedHeap DEF Parser!Null
<1>2. Node \subseteq Int /\ Parser!Null \in Node
  BY NodeAssumption
<1>3. CASE n = Parser!Null
  BY <1>1, <1>2, <1>3 DEF Id
<1>4. CASE n \in DOMAIN heap
  BY <1>1, <1>2, <1>4 DEF Id, Loaded, Addressed
<1> QED BY <1>3, <1>4

\* The fields the walk reads of a node.
LEMMA WalkedOf ==
    ASSUME Loaded, NEW id \in Node
    PROVE  \/ WalkedFields(id) = <<>>
           \/ /\ id < 0 /\ -id \in DOMAIN heap
              /\ WalkedFields(id) = [k \in DOMAIN heap[-id].fields |-> <<"scalar", 0>>]
           \/ /\ id \in DOMAIN heap /\ heap[id].kind # "enum"
              /\ WalkedFields(id) = [k \in DOMAIN heap[id].fields |-> Walked(heap[id].fields[k])]
<1> DEFINE a == Address(id)
           own == heap[a].fields
<1>1. id \in Int /\ live = DOMAIN heap /\ DOMAIN heap \subseteq Nat \ {0} /\ Parser!Null = 0
  BY NodeAssumption, LoadedHeap DEF Parser!Null
<1>2. CASE a \notin live \/ Id(a) # id
  BY <1>2 DEF WalkedFields
<1>3. CASE a \in live /\ Id(a) = id /\ id < 0
  <2>1. WalkedFields(id) = [k \in DOMAIN own |-> <<"scalar", 0>>]
    BY <1>3 DEF WalkedFields
  <2>2. a = -id
    BY <1>3 DEF Address
  <2> QED BY <1>1, <1>3, <2>1, <2>2
<1>4. CASE a \in live /\ Id(a) = id /\ ~(id < 0)
  <2>1. WalkedFields(id) = [k \in DOMAIN own |-> Walked(own[k])]
    BY <1>4 DEF WalkedFields
  <2>2. a = id
    BY <1>4 DEF Address
  <2>3. heap[id].kind # "enum"
    BY <1>1, <1>4, <2>2, IdOfNode
  <2> QED BY <1>1, <1>4, <2>1, <2>2, <2>3
<1> QED BY <1>2, <1>3, <1>4

LEMMA WalkedField ==
    ASSUME NEW f
    PROVE  /\ Walked(f)[1] \in Kind
           /\ Refers(Walked(f)) <=> f.type \in Composite
           /\ Walked(f)[1] = "oneof" <=> f.type = "oneof"
           /\ Refers(Walked(f)) => Walked(f)[2] = Id(f.sub)
           /\ ~Refers(Walked(f)) => Walked(f)[2] = 0
           /\ Walked(f) = <<Walked(f)[1], Walked(f)[2]>>
BY DEF Walked, Refers, Composite, Kind

LEMMA WalkedTypes ==
    ASSUME Loaded, NEW id \in Node
    PROVE  WalkedFields(id) \in Seq(Field)
<1>1. CASE WalkedFields(id) = <<>>
  BY <1>1
<1>2. 0 \in Node /\ <<"scalar", 0>> \in Field
  BY NodeAssumption DEF Parser!Null, Field, Kind
<1>3. CASE /\ id < 0 /\ -id \in DOMAIN heap
           /\ WalkedFields(id) = [k \in DOMAIN heap[-id].fields |-> <<"scalar", 0>>]
  <2> DEFINE own == heap[-id].fields
  <2>1. DOMAIN own = 1 .. Len(own) /\ Len(own) \in Nat
    BY <1>3, LoadedHeap, ListParts
  <2> HIDE DEF own
  <2>2. [k \in 1 .. Len(own) |-> <<"scalar", 0>>] \in Seq(Field)
    BY <1>2, <2>1
  <2> QED BY <1>3, <2>1, <2>2 DEF own
<1>4. CASE /\ id \in DOMAIN heap /\ heap[id].kind # "enum"
           /\ WalkedFields(id) = [k \in DOMAIN heap[id].fields |-> Walked(heap[id].fields[k])]
  <2> DEFINE own == heap[id].fields
             walked == [k \in DOMAIN own |-> Walked(own[k])]
  <2>1. DOMAIN own = 1 .. Len(own) /\ Len(own) \in Nat
    BY <1>4, LoadedHeap, ListParts
  <2>2. ASSUME NEW k \in DOMAIN own PROVE Walked(own[k]) \in Field
    <3> DEFINE f == own[k]
    <3>1. f.sub = Parser!Null \/ f.sub \in DOMAIN heap
      BY <1>4, SubKnown
    <3>2. Id(f.sub) \in Node
      BY <3>1, IdOfNode
    <3> HIDE DEF f
    <3>3. Walked(f)[1] \in Kind /\ Walked(f)[2] \in Node /\ Walked(f) = <<Walked(f)[1], Walked(f)[2]>>
      BY <1>2, <3>2, WalkedField
    <3> QED BY <3>3 DEF f, Field
  <2> HIDE DEF own
  <2>3. walked \in Seq(Field)
    BY <2>1, <2>2
  <2> QED BY <1>4, <2>3 DEF own
<1> QED BY <1>1, <1>3, <1>4, WalkedOf

\* A field the walk may go down is one of a node, and refers to what that refers to.
LEMMA WalkedRefers ==
    ASSUME Loaded, NEW id \in Node, NEW k \in DOMAIN WalkedFields(id), Refers(WalkedFields(id)[k])
    PROVE  /\ id \in DOMAIN heap /\ heap[id].kind # "enum" /\ k \in DOMAIN heap[id].fields
           /\ WalkedFields(id)[k][2] = Id(heap[id].fields[k].sub)
           /\ WalkedFields(id)[k][1] = "oneof" <=> heap[id].fields[k].type = "oneof"
<1>1. WalkedFields(id) # <<>>
  OBVIOUS
<1>2. ~(/\ id < 0 /\ -id \in DOMAIN heap
        /\ WalkedFields(id) = [j \in DOMAIN heap[-id].fields |-> <<"scalar", 0>>])
  BY DEF Refers
<1>3. /\ id \in DOMAIN heap /\ heap[id].kind # "enum"
      /\ WalkedFields(id) = [j \in DOMAIN heap[id].fields |-> Walked(heap[id].fields[j])]
  BY <1>1, <1>2, WalkedOf
<1> QED BY <1>3, WalkedField

\* So a oneof is that of one message, and no field but one of that refers to it.
LEMMA WalkedOnce ==
    ASSUME Loaded, NEW m \in Node, NEW n \in Node, NEW j \in DOMAIN WalkedFields(m), NEW k \in DOMAIN WalkedFields(n),
           WalkedFields(m)[j][1] = "oneof", Refers(WalkedFields(n)[k]), WalkedFields(n)[k][2] = WalkedFields(m)[j][2]
    PROVE  n = m /\ WalkedFields(n)[k][1] = "oneof"
<1> DEFINE f == heap[m].fields[j]
           g == heap[n].fields[k]
           o == f.sub
<1>1. Refers(WalkedFields(m)[j])
  BY DEF Refers
<1>2. /\ m \in DOMAIN heap /\ heap[m].kind # "enum" /\ j \in DOMAIN heap[m].fields /\ f.type = "oneof"
      /\ WalkedFields(m)[j][2] = Id(o)
  BY <1>1, WalkedRefers
<1>3. /\ n \in DOMAIN heap /\ heap[n].kind # "enum" /\ k \in DOMAIN heap[n].fields
      /\ WalkedFields(n)[k][2] = Id(g.sub) /\ (WalkedFields(n)[k][1] = "oneof" <=> g.type = "oneof")
  BY WalkedRefers
<1>4. o \in DOMAIN heap /\ heap[o].kind = "oneof" /\ Id(o) = o /\ DOMAIN heap \subseteq Nat \ {0} /\ Parser!Null = 0
  <2>1. o \in DOMAIN heap /\ heap[o].kind = "oneof"
    BY <1>2, SubKnown DEF Parser!Owning
  <2> QED BY <2>1, LoadedHeap DEF Id, Parser!Null
<1>5. g.sub = o
  <2>1. g.sub = Parser!Null \/ g.sub \in DOMAIN heap
    BY <1>3, SubKnown
  <2>2. Id(g.sub) = o
    BY <1>2, <1>3, <1>4
  <2> QED BY <1>4, <2>1, <2>2, IdOfNode
<1>6. g.type \in Parser!Owning
  BY <1>3, <1>4, <1>5, SubKnown DEF Parser!Owning
<1>7. n = m /\ k = j
  BY <1>2, <1>3, <1>5, <1>6 DEF Loaded, LoadInv, Sound, HungOnce, Hangs, SubOf, Parser!Owning
<1> QED BY <1>2, <1>3, <1>7

\* Nor is it a root, an enum, or below another.
LEMMA WalkedOneof ==
    ASSUME Loaded, NEW m \in Node, NEW j \in DOMAIN WalkedFields(m), WalkedFields(m)[j][1] = "oneof",
           NEW o, o = WalkedFields(m)[j][2]
    PROVE  /\ o \notin Enum /\ \A r \in DOMAIN WalkedNames : WalkedNames[r] # o
           /\ o \in Node => \A k \in DOMAIN WalkedFields(o) : WalkedFields(o)[k][1] # "oneof"
<1> DEFINE f == heap[m].fields[j]
<1>1. Refers(WalkedFields(m)[j])
  BY DEF Refers
<1>2. /\ m \in DOMAIN heap /\ heap[m].kind # "enum" /\ j \in DOMAIN heap[m].fields /\ f.type = "oneof"
      /\ o = Id(f.sub)
  BY <1>1, WalkedRefers
<1>3. f.sub \in DOMAIN heap /\ heap[f.sub].kind = "oneof"
  BY <1>2, SubKnown DEF Parser!Owning
<1>4. o = f.sub /\ o \in DOMAIN heap /\ heap[o].kind = "oneof" /\ DOMAIN heap \subseteq Nat \ {0} /\ Parser!Null = 0
  BY <1>2, <1>3, LoadedHeap DEF Id, Parser!Null
<1>5. o \notin Enum
  BY <1>4, NodeAssumption
<1>6. ASSUME NEW r \in DOMAIN WalkedNames PROVE WalkedNames[r] # o
  <2>1. r \in DOMAIN cache.names /\ WalkedNames[r] = Id(cache.names[r])
    BY DEF WalkedNames
  <2>2. PICK k \in DOMAIN cache.ids : cache.names[r] = cache.ids[k]
    BY <2>1 DEF Loaded, RefInv, NamesInv
  <2>3. cache.names[r] \in DOMAIN heap /\ heap[cache.names[r]].kind \notin Parser!Owning
    BY <2>2, LoadedHeap
  <2> QED BY <1>4, <2>1, <2>3, IdOfNode DEF Parser!Owning
<1>7. ASSUME o \in Node, NEW k \in DOMAIN WalkedFields(o), WalkedFields(o)[k][1] = "oneof" PROVE FALSE
  <2>1. Refers(WalkedFields(o)[k])
    BY <1>7 DEF Refers
  <2>2. heap[o].kind # "enum" /\ k \in DOMAIN heap[o].fields /\ heap[o].fields[k].type = "oneof"
    BY <1>7, <2>1, WalkedRefers
  <2> QED BY <1>4, <2>2, SubKnown
<1> QED BY <1>5, <1>6, <1>7

LEMMA WalkedEnum ==
    ASSUME Loaded, NEW e \in Node, e \in Enum, NEW k \in DOMAIN WalkedFields(e)
    PROVE  ~Refers(WalkedFields(e)[k])
<1> SUFFICES ASSUME Refers(WalkedFields(e)[k]) PROVE FALSE
  OBVIOUS
<1>1. e \in DOMAIN heap
  BY WalkedRefers
<1>2. DOMAIN heap \subseteq Nat \ {0} /\ e < 0
  BY LoadedHeap, NodeAssumption
<1> QED BY <1>1, <1>2

\* The walk starts on what the parser has built, and with it all it is proved of.
Handed ==
    /\ Loaded /\ fields = WalkedNodes /\ names = WalkedNames
    /\ phase = "walk" /\ i = 1 /\ path = <<>> /\ size = [s \in Slot |-> InitSize] /\ busy = 0

LEMMA HandedOneofs ==
    ASSUME Handed
    PROVE  OneofsOwned
<1>1. Loaded /\ Enum \subseteq Node /\ names = WalkedNames /\ \A id \in Node : fields[id] = WalkedFields(id)
  BY PresizeAssumption DEF Handed, WalkedNodes
<1>2. ASSUME NEW m \in Node, NEW n \in Node, NEW j \in DOMAIN fields[m], NEW k \in DOMAIN fields[n],
             fields[m][j][1] = "oneof", Refers(fields[n][k]), fields[n][k][2] = fields[m][j][2]
      PROVE  n = m /\ fields[n][k][1] = "oneof"
  <2>1. /\ j \in DOMAIN WalkedFields(m) /\ k \in DOMAIN WalkedFields(n)
        /\ WalkedFields(m)[j][1] = "oneof" /\ Refers(WalkedFields(n)[k])
        /\ WalkedFields(n)[k][2] = WalkedFields(m)[j][2] /\ fields[n] = WalkedFields(n)
    BY <1>1, <1>2
  <2> QED BY ONLY <1>1, <2>1, m \in Node, n \in Node, WalkedOnce
<1>3. ASSUME NEW o \in Node, IsOneof(o)
      PROVE  /\ o \notin Enum /\ \A r \in DOMAIN names : names[r] # o
             /\ \A k \in DOMAIN fields[o] : fields[o][k][1] # "oneof"
  <2>1. PICK m \in Node : \E j \in DOMAIN fields[m] : fields[m][j][1] = "oneof" /\ fields[m][j][2] = o
    BY <1>3 DEF IsOneof
  <2>2. PICK j \in DOMAIN WalkedFields(m) : WalkedFields(m)[j][1] = "oneof" /\ WalkedFields(m)[j][2] = o
    BY <1>1, <2>1
  <2>3. /\ o \notin Enum /\ \A r \in DOMAIN WalkedNames : WalkedNames[r] # o
        /\ \A k \in DOMAIN WalkedFields(o) : WalkedFields(o)[k][1] # "oneof"
    BY ONLY <1>1, <2>2, m \in Node, o \in Node, WalkedOneof
  <2> QED BY <1>1, <2>3
<1>4. ASSUME NEW e \in Enum, NEW k \in DOMAIN fields[e] PROVE ~Refers(fields[e][k])
  <2>1. e \in Node /\ fields[e] = WalkedFields(e)
    BY <1>1
  <2> QED BY <1>1, <1>4, <2>1, WalkedEnum
<1> QED BY <1>2, <1>3, <1>4 DEF OneofsOwned

LEMMA HandedStarts == Handed => WInv
<1> SUFFICES ASSUME Handed PROVE WInv
  OBVIOUS
<1>1. fields \in [Node -> Seq(Field)]
  BY WalkedTypes DEF Handed, WalkedNodes
<1>2. names \in Seq(Node)
  <2> DEFINE given == cache.names
             n == Len(given)
  <2>1. n \in Nat /\ DOMAIN given = 1 .. n
    BY ListParts DEF Handed, Loaded, RefInv, NamesInv
  <2>2. ASSUME NEW k \in DOMAIN given PROVE Id(given[k]) \in Node
    <3>1. PICK j \in DOMAIN cache.ids : given[k] = cache.ids[j]
      BY DEF Handed, Loaded, RefInv, NamesInv
    <3>2. Loaded /\ given[k] \in DOMAIN heap
      BY <3>1, LoadedHeap DEF Handed
    <3> QED BY <3>2, IdOfNode
  <2>3. names = [k \in DOMAIN given |-> Id(given[k])]
    BY DEF Handed, WalkedNames
  <2> HIDE DEF given, n
  <2> QED BY <2>1, <2>2, <2>3
<1>3. Init
  BY <1>1, <1>2 DEF Handed, Init
<1> QED BY <1>3, HandedOneofs, WalkStarts

-----------------------------------------------------------------------------
(* The whole load, and the codecs after it *)

\* Until the parser is done, there is no schema, and the walk has not begun.
Idle ==
    stage \notin {"loaded", "failed", "destroyed"} =>
        /\ fields = [id \in Node |-> <<>>] /\ names = <<>>
        /\ phase = "walk" /\ i = 1 /\ path = <<>> /\ size = [s \in Slot |-> InitSize] /\ busy = 0
LoadedInv == LoadInv /\ RefInv /\ Idle /\ WInv

LEMMA ScheduleStarts == LoadInit => LoadedInv
<1> SUFFICES ASSUME LoadInit PROVE LoadedInv
  OBVIOUS
<1>1. LoadInv
  BY StartHolds
<1>2. RefInv
  <2>1. heap = <<>> /\ cache = Parser!NoCache /\ Parser!NoCache.names = <<>>
    BY DEF LoadInit, Parser!Init, Parser!NoCache
  <2>2. NamesInv
    BY <2>1, EmptyNames DEF NamesInv
  <2>3. Referred(heap)
    BY <2>1 DEF Referred
  <2> QED BY <2>2, <2>3 DEF RefInv
<1>3. Idle
  BY DEF LoadInit, Idle
<1>4. fields = [id \in Node |-> <<>>] /\ names = <<>> /\ Enum \subseteq Node
  BY PresizeAssumption DEF LoadInit
<1>5. Init
  BY <1>4 DEF LoadInit, Init
<1>6. OneofsOwned
  BY <1>4 DEF OneofsOwned, IsOneof
<1> QED BY <1>1, <1>2, <1>3, <1>5, <1>6, WalkStarts DEF LoadedInv

\* A load that is given up takes no step of the walk any more.
LEMMA GivenUp ==
    ASSUME WInv, phase' = "failed", UNCHANGED <<fields, names, i, path, size, busy>>
    PROVE  WInv'
<1>1. TypeOK'
  BY DEF WInv, IInv, TypeOK
<1>2. IInv'
  BY <1>1 DEF IInv, InsideStack
<1>3. DepthInv' /\ CodecInv'
  BY DEF DepthInv, CodecInv
<1>4. OneofsOwned'
  BY DEF WInv, OneofsOwned, IsOneof
<1> QED BY <1>2, <1>3, <1>4 DEF WInv

LEMMA HandedNext == Handed' => WInv'
BY HandedStarts, PTL

LEMMA ParseWalks ==
    ASSUME LoadedInv, Addressed', Parse
    PROVE  WInv' /\ Idle' /\ UNCHANGED size
<1>1. LoadInv' /\ RefInv' /\ stage \notin {"loaded", "failed", "destroyed"}
  BY ParserKeeps, RefKeeps DEF Parse, LoadedInv
<1>2. /\ phase = "walk" /\ i = 1 /\ path = <<>> /\ size = [s \in Slot |-> InitSize] /\ busy = 0
      /\ fields = [id \in Node |-> <<>>] /\ names = <<>>
  BY <1>1 DEF LoadedInv, Idle
<1>3. UNCHANGED <<i, path, size, busy>> /\ phase' = IF stage' = "failed" THEN "failed" ELSE phase
  BY DEF Parse
<1>4. CASE stage' = "loaded"
  <2>1. fields' = WalkedNodes' /\ names' = WalkedNames'
    BY <1>4 DEF Parse
  <2>2. Handed'
    BY <1>1, <1>2, <1>3, <1>4, <2>1 DEF Handed, Loaded
  <2>3. Idle'
    BY <1>4 DEF Idle
  <2> QED BY <1>3, <2>2, <2>3, HandedNext
<1>5. CASE stage' = "failed"
  <2>1. UNCHANGED <<fields, names>>
    BY <1>5 DEF Parse, schema
  <2>2. Idle'
    BY <1>5 DEF Idle
  <2> QED BY <1>3, <1>5, <2>1, <2>2, GivenUp DEF LoadedInv
<1>6. CASE stage' \notin {"loaded", "failed"}
  <2>1. UNCHANGED vars /\ UNCHANGED <<fields, names>>
    BY <1>3, <1>6 DEF Parse, schema, vars
  <2>2. Idle'
    BY <1>2, <1>3, <1>6, <2>1 DEF Idle
  <2> QED BY <1>3, <2>1, <2>2, WalkKeeps DEF LoadedInv
<1> QED BY <1>4, <1>5, <1>6

LEMMA LoadSteps == LoadedInv /\ Addressed' /\ [LoadNext]_<<vars, loading>> => LoadedInv'
<1> SUFFICES ASSUME LoadedInv, Addressed', [LoadNext]_<<vars, loading>> PROVE LoadedInv'
  OBVIOUS
<1>1. LoadInv'
  BY StepKeeps DEF LoadedInv
<1>2. CASE Parse
  <2>1. RefInv'
    BY <1>2, RefKeeps DEF Parse, LoadedInv
  <2> QED BY <1>1, <1>2, <2>1, ParseWalks DEF LoadedInv
<1>3. CASE UNCHANGED loading /\ [Next]_vars /\ (stage = "loaded" \/ UNCHANGED vars)
  <2>1. UNCHANGED <<stage, cache, heap>>
    BY <1>3 DEF loading
  <2>2. RefInv'
    BY <2>1, HeapKept DEF LoadedInv
  <2>3. Idle'
    BY <1>3, <2>1 DEF LoadedInv, Idle, vars, schema
  <2> QED BY <1>1, <1>3, <2>2, <2>3, WalkKeeps DEF LoadedInv
<1>4. CASE Destroy
  <2>1. Parser!Destroy /\ UNCHANGED vars
    BY <1>4 DEF Destroy
  <2>2. RefInv'
    BY <2>1, ReleaseNames DEF Parser!Destroy, LoadedInv
  <2>3. Idle'
    BY <2>1 DEF Idle, Parser!Destroy
  <2> QED BY <1>1, <2>1, <2>2, <2>3, WalkKeeps DEF LoadedInv
<1>5. CASE Walk \/ Codec \/ UNCHANGED <<vars, loading>>
  BY <1>3, <1>5 DEF Walk, Codec, Next
<1> QED BY ONLY [LoadNext]_<<vars, loading>>, <1>2, <1>4, <1>5 DEF LoadNext

\* Every load, and every codec after it, satisfies the invariant.
THEOREM LoadedInvariance == LoadSpec /\ []Addressed => []LoadedInv
BY ScheduleStarts, LoadSteps, PTL DEF LoadSpec

\* The schema that the parser hands over is one, and what the walk and the
\* codecs make of it keeps its types.
THEOREM TypesAfterLoad == LoadSpec /\ []Addressed => []TypeOK
<1>1. LoadedInv => TypeOK
  BY DEF LoadedInv, WInv, IInv
<1> QED BY <1>1, LoadedInvariance, PTL

\* Whatever was parsed, neither the walk nor a codec writes a spot past the
\* end of its stack.
THEOREM NoOverrunAfterLoad == LoadSpec /\ []Addressed => []InsideStack
<1>1. LoadedInv => InsideStack
  BY DEF LoadedInv, WInv, IInv
<1> QED BY <1>1, LoadedInvariance, PTL

\* The walk never goes down into a node of the parser that it is inside of.
THEOREM WalkSimpleAfterLoad == LoadSpec /\ []Addressed => []PathSimple
<1>1. LoadedInv => PathSimple
  BY DEF LoadedInv, WInv, IInv, PathUnique, PathSimple
<1> QED BY <1>1, LoadedInvariance, PTL

\* Whatever definition list was loaded, no codec reallocates its stack unless
\* a message is inside itself: what the parser builds hangs its oneofs as the
\* walk takes for granted.
THEOREM PresizedAfterLoad == LoadSpec /\ []Addressed => PresizedForAll
<1>1. LoadedInv /\ Addressed' /\ [LoadNext]_<<vars, loading>> => [phase = "serve" /\ size' # size => Recursive']_vars
  <2> SUFFICES ASSUME LoadedInv, Addressed', [LoadNext]_<<vars, loading>>, phase = "serve", size' # size PROVE Recursive'
    OBVIOUS
  <2>1. CASE Parse
    BY <2>1, ParseWalks
  <2>2. CASE Walk \/ Codec
    <3>1. Next
      BY <2>2 DEF Walk, Codec, Next
    <3> QED BY <3>1, StackSuffices DEF LoadedInv
  <2>3. CASE Destroy \/ UNCHANGED <<vars, loading>>
    BY <2>3 DEF Destroy, vars
  <2> QED BY ONLY [LoadNext]_<<vars, loading>>, <2>1, <2>2, <2>3 DEF LoadNext
<1> QED BY <1>1, LoadedInvariance, PTL DEF LoadSpec, PresizedForAll
=============================================================================
