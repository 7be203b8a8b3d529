------------------------- MODULE EpParserReference -------------------------
(***************************************************************************)
(* What a definition list declares, read off the list itself, and that a   *)
(* load builds exactly that, refuses the rest, and leaks nothing.  It does *)
(* build, without saying ok, a list with improper options in it.           *)
(***************************************************************************)
EXTENDS EpParser

Declared == {i \in DOMAIN defs : defs[i][1] \in {"msg", "group", "enum"}}
Names == {defs[i][2] : i \in Declared}

FieldItems(items) ==     \* the fields of a message, alternatives of oneofs included
    UNION {IF items[i][1] = "oneof" THEN ToSet(items[i][4]) ELSE {items[i]} : i \in DOMAIN items}

\* The definition names a field refers to, through the value of a map too.
Refers(type) ==
    IF type[1] = "map" THEN IF type[3][1] \in Ref THEN {type[3][2]} ELSE {}
    ELSE IF type[1] \in Ref THEN {type[2]} ELSE {}

SoundType(type) ==
    \/ type[1] \in Scalars \cup Ref \cup {"unknown"}
    \/ type[1] = "map" /\ type[2] \in KeyType /\ type[3][1] \in Scalars \cup Ref \cup {"unknown"}
SoundField(item) ==
    /\ item[1] = "field" /\ item[2] # Bad /\ item[4] # Bad /\ item[6] # "bad"
    /\ SoundType(item[5])
    /\ item[3] = Bad => item[5][1] = "unknown"
    /\ <<"bad">> \notin ToSet(item[7])
SoundOneof(item) ==
    /\ item[1] = "oneof" /\ item[2] # Bad /\ item[3] # Bad /\ item[4] # <<>>
    /\ \A i \in DOMAIN item[4] : SoundField(item[4][i])
AllowsAlias(items) ==
    LET options == {i \in DOMAIN items : items[i][1] = "option"}
    IN  options # {} /\ items[Max(options)][2]
SoundEnum(items) ==
    LET symbols == {i \in DOMAIN items : items[i][1] = "symbol"}
    IN  /\ \A i \in DOMAIN items : items[i] # <<"bad">>
        /\ \A i \in symbols : items[i][2] # Bad /\ items[i][3] # Bad
        /\ \A i, j \in symbols : items[i][2] = items[j][2] => i = j
        /\ AllowsAlias(items) \/ \A i, j \in symbols : items[i][3] = items[j][3] => i = j

\* What load_cache installs.
Loadable ==
    /\ \A i \in DOMAIN defs :
        /\ defs[i] \notin {<<"bad">>, <<"tail">>}
        /\ defs[i][1] = "syntax" => defs[i][2] # Bad
        /\ defs[i][1] \notin {"syntax", "proto3_msgs"} => ~Improper(defs[i][3])
    /\ Declared # {}
    /\ (\E i \in DOMAIN defs : defs[i][1] = "proto3_msgs") =>
          Bad \notin ToSet(defs[Max({j \in DOMAIN defs : defs[j][1] = "proto3_msgs"})][2])
    /\ \A i \in Declared : defs[i][2] # Bad
    /\ \A i \in Declared :
        IF defs[i][1] = "enum" THEN SoundEnum(defs[i][3])
        ELSE /\ \A k \in DOMAIN defs[i][3] : SoundField(defs[i][3][k]) \/ SoundOneof(defs[i][3][k])
             /\ \A f \in FieldItems(defs[i][3]) : Refers(f[5]) \subseteq Names

\* What load_cache should install: the options of every field are a list too.
OptionsProper ==
    \A i \in Declared :
        defs[i][1] # "enum" => \A f \in FieldItems(defs[i][3]) : ~Improper(f[7])
Sound == Loadable /\ OptionsProper

-----------------------------------------------------------------------------
(* Definition lists as gpb makes them from .proto files *)

Slot(item) == IF item[1] = "oneof" THEN item[3] ELSE item[4]
Numbered(items) == {f \in FieldItems(items) : f[5][1] # "unknown"}
KindOf(name) == defs[CHOOSE i \in Declared : defs[i][2] = name][1]

\* Every tuple element has one item, every number and every name is used
\* once, and a reference is to a definition of the right kind.
WellFormed ==
    /\ Loadable
    /\ \A i, j \in Declared : defs[i][2] = defs[j][2] => i = j
    /\ \A i \in Declared : defs[i][1] # "enum" =>
        LET items == defs[i][3]
        IN  /\ {Slot(items[k]) : k \in DOMAIN items} = 2 .. Len(items) + 1
            /\ \A f, g \in FieldItems(items) : f[2] = g[2] => f = g
            /\ \A f, g \in Numbered(items) : f[3] = g[3] => f = g
            /\ \A f \in Numbered(items) : f[3] > 0
            /\ \A f \in FieldItems(items) :
                /\ f[5][1] \in Ref => KindOf(f[5][2]) = f[5][1]
                /\ f[5][1] = "map" => /\ f[6] = "repeated"
                                      /\ f[5][3][1] \in Scalars \cup {"enum", "msg"}
                                      /\ f[5][3][1] \in Ref => KindOf(f[5][3][2]) = f[5][3][1]
            /\ \A k \in DOMAIN items : items[k][1] = "oneof" =>
                \A a \in DOMAIN items[k][4] : items[k][4][a][5][1] \notin {"map", "unknown"}

-----------------------------------------------------------------------------
(* What a field is to the codecs, as declared and as loaded *)

Target(type) == IF type[1] \in Ref THEN type[2] ELSE Null
ItemView(item, inOneof) ==
    [name |-> item[2], slot |-> item[4] - 1, type |-> item[5][1], target |-> Target(item[5]),
     occ |-> item[6], oneof |-> inOneof,
     packed |-> <<"packed">> \in ToSet(item[7]) /\ item[5][1] \in {"int", "float", "enum"},
     entry |-> IF item[5][1] = "map" THEN <<item[5][2], item[5][3][1], Target(item[5][3])>> ELSE <<>>]

Entry(n) ==
    LET k == At(GetField(n, 1))
        v == At(GetField(n, 2))
    IN  <<k.type, v.type, IF v.sub = Null THEN Null ELSE heap[v.sub].name>>
FieldView(f) ==
    [name |-> f.name, slot |-> f.rnum, type |-> f.type, occ |-> f.occ, oneof |-> f.oneof,
     target |-> IF f.type \in Ref /\ f.sub # Null THEN heap[f.sub].name ELSE Null,
     packed |-> f.packed, entry |-> IF f.type = "map" THEN Entry(f.sub) ELSE <<>>]

InOneof(items, f) == \E k \in DOMAIN items : items[k][1] = "oneof" /\ f \in ToSet(items[k][4])

\* get_field finds the fields of the message by number and nothing else.
NumbersAgree(n, items) ==
    \A fnum \in 0 .. FnumMapLimit + 2 :
        LET f == {x \in Numbered(items) : x[3] = fnum}
        IN  IF f = {} THEN GetField(n, fnum) = NoField
            ELSE /\ GetField(n, fnum) # NoField
                 /\ \A x \in f : FieldView(At(GetField(n, fnum))) = ItemView(x, InOneof(items, x))

\* Element k of a message tuple belongs to field k of the node; the encoder
\* finds the alternatives of a oneof by name.
SlotsAgree(n, items) ==
    /\ heap[n].size = Len(items)
    /\ \A k \in DOMAIN items :
        LET f == heap[n].fields[Slot(items[k]) - 1]
            Alternative(a) == GetAlternative(f.sub, a[2])
        IN  /\ f.name = items[k][2]
            /\ items[k][1] = "field" => FieldView(f) = ItemView(items[k], FALSE)
            /\ items[k][1] = "oneof" =>
                /\ f.type = "oneof" /\ heap[f.sub].size = Len(items[k][4])
                /\ \A a \in ToSet(items[k][4]) :
                    Alternative(a) # NoField /\ FieldView(At(Alternative(a))) = ItemView(a, TRUE)

\* Every symbol has its number, a number the first symbol that has it, and the
\* zero of an enum is its default.
SymbolsAgree(n, items) ==
    LET symbols == SelectSeq(items, LAMBDA x : x[1] = "symbol")
        First(i) == \A j \in 1 .. i - 1 : symbols[j][3] # symbols[i][3]
    IN  \A i \in DOMAIN symbols :
            /\ EnumByName(n, symbols[i][2]) = symbols[i][3]
            /\ First(i) => EnumByValue(n, symbols[i][3]) = symbols[i][2]
            /\ First(i) /\ symbols[i][3] = 0 => EnumDefault(n) = symbols[i][2]

-----------------------------------------------------------------------------
(* Properties *)

\* Every variable of the load keeps its type.
TypeOK ==
    /\ phase \in {"count", "create", "define", "fields", "unwind", "link", "discard",
                  "loaded", "failed", "destroyed"}
    /\ proto \in {2, 3}
    /\ live \subseteq DOMAIN heap
    /\ node \in {Null} \cup DOMAIN heap
    /\ \A i \in DOMAIN cache.ids : cache.ids[i] \in DOMAIN heap
    /\ Len(cache.ids) <= cache.size
    /\ \A i \in DOMAIN frames : frames[i].node \in DOMAIN heap
    /\ corrupt \in BOOLEAN /\ denied \in BOOLEAN /\ raised \in BOOLEAN

\* parse_msg_fields and parse_oneof_fields write their fields and v_fields
\* inside the arrays that were allocated from a count made earlier.
InsideArrays ==
    /\ \A i \in DOMAIN frames : Len(frames[i].items) <= Len(heap[frames[i].node].fields)
    /\ \A n \in live : heap[n].vfields # <<>> => Len(heap[n].vfields) = heap[n].vsize

\* At no time is a node lost, or hung below two owners (the cache, the node
\* being parsed, or the field of a map or oneof in either).
OneOwner ==
    LET Fields(n) == IF heap[n].kind = "enum" THEN {} ELSE DOMAIN heap[n].fields
        Owns(m, i, n) == At(<<m, i>>).type \in {"map", "oneof"} /\ At(<<m, i>>).sub = n
        Hanging(n) == UNION {{<<m, i>> : i \in {k \in Fields(m) : Owns(m, k, n)}} : m \in live}
        Inserted(n) == {i \in DOMAIN cache.ids : cache.ids[i] = n}
        Held(n) == IF node = n /\ phase \in {"fields", "unwind"} THEN {n} ELSE {}
    IN  \A n \in live : Cardinality(Hanging(n)) + Cardinality(Inserted(n)) + Cardinality(Held(n)) = 1

\* A load that fails, on whatever definition, option or allocation, frees all
\* it allocated and nothing twice; so does the destruction of a loaded cache.
NothingLeaks == ~corrupt /\ (phase \in {"failed", "destroyed"} => live = {})

\* A well-formed list loads as what it declares: by number, by element, by
\* name and by value, with every reference resolved inside the new cache.
LoadsAsDeclared ==
    phase = "loaded" /\ WellFormed =>
        \A i \in Declared :
            LET n == GetNodeByName(defs[i][2])
                listed == defs[i][2] \in ToSet(proto3)
            IN  /\ n \in live
                /\ heap[n].kind = defs[i][1]
                /\ heap[n].proto = IF listed THEN 3 ELSE proto
                /\ \A k \in DOMAIN heap[n].fields :
                    heap[n].kind # "enum" /\ heap[n].fields[k].type \in Ref => heap[n].fields[k].sub \in live
                /\ IF defs[i][1] = "enum" THEN SymbolsAgree(n, defs[i][3])
                   ELSE NumbersAgree(n, defs[i][3]) /\ SlotsAgree(n, defs[i][3])

\* load_cache says ok of a list only when all of it is sound, and it raises and
\* installs nothing only when memory runs out or the list is not sound.  Where
\* the tails of field options (parse_opts) are all that is wrong, and nowhere
\* else, it raises and yet has built a cache to install.
JudgedRight ==
    /\ phase = "loaded" => Loadable /\ (raised <=> ~Sound)
    /\ phase = "failed" => raised /\ (denied \/ ~Loadable)
=============================================================================
