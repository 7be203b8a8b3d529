------------------------------ MODULE EpParser ------------------------------
(***************************************************************************)
(* How ep_load_cache turns a definition list into a cache, in private:     *)
(* the counting pass, ep_cache_create, parse_node for every definition,    *)
(* the sorts, prelink_nodes, and the error paths that free what was built  *)
(* so far.  What a load does to the state it shares is EpCache's business. *)
(*                                                                         *)
(* parse_msg_fields, fill_msg_field, parse_map_type and parse_oneof_fields *)
(* call each other; frames is their call stack.  Any allocation may fail.  *)
(* A node is a record at an address that is never used twice, so that a    *)
(* leak or a second free shows; its arrays live and die with it.  Atoms    *)
(* are numbers, which is how the code compares them.                       *)
(***************************************************************************)
EXTENDS Integers, Sequences, FiniteSets, SequencesExt

CONSTANTS
    DefLists,       \* definition lists given to load_cache
    FnumMapLimit    \* EP_FNUM_MAP_LIMIT, 512 in the code

\* A definition list is a sequence of
\*   <<"syntax", 2 or 3>>, <<"proto3_msgs", names>>, <<"other", Null, items>>,
\*   <<"msg" or "group" or "enum", name, items>>, <<"bad">>
\* and an item, by what it is in,
\*   <<"field", name, fnum, rnum, type, occurrence, options>>,
\*   <<"oneof", name, rnum, fields>>, <<"symbol", name, value>>,
\*   <<"option", boolean>>, <<"bad">>
\* where a type is a tuple such as <<"int">>, <<"msg", name>> or
\* <<"map", key, value>>, and an option is <<"packed">>, <<"deprecated">> or
\* <<"bad">>.  Bad, "bad" and <<"bad">> stand for a term that is not what the
\* place asks for.  <<"tail">>, always last, stands for the tail of a list that
\* is not the empty list, and alone for a term that is no list at all; for the
\* names of proto3_msgs, Bad does both.
Null == 0
Bad == -1
Scalars == {"int", "float", "string", "bytes"}
Ref == {"enum", "msg", "group"}
KeyType == {"int", "string"}
PackableType == {"int", "float", "enum"}
Message == {"msg", "group", "map"}       \* kinds of node whose fields are ep_field_t
Improper(list) == list # <<>> /\ Last(list) = <<"tail">>

\* Assumed by EpLoad: lists are lists, and every tag is one of these.
IsSequence(s) == s \in Seq(ToSet(s))
Header == {"syntax", "proto3_msgs"}
ItemAssumption(item) ==
    /\ item[1] \in {"field", "oneof", "symbol", "option", "bad", "tail"}
    /\ item[1] = "oneof" => IsSequence(item[4])
DefListAssumption ==
    \A list \in DefLists :
        /\ IsSequence(list)
        /\ \A i \in DOMAIN list :
            LET d == list[i]
            IN  /\ d[1] \in Header \cup {"msg", "group", "enum", "other"} \/ d \in {<<"bad">>, <<"tail">>}
                /\ d[1] \in {"msg", "group", "enum", "other"} =>
                    IsSequence(d[3]) /\ \A k \in DOMAIN d[3] : ItemAssumption(d[3][k])
LimitAssumption == FnumMapLimit \in Nat

VARIABLES
    defs,      \* the argument
    phase,     \* which part of ep_load_cache runs
    todo,      \* definitions not yet parsed, or names not yet linked
    proto,     \* proto_v
    proto3,    \* proto3_list
    cache,     \* the new cache: its size, ids and names (node addresses)
    heap,      \* every node ever allocated
    live,      \* addresses of nodes not freed
    corrupt,   \* a node was freed that was not live
    node,      \* the local variable node
    frames,    \* calls in progress: the node, and the items it still reads
    denied,    \* an allocation failed
    raised     \* an exception is pending, with which load_cache will return

memory == <<heap, live, corrupt>>
vars == <<defs, phase, todo, proto, proto3, cache, memory, node, frames, denied, raised>>

ZeroField == [name |-> Null, rnum |-> 0, type |-> "unknown", occ |-> "required", sub |-> Null,
              subName |-> Null, fnum |-> 0, proto |-> 0, oneof |-> FALSE, packed |-> FALSE]
ZeroSymbol == [name |-> Null, value |-> 0]
NoCache == [size |-> 0, ids |-> <<>>, names |-> <<>>]

Init ==
    /\ defs \in DefLists
    /\ phase = "count"
    /\ todo = <<>>
    /\ proto = 2
    /\ proto3 = <<>>
    /\ cache = NoCache
    /\ heap = <<>>
    /\ live = {}
    /\ corrupt = FALSE
    /\ node = Null
    /\ frames = <<>>
    /\ denied = FALSE
    /\ raised = FALSE

-----------------------------------------------------------------------------
(* Library functions, and lookups in what is built *)

\* bsearch: the index of key in keys, 0 when it does not meet it.
Bsearch(keys, key) ==
    LET find[part \in Nat \X Nat] ==
            LET l == part[1]
                u == part[2]
                mid == (l + u) \div 2
            IN  IF l >= u THEN 0
                ELSE IF key < keys[mid + 1] THEN find[<<l, mid>>]
                ELSE IF key > keys[mid + 1] THEN find[<<mid + 1, u>>] ELSE mid + 1
    IN  find[<<0, Len(keys)>>]

\* qsort: all it may make of the entries f by their keys; equal ones come in
\* any order.
Sortings(f, key) ==
    LET place == 1 .. Cardinality(DOMAIN f)
        Sorts(q) == \A j, k \in place : j < k => key[q[j]] <= key[q[k]]
    IN  {[k \in place |-> f[q[k]]] : q \in {p \in Bijection(place, DOMAIN f) : Sorts(p)}}

NamesOf(entries) == [i \in DOMAIN entries |-> entries[i].name]
SlotsOf(entries) == [i \in DOMAIN entries |-> entries[i].rnum]
NumbersIn(entries) == [i \in DOMAIN entries |-> entries[i].fnum]
ValuesOf(entries) == [i \in DOMAIN entries |-> entries[i].value]

GetNodeByName(name) ==
    LET i == Bsearch([j \in DOMAIN cache.names |-> heap[cache.names[j]].name], name)
    IN  IF i = 0 THEN Null ELSE cache.names[i]

\* A pointer to a field is the node it is in and its index there.
NoField == <<Null, 0>>
At(ptr) == heap[ptr[1]].fields[ptr[2]]

\* get_field of the decoder: the dense table when there is one.
GetField(n, fnum) ==
    LET k == Bsearch([i \in DOMAIN heap[n].vfields |-> heap[n].vfields[i].fnum], fnum)
    IN  IF heap[n].dense # <<>>
        THEN IF fnum + 1 \in DOMAIN heap[n].dense THEN heap[n].dense[fnum + 1] ELSE NoField
        ELSE IF k = 0 THEN NoField ELSE heap[n].vfields[k].field

\* get_oneof_field of the encoder.
GetAlternative(n, name) ==
    LET i == Bsearch(NamesOf(heap[n].fields), name) IN IF i = 0 THEN NoField ELSE <<n, i>>

\* pack_enum and unpack_enum; a number that is no symbol stands for itself.
EnumByName(n, name) ==
    LET i == Bsearch(NamesOf(heap[n].fields), name) IN IF i = 0 THEN Bad ELSE heap[n].fields[i].value
EnumByValue(n, value) ==
    LET i == Bsearch([j \in DOMAIN heap[n].vfields |-> heap[n].vfields[j].value], value)
    IN  IF i = 0 THEN Null ELSE heap[n].vfields[i].name

\* fill_default's case of an enum.
EnumDefault(n) == IF EnumByValue(n, 0) # Null THEN EnumByValue(n, 0) ELSE heap[n].fields[1].name

-----------------------------------------------------------------------------
(* The counting pass and ep_cache_create *)

Definitions == {i \in DOMAIN defs : defs[i][1] \notin Header \cup {"tail"}}
LastOf(tag, default) ==
    LET tagged == {i \in DOMAIN defs : defs[i][1] = tag}
    IN  IF tagged = {} THEN default ELSE defs[Max(tagged)][2]

\* Mutant: only messages are counted.
CountedMessages == Cardinality({i \in DOMAIN defs : defs[i][1] = "msg"})

Counted == Cardinality(Definitions)

Countable ==
    /\ \A i \in DOMAIN defs : defs[i] # <<"bad">>
    /\ \A i \in DOMAIN defs : defs[i][1] = "syntax" => defs[i][2] \in {2, 3}
    /\ Definitions # {}

\* For an improper list check_proper_list_tail raises, but its result is ignored.
Count ==
    /\ phase = "count"
    /\ IF Countable
       THEN /\ phase' = "create"
            /\ proto' = LastOf("syntax", 2)
            /\ proto3' = LastOf("proto3_msgs", <<>>)
       ELSE phase' = "failed" /\ UNCHANGED <<proto, proto3>>
    /\ raised' = (~Countable \/ Improper(defs))
    /\ UNCHANGED <<defs, todo, cache, memory, node, frames, denied>>

\* Any of its three allocations fails: those before it are freed.
Create ==
    /\ phase = "create"
    /\ \/ /\ phase' = "define"
          /\ cache' = [NoCache EXCEPT !.size = Counted]
          /\ todo' = defs
          /\ UNCHANGED <<denied, raised>>
       \/ phase' = "failed" /\ denied' = TRUE /\ raised' = TRUE /\ UNCHANGED <<cache, todo>>
    /\ UNCHANGED <<defs, proto, proto3, memory, node, frames>>

-----------------------------------------------------------------------------
(* Leaving parse_node with an error *)

Fail == phase' = "unwind" /\ frames' = <<>> /\ raised' = TRUE
FailHere == Fail /\ UNCHANGED <<heap, live, denied>>
Denied == Fail /\ denied' = TRUE /\ UNCHANGED <<heap, live>>

Fresh == Len(heap) + 1
MakeNode(kind, name, protoV, size, used) ==
    [kind |-> kind, name |-> name, proto |-> protoV, size |-> used,
     fields |-> [i \in 1 .. size |-> IF kind = "enum" THEN ZeroSymbol ELSE ZeroField],
     vsize |-> 0, vfields |-> <<>>, dense |-> <<>>]
Allocated(n) == live' = live \cup {n} /\ UNCHANGED <<denied, corrupt>>

-----------------------------------------------------------------------------
(* parse_node *)

SkipHeader ==
    /\ phase = "define" /\ todo # <<>>
    /\ Head(todo)[1] \in Header
    /\ todo' = Tail(todo)
    /\ UNCHANGED <<defs, phase, proto, proto3, cache, memory, node, frames, denied, raised>>

Skip ==
    /\ phase = "define" /\ todo # <<>>
    /\ Head(todo)[1] = "other" /\ ~Improper(Head(todo)[3])
    /\ todo' = Tail(todo)
    /\ node' = Null
    /\ UNCHANGED <<defs, phase, proto, proto3, cache, memory, frames, denied, raised>>

\* Up to the parsing of its items; a node refused before that has size 0.
StartNode ==
    LET d == Head(todo)
        listed == d[2] \in ToSet(proto3)
        New(used) == MakeNode(d[1], d[2], IF listed THEN 3 ELSE proto, Len(d[3]), used)
        Store(n, new) == heap' = Append(heap, new) /\ node' = n /\ Allocated(n)
    IN  /\ phase = "define" /\ todo # <<>>
        /\ d[1] \notin Header \cup {"tail"} /\ (Improper(d[3]) \/ d[1] # "other")
        /\ \/ /\ ~Improper(d[3]) /\ d[2] # Bad /\ Bad \notin ToSet(proto3)
              /\ Store(Fresh, New(Len(d[3])))
              /\ frames' = <<[node |-> Fresh, items |-> d[3]]>>
              /\ phase' = "fields"
              /\ UNCHANGED raised
           \/ /\ ~Improper(d[3]) /\ (d[2] = Bad \/ Bad \in ToSet(proto3))
              /\ Store(Fresh, New(0))
              /\ Fail
           \/ Improper(d[3]) /\ node' = Null /\ FailHere
           \/ ~Improper(d[3]) /\ node' = Null /\ Denied
        /\ UNCHANGED <<defs, todo, proto, proto3, cache, corrupt>>

\* A node is complete: ep_cache_insert.
Insert ==
    /\ phase = "fields" /\ frames = <<>>
    /\ cache' = IF Len(cache.ids) < cache.size
                THEN [cache EXCEPT !.ids = Append(@, node), !.names = Append(@, node)] ELSE cache
    /\ todo' = Tail(todo)
    /\ phase' = "define"
    /\ UNCHANGED <<defs, proto, proto3, memory, node, frames, denied, raised>>

\* All definitions are parsed and inserted, and the list does not end there.
RefuseTail ==
    /\ phase = "define" /\ todo # <<>>
    /\ Head(todo)[1] = "tail"
    /\ phase' = "discard"
    /\ raised' = TRUE
    /\ UNCHANGED <<defs, todo, proto, proto3, cache, memory, node, frames, denied>>

-----------------------------------------------------------------------------
(* parse_msg_fields, fill_msg_field, parse_map_type, parse_oneof_fields *)

Top == Last(frames)
Item == Head(Top.items)
Kind == heap[Top.node].kind
Reading(tag) ==
    phase = "fields" /\ frames # <<>> /\ Kind # "enum" /\ Top.items # <<>> /\ Item[1] = tag
Here == <<Top.node, Len(heap[Top.node].fields) - Len(Top.items) + 1>>   \* field

\* What fill_msg_field tests before it looks at the type, and after.
BeforeType(item) == item[2] # Bad /\ item[4] # Bad
AfterType(item) ==
    /\ item[5][1] = "unknown" \/ item[3] # Bad
    /\ item[6] # "bad"
    /\ <<"bad">> \notin ToSet(item[7])
Basic(type) == type[1] \in Scalars \cup Ref \cup {"unknown"}

Named(item) == [ZeroField EXCEPT !.name = item[2], !.rnum = item[4] - 1, !.type = item[5][1]]
\* The number, the occurrence and the options, which follow the type.
Filled(f, item) ==
    [f EXCEPT !.fnum = IF item[5][1] = "unknown" THEN 0 ELSE item[3],
              !.occ = item[6],
              !.packed = <<"packed">> \in ToSet(item[7]) /\ item[5][1] \in PackableType]
SubName(type) == IF type[1] \in Ref THEN type[2] ELSE Null

\* parse_opts ignores the result of check_proper_list_tail: it raises and goes on.
OptionsRead(item) == raised' = (raised \/ Improper(item[7]))

\* The field is complete; the caller counts the numbers it adds to v_fields.
Complete(f, numbers) ==
    /\ heap' = [heap EXCEPT
            ![Here[1]].fields[Here[2]] = IF Kind = "oneof" THEN f ELSE [f EXCEPT !.proto = heap[Top.node].proto],
            ![Here[1]].vsize = IF Kind = "oneof" THEN @ ELSE @ + numbers]
    /\ frames' = [frames EXCEPT ![Len(frames)].items = Tail(@)]
    /\ UNCHANGED <<phase, live, denied>>
\* Mutant: the field of unknown fields is counted too.
NumbersAll(f) == 1

Numbers(f) == IF f.type = "unknown" THEN 0 ELSE 1

ParseField ==
    LET f == Filled([Named(Item) EXCEPT !.subName = SubName(Item[5])], Item)
    IN  /\ Reading("field") /\ (~BeforeType(Item) \/ Item[5][1] # "map")
        /\ IF BeforeType(Item) /\ Basic(Item[5]) /\ AfterType(Item)
           THEN Complete(f, Numbers(f)) /\ OptionsRead(Item) ELSE FailHere
        /\ UNCHANGED <<defs, todo, proto, proto3, cache, corrupt, node>>

\* The two fields parse_map_type makes up.
EntryItems(type) ==
    << <<"field", 1, 1, 2, <<type[2]>>, "optional", <<>> >>,
       <<"field", 2, 2, 3, type[3], "optional", <<>> >> >>

\* An owned node is made and hung below the field before its content is read.
Enter(f, new, items) ==
    /\ heap' = Append([heap EXCEPT ![Here[1]].fields[Here[2]] = [f EXCEPT !.sub = Fresh]], new)
    /\ Allocated(Fresh)
    /\ frames' = Append(frames, [node |-> Fresh, items |-> items])
    /\ UNCHANGED <<phase, raised>>

EnterMap ==
    LET type == Item[5]
        new == MakeNode("map", Item[2], 0, 2, 2)
    IN  /\ Reading("field") /\ BeforeType(Item) /\ Item[5][1] = "map" /\ At(Here).sub = Null
        /\ \/ type[2] \in KeyType /\ type[3][1] # "map" /\ Enter(Named(Item), new, EntryItems(type))
           \/ /\ type[2] \notin KeyType \/ type[3][1] = "map"
              /\ heap' = Append([heap EXCEPT ![Here[1]].fields[Here[2]] =
                                    [Named(Item) EXCEPT !.sub = Fresh]], new)
              /\ Allocated(Fresh)
              /\ Fail
           \/ Denied /\ UNCHANGED corrupt
        /\ UNCHANGED <<defs, todo, proto, proto3, cache, node>>

LeaveMap ==
    /\ Reading("field") /\ Item[5][1] = "map" /\ At(Here).sub # Null
    /\ IF AfterType(Item)
       THEN Complete(Filled(At(Here), Item), 1) /\ OptionsRead(Item) ELSE FailHere
    /\ UNCHANGED <<defs, todo, proto, proto3, cache, corrupt, node>>

EnterOneof ==
    LET fields == Item[4]
        new == MakeNode("oneof", Null, 0, Len(fields), Len(fields))
        f == [ZeroField EXCEPT !.name = Item[2], !.rnum = Item[3] - 1, !.type = "oneof"]
        refused == Item[2] = Bad \/ Improper(fields) \/ fields = <<>> \/ Item[3] = Bad
    IN  /\ Reading("oneof") /\ Kind \in Message /\ At(Here).sub = Null
        /\ \/ ~refused /\ Enter(f, new, fields)
           \/ refused /\ FailHere /\ UNCHANGED corrupt
           \/ ~refused /\ Denied /\ UNCHANGED corrupt
        /\ UNCHANGED <<defs, todo, proto, proto3, cache, node>>

LeaveOneof ==
    LET sub == heap[At(Here).sub]
    IN  /\ Reading("oneof") /\ Kind \in Message /\ At(Here).sub # Null
        /\ Complete([At(Here) EXCEPT !.fnum = sub.fields[1].fnum], sub.size)
        /\ UNCHANGED <<defs, todo, proto, proto3, cache, corrupt, node, raised>>

\* A tuple that is no field, or is none here.
ParseBadItem ==
    /\ phase = "fields" /\ frames # <<>> /\ Top.items # <<>> /\ Kind # "enum"
    /\ Item[1] # "field" /\ (Item[1] # "oneof" \/ Kind = "oneof")
    /\ FailHere
    /\ UNCHANGED <<defs, todo, proto, proto3, cache, corrupt, node>>

-----------------------------------------------------------------------------
(* The tables of a node whose items are all read *)

Closing(kinds) == phase = "fields" /\ frames # <<>> /\ Top.items = <<>> /\ Kind \in kinds
Closed(h) == heap' = h /\ frames' = Front(frames) /\ UNCHANGED <<phase, live, denied, raised>>

CloseOneof ==
    /\ Closing({"oneof"})
    /\ \E fields \in Sortings(heap[Top.node].fields, NamesOf(heap[Top.node].fields)) :
           Closed([heap EXCEPT ![Top.node].fields = fields])
    /\ UNCHANGED <<defs, todo, proto, proto3, cache, corrupt, node>>

\* v_fields before it is sorted: every field number of node n, whose fields are
\* given, with the field it stands for.
OneofsOf(fields) == {fields[i].sub : i \in {j \in DOMAIN fields : fields[j].type = "oneof"}}
VFields(n, fields) ==
    LET own == {i \in DOMAIN fields : fields[i].type \notin {"oneof", "unknown"}}
        alternatives == UNION {{sub} \X DOMAIN heap[sub].fields : sub \in OneofsOf(fields)}
        Number(ptr) == IF ptr[1] = n THEN fields[ptr[2]].fnum ELSE At(ptr).fnum
    IN  [ptr \in ({n} \X own) \cup alternatives |-> [fnum |-> Number(ptr), field |-> ptr]]

\* Mutant: the table ends before the largest number.
DenseShort(vfields) ==
    LET max == IF vfields = <<>> THEN 0 ELSE Max({vfields[i].fnum : i \in DOMAIN vfields})
        Numbered(k) == SelectLastInSeq(vfields, LAMBDA e : e.fnum = k)
    IN  IF vfields = <<>> \/ max >= FnumMapLimit THEN <<>>
        ELSE [k \in 1 .. max |-> IF Numbered(k - 1) = 0 THEN NoField ELSE vfields[Numbered(k - 1)].field]

\* fnum_map: fields by number, from 0, when the largest is below the limit.
Dense(vfields) ==
    LET max == IF vfields = <<>> THEN 0 ELSE Max({vfields[i].fnum : i \in DOMAIN vfields})
        Numbered(k) == SelectLastInSeq(vfields, LAMBDA e : e.fnum = k)
    IN  IF vfields = <<>> \/ max >= FnumMapLimit THEN <<>>
        ELSE [k \in 1 .. max + 1 |-> IF Numbered(k - 1) = 0 THEN NoField ELSE vfields[Numbered(k - 1)].field]

CloseMessage ==
    /\ Closing(Message)
    /\ \E fields \in Sortings(heap[Top.node].fields, SlotsOf(heap[Top.node].fields)) :
       \E vfields \in Sortings(VFields(Top.node, fields), NumbersIn(VFields(Top.node, fields))) :
          LET Noted(own) == [i \in DOMAIN own |-> [own[i] EXCEPT !.oneof = TRUE]]
          IN  \/ Closed([a \in DOMAIN heap |->
                     CASE a = Top.node -> [heap[a] EXCEPT !.fields = fields, !.vfields = vfields,
                                                          !.dense = Dense(vfields)]
                       [] a # Top.node /\ a \in OneofsOf(fields) -> [heap[a] EXCEPT !.fields = Noted(@)]
                       [] OTHER -> heap[a]])
              \/ vfields # <<>> /\ Denied
    /\ UNCHANGED <<defs, todo, proto, proto3, cache, corrupt, node>>

\* parse_enum_fields, whole: both tables have room for every item, of which
\* options and, in the one by value, aliases take none.  Options are read
\* first, and the last one counts.
EnumItem(item) == item[1] = "option" \/ (item[1] = "symbol" /\ item[2] # Bad /\ item[3] # Bad)
ParseEnum ==
    LET items == Top.items
        symbols == {i \in DOMAIN items : items[i][1] = "symbol"}
        options == DOMAIN items \ symbols
        Symbol(i) == [name |-> items[i][2], value |-> items[i][3]]
        firsts == {i \in symbols : \A j \in symbols : j < i => items[j][3] # items[i][3]}
        entries == [i \in DOMAIN items |-> IF i \in symbols THEN Symbol(i) ELSE ZeroSymbol]
        ventries == [i \in firsts |-> Symbol(i)]
        accepted == /\ \A i \in DOMAIN items : EnumItem(items[i])
                    /\ \A i, j \in symbols : items[i][2] = items[j][2] => i = j
                    /\ firsts = symbols \/ (options # {} /\ items[Max(options)][2] = TRUE)
    IN  /\ phase = "fields" /\ frames # <<>> /\ Kind = "enum"
        /\ \/ accepted
              /\ \E fields \in Sortings(entries, NamesOf(entries)), vfields \in Sortings(ventries, ValuesOf(ventries)) :
                     Closed([heap EXCEPT ![Top.node].fields = fields,
                                         ![Top.node].vsize = Cardinality(firsts),
                                         ![Top.node].vfields = vfields])
           \/ ~accepted /\ FailHere
        /\ UNCHANGED <<defs, todo, proto, proto3, cache, corrupt, node>>

-----------------------------------------------------------------------------
(* ep_cache_sort, prelink_nodes, and the ways out of ep_load_cache *)

Sort ==
    /\ phase = "define" /\ todo = <<>>
    /\ \/ cache.ids = <<>> /\ phase' = "discard" /\ raised' = TRUE /\ UNCHANGED <<cache, todo>>
       \/ /\ cache.ids # <<>>
          /\ phase' = "link"
          /\ UNCHANGED raised
          /\ \E names \in Sortings(cache.names, [i \in DOMAIN cache.names |-> heap[cache.names[i]].name]) :
                 cache' = [cache EXCEPT !.names = names] /\ todo' = names
    /\ UNCHANGED <<defs, proto, proto3, memory, node, frames, denied>>

\* Mutant: only the node's own fields are visited.
VisitedOwn(n) == {<<n, i>> : i \in DOMAIN heap[n].fields}

\* The fields do_prelink_nodes visits from node n: its own, those of v_fields
\* (the alternatives of its oneofs), and those of the maps among them.
Visited(n) ==
    LET Own(a) == {<<a, i>> : i \in DOMAIN heap[a].fields}
        fields == Own(n) \cup {heap[n].vfields[i].field : i \in DOMAIN heap[n].vfields}
        maps == {At(ptr).sub : ptr \in {p \in fields : At(p).type = "map"}}
    IN  fields \cup UNION {Own(a) : a \in maps}

LinkNode ==
    LET n == Head(todo)
        open == {ptr \in Visited(n) : At(ptr).type \in Ref /\ At(ptr).sub = Null}
        undefined == \E ptr \in open : GetNodeByName(At(ptr).subName) = Null
    IN  /\ phase = "link" /\ todo # <<>>
        /\ IF heap[n].kind = "enum"
           THEN UNCHANGED <<phase, heap, raised>>
           ELSE /\ heap' = [a \in DOMAIN heap |-> [heap[a] EXCEPT !.fields =
                      [i \in DOMAIN heap[a].fields |->
                          IF <<a, i>> \in open
                          THEN [heap[a].fields[i] EXCEPT !.sub = GetNodeByName(heap[a].fields[i].subName)]
                          ELSE heap[a].fields[i]]]]
                /\ phase' = IF undefined THEN "discard" ELSE "link"
                /\ raised' = (raised \/ undefined)
        /\ todo' = Tail(todo)
        /\ UNCHANGED <<defs, proto, proto3, cache, live, corrupt, node, frames, denied>>

Linked ==
    /\ phase = "link" /\ todo = <<>>
    /\ phase' = "loaded"
    /\ UNCHANGED <<defs, todo, proto, proto3, cache, memory, node, frames, denied, raised>>

\* Mutant: the entry nodes of maps are forgotten.
OwningOneofs == {"oneof"}

Owning == {"map", "oneof"}

\* free_node: the addresses it frees, in order.
Freed(n) ==
    LET free[a \in DOMAIN heap] ==
            LET Below(f) == IF heap[a].kind \in Message /\ f.type \in Owning /\ f.sub # Null
                            THEN free[f.sub] ELSE <<>>
            IN  Append(FlattenSeq([i \in 1 .. heap[a].size |-> Below(heap[a].fields[i])]), a)
    IN  free[n]

Release(nodes) ==
    LET freed == FlattenSeq([i \in DOMAIN nodes |-> Freed(nodes[i])])
    IN  /\ live' = live \ ToSet(freed)
        /\ corrupt' = (corrupt \/ ~(ToSet(freed) \subseteq live) \/ Cardinality(ToSet(freed)) < Len(freed))
        /\ cache' = NoCache
        /\ UNCHANGED heap

\* parse_node has failed: what it left in node, and the cache, are freed.
Unwind ==
    /\ phase = "unwind"
    /\ Release(IF node = Null THEN cache.ids ELSE <<node>> \o cache.ids)
    /\ phase' = "failed"
    /\ UNCHANGED <<defs, todo, proto, proto3, node, frames, denied, raised>>

\* The list is improper, nothing was inserted, or linking failed.
Discard ==
    /\ phase = "discard"
    /\ Release(cache.ids)
    /\ phase' = "failed"
    /\ UNCHANGED <<defs, todo, proto, proto3, node, frames, denied, raised>>

\* A later load or purge destroys the cache.
Destroy ==
    /\ phase = "loaded"
    /\ Release(cache.ids)
    /\ phase' = "destroyed"
    /\ UNCHANGED <<defs, todo, proto, proto3, node, frames, denied, raised>>

Next ==
    \/ Count \/ Create \/ SkipHeader \/ Skip \/ StartNode \/ Insert \/ RefuseTail
    \/ ParseField \/ EnterMap \/ LeaveMap \/ EnterOneof \/ LeaveOneof \/ ParseBadItem
    \/ CloseOneof \/ CloseMessage \/ ParseEnum
    \/ Sort \/ LinkNode \/ Linked \/ Unwind \/ Discard \/ Destroy

Spec == Init /\ [][Next]_vars
=============================================================================
