------------------------------- MODULE EpLoad -------------------------------
(***************************************************************************)
(* A load from the term to the stacks: the parser builds a cache, which    *)
(* the walk of stack_ensure_all then goes through, node by node, and on    *)
(* whose stacks codecs nest until the cache is destroyed.                  *)
(***************************************************************************)
EXTENDS EpPresize, Integers

CONSTANTS
    DefLists,       \* definition lists given to load_cache
    FnumMapLimit    \* EP_FNUM_MAP_LIMIT

\* The variables of EpParser; its phase is the stage of the load.
VARIABLES defs, stage, todo, proto, proto3, cache, heap, live, corrupt, node, frames, denied, raised

Parser == INSTANCE EpParserReference WITH phase <- stage
ASSUME LoadAssumption == Parser!LimitAssumption /\ Parser!DefListAssumption

loading == <<defs, stage, todo, proto, proto3, cache, heap, live, corrupt, node, frames, denied, raised>>

\* A node to the walk is its address, minus its address for an enum, 0 for NULL.
ASSUME NodeAssumption == Node \subseteq Int /\ Parser!Null \in Node /\ Enum = {id \in Node : id < 0}
Id(n) == IF n # Parser!Null /\ heap[n].kind = "enum" THEN -n ELSE n
Address(id) == IF id < 0 THEN -id ELSE id

Composite == {"msg", "map", "group", "oneof"}
Walked(f) ==
    LET kind == IF f.type \notin Composite THEN "scalar"
                ELSE IF f.type = "oneof" THEN "oneof"
                ELSE IF f.occ = "repeated" THEN "many" ELSE "one"
    IN  <<kind, IF kind = "scalar" THEN 0 ELSE Id(f.sub)>>
WalkedFields(id) ==
    LET own == heap[Address(id)].fields
    IN  IF Address(id) \notin live \/ Id(Address(id)) # id THEN <<>>
        ELSE [k \in DOMAIN own |-> IF id < 0 THEN <<"scalar", 0>> ELSE Walked(own[k])]

WalkedNodes == [id \in Node |-> WalkedFields(id)]
WalkedNames == [k \in DOMAIN cache.names |-> Id(cache.names[k])]

LoadInit ==
    /\ Parser!Init
    /\ fields = [id \in Node |-> <<>>] /\ names = <<>>
    /\ phase = "walk" /\ i = 1 /\ path = <<>>
    /\ size = [s \in Slot |-> InitSize]
    /\ busy = 0

\* ep_load_cache up to prelink_nodes; when that is done the nodes are as the
\* walk will find them.
Parse ==
    /\ stage \notin {"loaded", "failed", "destroyed"}
    /\ Parser!Next
    /\ phase' = IF stage' = "failed" THEN "failed" ELSE phase
    /\ IF stage' = "loaded"
       THEN fields' = WalkedNodes' /\ names' = WalkedNames'
       ELSE UNCHANGED schema
    /\ UNCHANGED <<i, path, size, busy>>

Walk == stage = "loaded" /\ Load /\ UNCHANGED loading
Codec == stage = "loaded" /\ (Root \/ Nest \/ Unnest) /\ UNCHANGED loading

\* The stacks could not grow, or a later load or purge takes the place of the
\* cache, for which it waits until no codec is at work.
Destroy ==
    /\ phase = "failed" \/ (phase = "serve" /\ path = <<>>)
    /\ stage = "loaded"
    /\ Parser!Destroy
    /\ UNCHANGED vars

LoadNext == Parse \/ Walk \/ Codec \/ Destroy

\* Nothing stops a process that is loading.
LoadSpec ==
    /\ LoadInit /\ [][LoadNext]_<<vars, loading>>
    /\ WF_<<vars, loading>>(Parse \/ Walk)

-----------------------------------------------------------------------------
(* Properties of the parser, as EpParserReference states them.  The walk and *)
(* the codecs leave what it built alone, so that it is looked at once.       *)

Seen == stage = "loaded" => phase = "walk" /\ i = 1 /\ path = <<>>

\* The variables of the parser keep their types, and parse_msg_fields and
\* parse_oneof_fields write inside their arrays.
InsideArrays == Seen => Parser!TypeOK /\ Parser!InsideArrays

\* No node is lost, or hangs below two owners.
OneOwner == Seen => Parser!OneOwner

\* A load that fails anywhere, the stacks included, and the destruction of a
\* loaded cache free every node, and none twice.
NothingLeaks == Seen => Parser!NothingLeaks

\* A well-formed list loads as what it declares.
LoadsAsDeclared == Seen => Parser!LoadsAsDeclared

\* A load says ok when the list is sound and only then, and an exception leaves
\* the schema as it was unless all that is wrong is the tail of some options.
JudgedRight == Seen => Parser!JudgedRight
=============================================================================
