------------------------------ MODULE EpCache ------------------------------
(***************************************************************************)
(* The NIF entry points of c_src/enif_protobuf.c over the state they       *)
(* share: the schema cache behind one read/write lock, the scratch slots   *)
(* that scheduler threads claim through thread-local storage, and the      *)
(* unlocked option flags.  Every call is split at the points where another *)
(* thread can interleave.  What a codec does with one message is reduced   *)
(* to its use of the slot: nesting deeper, reading a string, finishing.    *)
(***************************************************************************)
EXTENDS Naturals, Sequences, FiniteSets

CONSTANTS
    Thread,       \* scheduler threads that may run a NIF
    LockN,        \* state->lock_n, the number of scratch slots
    CacheId,      \* addresses an ep_cache_t can have
    Schema,       \* definition lists that load
    Raising,      \* those whose load raises all the same: parse_opts goes on after
                  \* it has raised for field options with an improper tail
    Name,         \* message names callers ask for
    Null,         \* NULL, and "no value"
    Defines,      \* [Schema -> SUBSET Name], the messages of a schema
    Nest,         \* [Schema -> Nat], spots the presizing walk reaches
    MaxNest,      \* [Schema -> Nat], spots a message can reach; more than
                  \* Nest only where the schema is recursive
    Width,        \* [Schema -> Nat], max_fields + 1
    StackInit,    \* STACK_INIT_SIZE
    Calls,        \* the entry points the clients use
    OptList,      \* option lists given to set_opts
    MaxUpgrades   \* bound: hot code upgrades in one behaviour

Slot == 0 .. LockN - 1
Codec == {"encode", "decode"}
Option == {"with_utf8", "string_as_list"}
OptItem == [key : Option, val : BOOLEAN] \cup {Null}   \* Null: not a valid option

ASSUME SlotAssumption == LockN \in Nat \ {0} /\ StackInit \in Nat \ {0}
ASSUME NullAssumption ==
    /\ Null \notin Thread \cup CacheId \cup Schema \cup Name \cup Slot
    /\ Null \notin Codec \cup {"load", "purge", "set_opts"}
    /\ Null \notin {"ok", "error", "cache_not_exists", "alloc", "badarg"}
ASSUME SchemaAssumption ==
    /\ Raising \subseteq Schema
    /\ Defines \in [Schema -> SUBSET Name]
    /\ Nest \in [Schema -> Nat \ {0}]
    /\ MaxNest \in [Schema -> Nat]
    /\ Width \in [Schema -> Nat \ {0}]
    /\ \A s \in Schema : Nest[s] <= MaxNest[s]
ASSUME ClientAssumption ==
    /\ Calls \subseteq Codec \cup {"load", "purge", "set_opts"}
    /\ OptList \subseteq Seq(OptItem)
    /\ MaxUpgrades \in Nat
ASSUME ThreadAssumption == IsFiniteSet(Thread)

VARIABLES
    cache,     \* state->cache
    heap,      \* the schema held at each cache address, Null when free
    readers,   \* threads holding cache_lock for reading
    writer,    \* the thread holding cache_lock for writing
    slotNext,  \* state->slot_next
    tls,       \* ep_tls_tdata of each thread, as a slot number
    upgrades,  \* how many times the library was replaced
    encMem,    \* slots whose enc.mem is allocated
    spots,     \* per slot, the t_size of every spot of its stack
    opts,      \* state->opts
    pc,        \* where each thread is in its call
    op,        \* the entry point it runs
    arg,       \* what it still has to process of its argument
    mine,      \* the cache a load or purge holds privately
    node,      \* the cache whose nodes a codec is walking
    at,        \* codec: spots in use; presizing: next slot
    seen,      \* option settings a codec has acted on
    ret,       \* the outcome, once decided
    vm         \* "up", or "down" after a NULL dereference

shared == <<cache, heap, readers, writer>>
slots == <<slotNext, tls, upgrades, encMem, spots>>
local == <<pc, op, arg, mine, node, at, seen, ret>>
vars == <<shared, slots, opts, local, vm>>

LockedRead == {"lookup", "work", "runlock"}
LockedWrite == {"presize", "widths", "swap", "wunlock"}
Label == {"idle", "check", "tdata", "encmem", "rlock", "create", "build",
          "wlock", "destroy", "setopt", "return"} \cup LockedRead \cup LockedWrite

Outcome == {"ok", "error", "cache_not_exists", "alloc", "badarg"} \cup Schema \cup Name

TypeOK ==
    /\ cache \in CacheId \cup {Null}
    /\ heap \in [CacheId -> Schema \cup {Null}]
    /\ readers \subseteq Thread
    /\ writer \in Thread \cup {Null}
    /\ slotNext \in Nat
    /\ tls \in [Thread -> Slot \cup {Null}]
    /\ upgrades \in 0 .. MaxUpgrades
    /\ encMem \subseteq Slot
    /\ spots \in [Slot -> Seq(Nat)]
    /\ opts \in [Option -> BOOLEAN]
    /\ pc \in [Thread -> Label]
    /\ op \in [Thread -> Calls \cup {Null}]
    /\ arg \in [Thread -> Schema \cup Name \cup Seq(OptItem) \cup {Null}]
    /\ mine \in [Thread -> CacheId \cup {Null}]
    /\ node \in [Thread -> CacheId \cup {Null}]
    /\ at \in [Thread -> Nat]
    /\ seen \in [Thread -> SUBSET [Option -> BOOLEAN]]
    /\ ret \in [Thread -> Outcome \cup {Null}]
    /\ vm \in {"up", "down"}

\* load: a fresh ep_state_t, every slot with STACK_INIT_SIZE zeroed spots.
Init ==
    /\ cache = Null
    /\ heap = [c \in CacheId |-> Null]
    /\ readers = {}
    /\ writer = Null
    /\ slotNext = 0
    /\ tls = [t \in Thread |-> Null]
    /\ upgrades = 0
    /\ encMem = {}
    /\ spots = [s \in Slot |-> [i \in 1 .. StackInit |-> 0]]
    /\ opts = [o \in Option |-> FALSE]
    /\ pc = [t \in Thread |-> "idle"]
    /\ op = [t \in Thread |-> Null]
    /\ arg = [t \in Thread |-> Null]
    /\ mine = [t \in Thread |-> Null]
    /\ node = [t \in Thread |-> Null]
    /\ at = [t \in Thread |-> 0]
    /\ seen = [t \in Thread |-> {}]
    /\ ret = [t \in Thread |-> Null]
    /\ vm = "up"

-----------------------------------------------------------------------------
(* Helpers *)

At(t, label) == vm = "up" /\ pc[t] = label
Goto(t, label) == pc' = [pc EXCEPT ![t] = label]
Decide(t, r, label) == Goto(t, label) /\ ret' = [ret EXCEPT ![t] = r]

ArgsOf(o) ==
    CASE o \in Codec -> Name
      [] o = "load" -> Schema
      [] o = "set_opts" -> OptList
      [] OTHER -> {Null}

\* Mutant: purge swaps the pointer without the lock.
FirstLabelUnlockedPurge(o) ==
    CASE o \in Codec -> "check"
      [] o = "load" -> "create"
      [] o = "set_opts" -> "setopt"
      [] OTHER -> "swap"

FirstLabel(o) ==
    CASE o \in Codec -> "check"
      [] o = "load" -> "create"
      [] o = "set_opts" -> "setopt"
      [] OTHER -> "wlock"

\* A stack regrown to n spots; _realloc keeps the old ones, memset zeroes the rest.
Regrown(stack, n) == [i \in 1 .. n |-> IF i <= Len(stack) THEN stack[i] ELSE 0]

Wider(a, b) == IF a >= b THEN a ELSE b

-----------------------------------------------------------------------------
(* Entering and leaving a NIF *)

Invoke(t) ==
    /\ At(t, "idle")
    /\ \E o \in Calls : \E a \in ArgsOf(o) :
          /\ op' = [op EXCEPT ![t] = o]
          /\ arg' = [arg EXCEPT ![t] = a]
          /\ Goto(t, FirstLabel(o))
    /\ UNCHANGED <<shared, slots, opts, mine, node, at, seen, ret, vm>>

Return(t) ==
    /\ At(t, "return")
    /\ Goto(t, "idle")
    /\ op' = [op EXCEPT ![t] = Null]
    /\ arg' = [arg EXCEPT ![t] = Null]
    /\ node' = [node EXCEPT ![t] = Null]
    /\ at' = [at EXCEPT ![t] = 0]
    /\ seen' = [seen EXCEPT ![t] = {}]
    /\ ret' = [ret EXCEPT ![t] = Null]
    /\ UNCHANGED <<shared, slots, opts, mine, vm>>

-----------------------------------------------------------------------------
(* encode_1 and decode_2 *)

\* The only test of state->cache: made before the lock, never repeated.
Check(t) ==
    /\ At(t, "check")
    /\ IF cache = Null
       THEN Decide(t, "cache_not_exists", "return")
       ELSE Goto(t, "tdata") /\ UNCHANGED ret
    /\ UNCHANGED <<shared, slots, opts, op, arg, mine, node, at, seen, vm>>

\* Mutant: the clamp is off by one.
ClaimedSlotShort(n) == IF n >= LockN - 1 THEN LockN - 2 ELSE n

\* Mutant: the counter is read after the increment, and not clamped.
ClaimedSlotNext(n) == n + 1

\* The slot a thread gets when it is the n-th to ask: the last one once they run out.
ClaimedSlot(n) == IF n >= LockN THEN LockN - 1 ELSE n

GetTdata(t) ==
    /\ At(t, "tdata")
    /\ Goto(t, IF op[t] = "encode" THEN "encmem" ELSE "rlock")
    /\ IF tls[t] # Null
       THEN UNCHANGED <<slotNext, tls>>
       ELSE /\ tls' = [tls EXCEPT ![t] = ClaimedSlot(slotNext)]
            /\ slotNext' = slotNext + 1
    /\ UNCHANGED <<shared, upgrades, encMem, spots, opts, op, arg, mine, node, at, seen, ret, vm>>

EncMem(t) ==
    /\ At(t, "encmem")
    /\ \/ /\ encMem' = encMem \cup {tls[t]}
          /\ Goto(t, "rlock")
          /\ UNCHANGED ret
       \/ /\ tls[t] \notin encMem              \* _calloc returned NULL
          /\ Decide(t, "alloc", "return")
          /\ UNCHANGED encMem
    /\ UNCHANGED <<shared, slotNext, tls, upgrades, spots, opts, op, arg, mine, node, at, seen, vm>>

RLock(t) ==
    /\ At(t, "rlock")
    /\ writer = Null
    /\ readers' = readers \cup {t}
    /\ Goto(t, "lookup")
    /\ UNCHANGED <<cache, heap, writer, slots, opts, op, arg, mine, node, at, seen, ret, vm>>

\* Mutant: an unknown name is looked up again under the schema that comes next.
LookupRetries(t) ==
    /\ At(t, "lookup")
    /\ \/ cache = Null /\ vm' = "down" /\ UNCHANGED <<readers, pc, node, ret>>
       \/ /\ cache # Null /\ arg[t] \notin Defines[heap[cache]]
          /\ readers' = readers \ {t}
          /\ Goto(t, "rlock")
          /\ UNCHANGED <<node, ret, vm>>
       \/ /\ cache # Null /\ arg[t] \in Defines[heap[cache]]
          /\ Decide(t, heap[cache], "work")
          /\ node' = [node EXCEPT ![t] = cache]
          /\ UNCHANGED <<readers, vm>>
    /\ UNCHANGED <<cache, heap, writer, slots, opts, op, arg, mine, at, seen>>

\* get_node_by_name dereferences state->cache, whatever it is by now.
Lookup(t) ==
    /\ At(t, "lookup")
    /\ \/ /\ cache = Null
          /\ vm' = "down"
          /\ UNCHANGED <<pc, node, ret>>
       \/ /\ cache # Null
          /\ arg[t] \notin Defines[heap[cache]]
          /\ Decide(t, arg[t], "runlock")       \* raises the name itself
          /\ UNCHANGED <<node, vm>>
       \/ /\ cache # Null
          /\ arg[t] \in Defines[heap[cache]]
          /\ Decide(t, heap[cache], "work")     \* answered from this schema
          /\ node' = [node EXCEPT ![t] = cache]
          /\ UNCHANGED vm
    /\ UNCHANGED <<shared, slots, opts, op, arg, mine, at, seen>>

\* A codec enters spot i: stack_ensure doubles a full stack, and decode's
\* spot_set_node widens t_arr before it is used; either _realloc may fail,
\* which ends the codec with an error.
EnterSpot(t) ==
    LET s == tls[t]
        schema == heap[node[t]]
        i == at[t] + 1
        grown == IF i > Len(spots[s]) THEN Regrown(spots[s], 2 * Len(spots[s])) ELSE spots[s]
    IN  /\ At(t, "work")
        /\ at[t] < MaxNest[schema]
        /\ \/ /\ at' = [at EXCEPT ![t] = i]
              /\ \E w \in 1 .. Width[schema] :
                    spots' = [spots EXCEPT ![s] =
                        IF op[t] = "decode" THEN [grown EXCEPT ![i] = Wider(@, w)] ELSE grown]
              /\ UNCHANGED pc
           \/ /\ spots' = [spots EXCEPT ![s] = grown]
              /\ op[t] = "decode" /\ grown[i] < Width[schema]
              /\ Goto(t, "runlock")
              /\ UNCHANGED at
        /\ UNCHANGED <<shared, slotNext, tls, upgrades, encMem, opts, op, arg, mine, node, seen, ret, vm>>

\* pack_string and unpack_string read state->opts for every string.
ReadString(t) ==
    /\ At(t, "work")
    /\ seen' = [seen EXCEPT ![t] = @ \cup {opts}]
    /\ UNCHANGED <<shared, slots, opts, pc, op, arg, mine, node, at, ret, vm>>

\* The codec returns: with a value, on a mismatch or malformed input, or
\* because stack_ensure could not grow the stack.
FinishWork(t) ==
    /\ At(t, "work")
    /\ Goto(t, "runlock")
    /\ UNCHANGED <<shared, slots, opts, op, arg, mine, node, at, seen, ret, vm>>

RUnlock(t) ==
    /\ At(t, "runlock")
    /\ readers' = readers \ {t}
    /\ Goto(t, "return")
    /\ UNCHANGED <<cache, heap, writer, slots, opts, op, arg, mine, node, at, seen, ret, vm>>

-----------------------------------------------------------------------------
(* ep_load_cache and purge_cache_0 *)

\* The counting pass and ep_cache_create: both may raise before anything is held.
Create(t) ==
    /\ At(t, "create")
    /\ \/ /\ Decide(t, "error", "return")
          /\ UNCHANGED <<heap, mine>>
       \/ \E c \in CacheId :
             /\ heap[c] = Null
             /\ heap' = [heap EXCEPT ![c] = arg[t]]
             /\ mine' = [mine EXCEPT ![t] = c]
             /\ Goto(t, "build")
             /\ UNCHANGED ret
    /\ UNCHANGED <<cache, readers, writer, slots, opts, op, arg, node, at, seen, vm>>

\* Mutant: an error path that does not destroy the new cache.
BuildLeaks(t) ==
    /\ At(t, "build")
    /\ \/ Goto(t, "wlock") /\ UNCHANGED ret
       \/ Decide(t, "error", "return")
    /\ UNCHANGED <<shared, slots, opts, op, arg, mine, node, at, seen, vm>>

\* parse_node for every definition, sort, prelink_nodes: every error path
\* destroys the new cache and raises.
Build(t) ==
    /\ At(t, "build")
    /\ \/ Goto(t, "wlock") /\ UNCHANGED ret
       \/ Decide(t, "error", "destroy")
    /\ UNCHANGED <<shared, slots, opts, op, arg, mine, node, at, seen, vm>>

WLock(t) ==
    /\ At(t, "wlock")
    /\ writer = Null /\ readers = {}
    /\ writer' = t
    /\ Goto(t, IF op[t] = "load" THEN "presize" ELSE "swap")
    /\ UNCHANGED <<cache, heap, readers, slots, opts, op, arg, mine, node, at, seen, ret, vm>>

\* Mutant: only slot 0, which the walk runs on, is resized.
PresizeFirstOnly(i, schema) ==
    IF i = 0 /\ Len(spots[0]) < Nest[schema] THEN 2 * Len(spots[0]) ELSE Len(spots[i])

\* The stack size that stack_ensure_all wants for slot i next: the walk over
\* the new schema doubles slot 0, the others are brought up to slot 0's size.
PresizeTo(i, schema) ==
    IF i = 0
    THEN IF Len(spots[0]) < Nest[schema] THEN 2 * Len(spots[0]) ELSE Len(spots[0])
    ELSE Wider(Len(spots[i]), Len(spots[0]))

\* stack_ensure_all, one _realloc at a time: a failure leaves the slots
\* already grown as they are, and the old schema in place.
Presize(t) ==
    LET i == at[t]
        n == PresizeTo(i, arg[t])
    IN  /\ At(t, "presize")
        /\ \/ /\ spots' = [spots EXCEPT ![i] = Regrown(@, n)]
              /\ IF i = 0 /\ n < Nest[arg[t]]
                 THEN UNCHANGED <<pc, at>>
                 ELSE /\ at' = [at EXCEPT ![t] = IF i + 1 = LockN THEN 0 ELSE i + 1]
                      /\ IF i + 1 = LockN THEN Goto(t, "widths") ELSE UNCHANGED pc
              /\ UNCHANGED ret
           \/ /\ n > Len(spots[i])
              /\ Decide(t, "error", "wunlock")
              /\ UNCHANGED <<spots, at>>
        /\ UNCHANGED <<shared, slotNext, tls, upgrades, encMem, opts, op, arg, mine, node, seen, vm>>

\* The t_arr of the first k spots of a stack made at least w wide.
Widened(stack, k, w) ==
    [i \in 1 .. Len(stack) |-> IF i <= k THEN Wider(stack[i], w) ELSE stack[i]]

\* The loop over every spot of every slot after stack_ensure_all, one slot a
\* step: it stops at the first _realloc that fails, k spots in.
Widths(t) ==
    LET i == at[t]
        w == Width[arg[t]]
    IN  /\ At(t, "widths")
        /\ \/ /\ spots' = [spots EXCEPT ![i] = Widened(@, Len(@), w)]
              /\ at' = [at EXCEPT ![t] = IF i + 1 = LockN THEN 0 ELSE i + 1]
              /\ IF i + 1 = LockN THEN Goto(t, "swap") ELSE UNCHANGED pc
              /\ UNCHANGED ret
           \/ /\ \E k \in 0 .. Len(spots[i]) - 1 :
                    /\ spots[i][k + 1] < w
                    /\ spots' = [spots EXCEPT ![i] = Widened(@, k, w)]
              /\ Decide(t, "alloc", "wunlock")
              /\ UNCHANGED at
        /\ UNCHANGED <<shared, slotNext, tls, upgrades, encMem, opts, op, arg, mine, node, seen, vm>>

\* Mutant: a schema that is already loaded is kept.
SwapKeepsFirst(t) ==
    /\ At(t, "swap")
    /\ IF cache = Null
       THEN cache' = mine[t] /\ mine' = [mine EXCEPT ![t] = Null]
       ELSE UNCHANGED <<cache, mine>>
    /\ Decide(t, IF op[t] = "load" /\ arg[t] \in Raising THEN "error" ELSE "ok", "wunlock")
    /\ UNCHANGED <<heap, readers, writer, slots, opts, op, arg, node, at, seen, vm>>

\* The pointer swap; the old cache is now the caller's to destroy.  An exception
\* that is pending from the parsing is what the caller gets, not the ok.
Swap(t) ==
    /\ At(t, "swap")
    /\ cache' = mine[t]
    /\ mine' = [mine EXCEPT ![t] = cache]
    /\ Decide(t, IF op[t] = "load" /\ arg[t] \in Raising THEN "error" ELSE "ok", "wunlock")
    /\ UNCHANGED <<heap, readers, writer, slots, opts, op, arg, node, at, seen, vm>>

WUnlock(t) ==
    /\ At(t, "wunlock")
    /\ writer' = Null
    /\ Goto(t, "destroy")
    /\ UNCHANGED <<cache, heap, readers, slots, opts, op, arg, mine, node, at, seen, ret, vm>>

\* ep_cache_destroy, outside the lock: the replaced cache, or the rejected one.
Destroy(t) ==
    /\ At(t, "destroy")
    /\ heap' = IF mine[t] = Null THEN heap ELSE [heap EXCEPT ![mine[t]] = Null]
    /\ mine' = [mine EXCEPT ![t] = Null]
    /\ Goto(t, "return")
    /\ UNCHANGED <<cache, readers, writer, slots, opts, op, arg, node, at, seen, ret, vm>>

-----------------------------------------------------------------------------
(* set_opts_1 *)

\* One list element at a time, without any lock; a bad element ends the call
\* after the elements before it took effect.
SetOpt(t) ==
    /\ At(t, "setopt")
    /\ \/ /\ arg[t] = <<>>
          /\ Decide(t, "ok", "return")
          /\ UNCHANGED <<opts, arg>>
       \/ /\ arg[t] # <<>> /\ Head(arg[t]) = Null
          /\ Decide(t, "badarg", "return")
          /\ UNCHANGED <<opts, arg>>
       \/ /\ arg[t] # <<>> /\ Head(arg[t]) # Null
          /\ opts' = [opts EXCEPT ![Head(arg[t]).key] = Head(arg[t]).val]
          /\ arg' = [arg EXCEPT ![t] = Tail(@)]
          /\ UNCHANGED <<pc, ret>>
    /\ UNCHANGED <<shared, slots, op, mine, node, at, seen, vm>>

-----------------------------------------------------------------------------
(* The library and the system *)

\* upgrade keeps the old ep_state_t, while the new library image starts with
\* empty thread-local storage.  The emulator upgrades between calls.
Upgrade ==
    /\ vm = "up"
    /\ upgrades < MaxUpgrades
    /\ \A t \in Thread : pc[t] = "idle"
    /\ upgrades' = upgrades + 1
    /\ tls' = [t \in Thread |-> Null]
    /\ UNCHANGED <<shared, slotNext, encMem, spots, opts, local, vm>>

\* After a NULL dereference the operating system has killed the whole node.
Stopped ==
    /\ vm = "down"
    /\ UNCHANGED vars

Unblocked(t) ==
    \/ Return(t) \/ Check(t) \/ GetTdata(t) \/ EncMem(t) \/ Lookup(t)
    \/ EnterSpot(t) \/ ReadString(t) \/ FinishWork(t) \/ RUnlock(t)
    \/ Create(t) \/ Build(t) \/ Presize(t) \/ Widths(t) \/ Swap(t)
    \/ WUnlock(t) \/ Destroy(t) \/ SetOpt(t)

Next ==
    \/ \E t \in Thread : Invoke(t) \/ RLock(t) \/ WLock(t) \/ Unblocked(t)
    \/ Upgrade
    \/ Stopped

Spec == Init /\ [][Next]_vars

\* A scheduler thread in a NIF keeps running, and the emulator's rwlock
\* queues its waiters, so that none is passed over for ever.
Fairness == \A t \in Thread :
    /\ WF_vars(Unblocked(t))
    /\ SF_vars(RLock(t))
    /\ SF_vars(WLock(t))

FairSpec == Spec /\ Fairness

-----------------------------------------------------------------------------
(* Properties *)

UsingSlot == {"encmem", "rlock"} \cup LockedRead

\* Scratch slots are never shared: two threads between ep_get_tdata and the
\* end of their codec have different slots, and a load that resizes every slot
\* does it while no codec is running.
SlotExclusive ==
    /\ \A t, u \in Thread :
          t # u /\ pc[t] \in UsingSlot /\ pc[u] \in UsingSlot => tls[t] # tls[u]
    /\ \A t, u \in Thread :
          pc[t] \in LockedWrite => u = t \/ pc[u] \notin LockedRead \cup LockedWrite

\* A codec in flight keeps the schema it looked its message up in: until it
\* is done, the nodes it walks are those of the loaded cache and not freed,
\* whatever loads and purges other threads make.
InFlightCacheValid ==
    \A t \in Thread : pc[t] = "work" =>
        /\ node[t] # Null /\ node[t] = cache
        /\ heap[node[t]] = ret[t]

\* No cache is leaked, freed while in use or freed twice: every allocated
\* cache has exactly one owner, the loaded pointer or one load or purge that
\* has yet to destroy or install it, and no owner holds a freed one.
CacheOwnership ==
    /\ \A c \in CacheId : heap[c] # Null => cache = c \/ \E t \in Thread : mine[t] = c
    /\ cache # Null => heap[cache] # Null
    /\ \A t \in Thread : mine[t] # Null => mine[t] # cache /\ heap[mine[t]] # Null
    /\ \A t, u \in Thread : t # u /\ mine[t] # Null => mine[t] # mine[u]

\* Once a schema is loaded, every slot has the spots its presizing walk counted
\* and each is wide enough for its largest message, also after later loads that
\* failed half-way through resizing and after stacks regrown by deep messages.
Presized ==
    cache # Null => \A s \in Slot : \A i \in 1 .. Nest[heap[cache]] :
        i <= Len(spots[s]) /\ spots[s][i] >= Width[heap[cache]]

\* A codec that passed the test of state->cache still finds a cache when it
\* looks its message up under the lock.
NoNullDereference ==
    \A t \in Thread : pc[t] = "lookup" => cache # Null

\* Every string of one call is converted under the same option setting: the
\* options are those in force when the schema was loaded, as documented.
OneSettingPerCall ==
    \A t \in Thread : Cardinality(seen[t]) <= 1

\* Every call returns, unless the node went down: no path keeps the lock, and
\* neither readers nor writers wait for ever.
EveryCallReturns ==
    \A t \in Thread : pc[t] # "idle" ~> pc[t] = "idle" \/ vm = "down"

=============================================================================
