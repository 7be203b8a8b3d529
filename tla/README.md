# TLA+ models of enif_protobuf

enif_protobuf is an Erlang NIF library, written in C, that encodes and decodes
protobuf messages from definitions loaded at run time. This directory holds
TLA+ modules of its core, TLC configurations that check them on small
instances, and proofs checked by TLAPS. Paths below are those of the
repository.

## The system

| part | code | state | operations |
|---|---|---|---|
| NIF entry points | `c_src/enif_protobuf.c` | `ep_state_t`: the loaded cache, one read/write lock, the scratch slots, `slot_next`, the options; per scheduler thread, its slot | `load_cache/1`, `purge_cache/0`, `encode/1`, `decode/2`, `set_opts/1`; the emulator's `load`, `upgrade`, `unload` |
| schema cache | `c_src/ep_cache.c` | `ep_cache_t`: nodes by name and by id | create, insert, sort, look up, destroy |
| parser and linker | `c_src/ep_node.c` | nodes and fields | `parse_node`, `prelink_nodes` |
| scratch stacks | `c_src/ep_node.c` | `ep_stack_t`: spots, each with an element array | `stack_ensure`, `stack_ensure_size`, `stack_ensure_all` |
| decoder | `c_src/ep_decoder.c` | read position and end, stack of spots | `decode`, the readers of scalars, packed runs, unknown fields, groups |
| encoder | `c_src/ep_encoder.c` | growing buffer, stack of spots | `encode`, the writers of the same |
| Erlang API | `src/enif_protobuf.erl` | none | loads the NIF with one slot per scheduler thread, wraps the calls |

An encode or decode tests `state->cache` without the lock, claims a slot
through thread-local storage, takes the read lock, looks its message up and
runs on the nodes of the cache, using only its slot. A load builds a cache in
private, takes the write lock, makes every slot's stack large enough, swaps
the pointer, and frees the old cache after letting the lock go. A purge swaps
in NULL. The options are read by running codecs and written by `set_opts`,
neither under a lock.

Both codecs are loops over an explicit stack where a textbook one recurses.
They share the stack: one spot per open message, map entry, group or (encoder
only) list, never cleaned but at the start of the next call. The decoder
narrows `dec->end` while it is in a sub-message or group. The encoder does not
know a length before the payload is written, so it leaves ten bytes free, and
moves the payload back when the message closes.

What is hard: the lifetime of a cache that several threads use while others
replace it; allocation failures half-way through resizing what threads share;
slots under a hot code upgrade; what a call that failed deep down leaves to the
next one on the same stack; positions and ends restored in the right order;
a buffer that moves while offsets into it are kept. `PROJECT.json` lists each
hazard at its line.

What makes each part correct:

- entry points: no cache is used after it was freed, leaked or freed twice;
  no two threads use one slot; calls are linearizable; every call returns;
- parser: it says ok of exactly the sound definition lists and installs no others
  (but for one case that it does, see `JudgedRight`), its tables are the functions
  they stand for, and it frees every node once on every path;
- stacks: after a load every slot is as large as the schema needs, also when
  the load before it failed half-way;
- values: each integer, float and string is written as protobuf says, read
  back as itself, and read as protobuf says whoever wrote it;
- decoder: it agrees with the recursive definition of the wire format on every
  binary, stays inside the binary, and gets to an end;
- encoder: what it writes reads back as the message, stays inside the buffer,
  and it gets to an end.

## Modules

| module | what it is |
|---|---|
| `EpCache` | the entry points, split wherever another thread can interleave; properties at its end |
| `EpSchemaService` | what the entry points promise: one schema for the node, each call taking effect in one step |
| `EpCacheRefinement` | the mapping under which `EpCache` implements `EpSchemaService` |
| `EpCacheProofs` | the inductive invariant of `EpCache`, the lifetime of caches, the refinement step by step, and who has which slot and how large the slots are |
| `EpWire` | tags, lengths, scalars, packed runs, skipping and collecting unknown fields, as functions of a byte sequence |
| `EpSchema` | message definitions as the parser leaves them, and what both codecs look up in them |
| `EpDecoder` | the decode loop over its stack, one action per kind of turn |
| `EpEncoder` | the encode loop over its stack and buffer, one action per kind of turn |
| `EpInduction` | what the proofs need of naturals, recursive functions, folds and sequences |
| `EpWireProofs` | what the readers of `EpWire` return, on every sequence of bytes |
| `EpDecoderProofs` | the inductive invariant of `EpDecoder` and its theorems |
| `EpEncoderProofs` | what the writers of `EpEncoder` do to the buffer, the inductive invariant of its loop and its theorems |
| `EpReference` | what a binary means, defined by recursion over the wire format |
| `EpDecodeReference` | the decoder gives that meaning, or rejects what has none |
| `EpEncodeReference` | which messages fit their definition, and that what the encoder writes means the message |
| `EpParser` | `load_cache` from a definition list to a linked cache, and its destruction |
| `EpParserReference` | which definition lists are sound, what they declare, and that the parser agrees |
| `EpLoadProofs` | the inductive invariant of `EpParser` under `EpLoad`, what a destroyed cache frees, that the walk finds the schema it needs, and the theorems |
| `EpPresize` | the walk of `stack_ensure_all` over a schema, the resizing of the slots, codecs nesting on them |
| `EpPresizeProofs` | the inductive invariant of `EpPresize` and its theorems |
| `EpLoad` | `EpParser` and `EpPresize` composed: a load from the term to the stacks |
| `EpScalar` | integers, tags and lengths to and from bytes, with the width of every C type |
| `EpScalarReference` | the protobuf encoding of integers, and that `EpScalar` keeps to it |
| `EpFloat` | floats and doubles as IEEE 754 patterns |
| `EpText` | strings and bytes: lists of characters, iolists, UTF-8, the options |
| `EpTextReference` | which terms are text and what bytes hold, and that `EpText` agrees |
| `EpValue` | one field's value of any type: the three families as `pack_field` and `unpack_field` dispatch to them |
| `EpApi` | `encode_msg/2` and `decode_msg/3`, on top of `EpSchemaService` |
| `EpApiProofs` | the inductive invariant of `EpApi` and its theorem |
| `MCSchema` | the message definitions of the codec runs |
| `MCDefinitions` | the definition lists of the `load` run |
| `MCEpCache`, `MCEpDecoder`, `MCEpDecoderGaps`, `MCEpEncoder`, `MCEpLoad`, `MCEpValue`, `MCEpApi` | instances for TLC |

### EpCache

`cache`, `heap`, `slotNext`, `opts` are fields of `ep_state_t` and what they
point to; `heap[c]` is the schema held at address `c`, `Null` when it is free,
so that using a freed cache is visible. `readers` and `writer` are
`cache_lock`, which belongs to the emulator and is modelled by its contract.
`tls` is `ep_tls_tdata`. `spots[s]` is the stack of slot `s` reduced to the
`t_size` of each spot. `pc`, `op`, `arg`, `mine`, `node`, `at`, `seen`, `ret`
are the locals of the call a thread is in.

A codec goes `Invoke`, `Check` (the unlocked test), `GetTdata`, `EncMem`
(encode only), `RLock`, `Lookup`, any number of `EnterSpot` and `ReadString`,
`FinishWork`, `RUnlock`, `Return`. A load goes `Create`, `Build`, `WLock`,
one `Presize` per slot, one `Widths` per slot, `Swap`, `WUnlock`, `Destroy`;
a purge starts at `WLock`. Every one of them has the error outcome of its
code: an allocation that fails, a definition that is refused, an unknown
name. `Raising` are the schemas whose load raises although it installs them; what
the parser does with those is in `EpParser`. `Upgrade` keeps the state and starts with empty thread-local storage.
A NULL dereference takes the node down (`vm`).

What a codec does with its message is three actions here. `EpDecoder` and
`EpEncoder` are the same work in full, by one thread: nothing they touch is
shared while they run, which is what `SlotExclusive` and `InFlightCacheValid`
establish.

### EpWire, EpSchema

A wire is a sequence of bytes; positions count the bytes before them. Scalars
are cut to what moves a codec: a varint is its number, fixed-width and
length-delimited values are their bytes. Terms are tagged tuples such as
`<<"int", 5>>` and `<<"tuple", <<...>>>>`. `Schema` maps a node name to its
slots (one per tuple element) and its fields (one per field number).
`SchemaAssumption` is what the parser ensures of that. `KindAssumption`, that a
field of message type refers to a message and so on, is what it does not check
(`link_sub_node` takes it on trust): it holds of definitions that a protobuf
compiler made.

### EpDecoder

`p` and `end` are `dec->p` and `dec->end`, `stack` is `stack->spots` and `sp`
the spot in use. The elements of a spot are modelled whole, with `Junk` where
the code has not written since the array was allocated, because one of the
defects below reads them. `todo` holds further calls on the same stack.
`Begin` is the code before the loop. `PopRaise`, `PopRoot` and `PopInner` are
`dec->p == dec->end`; `BadTag`, `Unknown`, `Packed`, `ScalarField`,
`BadNesting`, `PushMessage` and `PushGroup` are the turns that read a field.

Every allocation of the loop may fail, and the call then ends as `denied` with
what it had written so far left on the stack: the array of a stack that must
double and the defaults of a new spot (`Begin`, `PushMessage`, `PushGroup`), the
tuple of a merge (`PopDenied`), the copy of an unknown field
(`UnknownDenied`). The next call starts from there.

### EpEncoder

`enc` is the buffer: `mem` is everything ever written, inside or outside the
allocation, `cap` what is really allocated, and `size` what `enc->size` says.
They differ, since the code notes the new size before the realloc that may
fail. `strayed` is a history variable, set by a write behind `cap`. `left`
counts down to the realloc of the call that fails. A macro that raises returns
from the function it stands in, and not from a caller that ignores the result:
`Tagged` goes on where `pack_tag` gave up, and an exception that was raised so
ends the call with an error only when the loop is over. The stack doubles too,
or cannot (`Denied`), and the binary to be returned may be refused
(`CloseDenied`).

A list whose tail is not `[]` carries `Stray` as its last element; the code
notices it when it gets there (`ListStrays` for lists of messages). For an
unknown group without items it looks at a variable that was never set, so
`UnknownFields` chooses whether that passes.

`Term` is the set the messages and their parts are from, and `Depth` bounds how
deep each nests: terms of Erlang are finite trees, and that is all
`TermAssumption` says of them.

The tuple actions are `Omit`, `UnknownFields`, `PackedField`, `RepeatedField`,
`PushList`, `BadOneof`, `ScalarField`, `PushGroup`, `PushMessage`; the list
actions `ListGroup`, `ListMessage`, `ListStrays`, `ListEnd`; and `CloseMessage`,
`CloseGroup`, `CloseRoot` end a tuple. One turn of the inner `for` is one
action.

The encoder's schema has a map of messages (`pages`), messages in messages,
groups, oneofs, packed and unpacked lists and unknown items.

### EpParser

`phase` goes through `ep_load_cache`: the counting pass (`Count`),
`ep_cache_create` (`Create`), one node per definition (`Skip`, `StartNode`,
`Insert`), the sorts (`Sort`), `prelink_nodes` one name at a time (`LinkNode`,
`Linked`), and on any error the unwinding (`Unwind`, `Discard`). A list that does
not end in `[]` is found out when all its definitions are parsed (`RefuseTail`).
`raised` says that an exception is pending, with which the call will end
whatever it returns: the function that raised need not be where the load stops,
since `check_proper_list_tail` tells its caller through a result, which two
callers ignore. One is the counting pass (`enif_protobuf.c:130`; the second pass
refuses the list at 169), the other `parse_opts` (`ep_node.c:458`), behind which
the load goes on to the end (`OptionsRead`). The functions
for messages, map types and oneofs call each other; `frames` is their call
stack and each item they read is a step: `ParseField`, `EnterMap` and
`LeaveMap`, `EnterOneof` and `LeaveOneof`, `CloseOneof`, `CloseMessage`,
`ParseEnum`, `ParseBadItem`. Every step that allocates may fail.

`heap` holds every node ever allocated and `live` those not freed. An address
is never used again, so that a leak, a second free and a node with two owners
are all visible. Atoms are numbers, because the code sorts and searches by
their value. `Bsearch`, `GetField`, `GetAlternative`, `EnumByName` and
`EnumByValue` are the lookups the codecs make in the tables that were built.
`Sortings` is `qsort`: any order of the entries in which their keys do not
fall, so that entries with equal keys may come out either way round.
`DefListAssumption` says that definition lists are lists whose entries are of
one of the forms the module names; `ItemAssumption` the same of their items.
An entry that is not what the place asks for is one of these forms (`"bad"`);
`<<"tail">>` at the end of a list is a tail that is not `[]`, and `<<"tail">>`
alone a term that is no list.

### EpPresize

`path` is the stack of slot 0 during the walk and of slot `busy` while a codec
nests, reduced to what the walk looks at: kind, node and position. The walk is
`StartRoot`, `SkipEnum`, `GoDown`, `NothingBelow`, `EnterElement`,
`LeaveTuple`, `LeaveList`, `EndWalk`; `Resize` is `stack_ensure_size`, once per
slot. `EpCache` has the same resizing with the threads around it and the depth
of a schema as a constant (`Nest`); this module is where the depth comes from.

### EpLoad

`Parser` is `EpParserReference`, its `phase` here called `stage`. When the
parser is done, `WalkedNodes` turns what it built into what the walk reads: a
node is its address, an enum minus its address (`NodeAssumption`). `Destroy` comes when the stacks
could not grow or no codec is at work any more, as the write lock ensures.
The parser's properties are looked at once per load (`Seen`), since the walk
and the codecs change nothing of the parser's.

### EpScalar, EpFloat, EpText, EpValue

One behaviour packs one term and reads the bytes back, or reads bytes that
somebody else wrote, with other bytes behind the field. `EpScalar` has the
shifts and masks of each `pack_*` and `unpack_*`; the number of bits of a
varint byte (`Group`) and of a word (`Word`) are constants, 7 and 32 in the
code. `EpFloat` has the number of exponent and mantissa bits as constants.
`EpText` follows `pack_string_list` through lists in lists (`lists` is its call
stack, `out` what is behind the gap, `free` the room left of what was
reserved) and `unpack_string` byte by byte or character by character; both
`with_utf8` and `string_as_list` vary, and so does the signedness of `char`,
which C leaves to the compiler. `EpValue` picks the family.

### EpApi

A process is in `encode_msg` or `decode_msg` (`frame`), or makes loads and
purges of its own. `overtaken` is a history variable: the processes whose
definitions somebody has replaced since they loaded them.

## Runs

Every run is one module and one `.cfg`. Each property of a passing run has a
mutant in `PROJECT.json`: a plausible bug, kept beside the definition it
changes, under which that property fails.

| run | properties | instance |
|---|---|---|
| `core` | `TypeOK`, `InFlightCacheValid`, `CacheOwnership`, `Presized`, `ImplementsService` | two threads, three cache addresses, two slots, a recursive schema, whose load raises, and a wide one; encode, decode, load, purge, a `set_opts` refused half-way; any allocation failing |
| `live` | `SlotExclusive`, `EveryCallReturns` | two threads, four slots, one upgrade, one schema, known and unknown names; load, decode, purge |
| `decode` | `TypeOK`, `EndsNested`, `SpotsLinked`, `DecodesAsReference`, `ReaderAdvances` | the binaries of `MCEpDecoder`, nesting limit 2 |
| `encode` | `TypeOK`, `GapsNest`, `WritesInBounds`, `EncodesFaithfully`, `TurnConsumes` | the messages of `MCEpEncoder`, a buffer of 16 bytes whose reallocs succeed |
| `load` | `InsideArrays`, `OneOwner`, `NothingLeaks`, `LoadsAsDeclared`, `JudgedRight`, `TypeOK`, `PathSimple`, `InsideStack`, `PresizedForAll`, `WalkEnds` | the definition lists of `MCDefinitions`, two slots, any allocation failing |
| `values` | `TypeOK`, `ReadsBack`, `WritesCanonically`, `ReadsOthersAsProtobuf`, `ReadsNearest`, `ReadsEveryPattern`, `RoomReserved`, `StaysInString`, `WritesPlainText`, `ReadsPlainText` | the terms and bytes of `MCEpValue` |
| `api` | `AnswersByItsDefs` | two processes, three schemas with different messages, of which loading one raises |

What they show:

- `InFlightCacheValid`, `CacheOwnership`: no interleaving of codecs with loads
  and purges lets a codec walk a freed or replaced schema, and no error path
  of a load leaks a cache.
- `SlotExclusive`: with a slot for every thread and every upgrade (4 = 2
  threads x 2 generations), none is shared. The next table has the case of
  fewer.
- `ImplementsService`: whatever the interleaving, each call behaves as if it
  took effect at one moment. A load that raises changes nothing, except for the
  schemas in `Raising`: their load takes effect and raises. That the two
  exclude each other for every other schema is the property; that such schemas
  exist is a disagreement listed below.
- `Presized`: `stack_ensure_all` and the widening that follows leave every slot
  large enough, including after a load that ran out of memory between slots
  and after deep messages grew the stack in other ways.
- `EveryCallReturns`: no path keeps the lock.
- `DecodesAsReference`, `EncodesFaithfully`: the loops compute what the
  recursive definitions say, also on a stack left by a call that failed or was
  denied memory; lists that do not end in `[]` are refused wherever they are.
- `EndsNested`, `GapsNest`, `SpotsLinked`: the invariants that make the loops
  right, stated on their own as they say why.
- `ReaderAdvances`, `TurnConsumes`: every turn makes progress, so that both
  loops end, without any assumption of fairness.

- `InsideArrays`, `OneOwner`, `NothingLeaks`: with a definition refused or an
  allocation failing anywhere, the parser writes inside the arrays it counted
  beforehand, and frees every node exactly once.
- `JudgedRight`: a load says ok if and only if its list is sound (an independent
  definition in `EpParserReference`) and memory suffices. What it installs is
  sound but for the tails of field options; it raises then and only then, and
  when it installs nothing.
- `LoadsAsDeclared`: all lookups give what a loaded list declares, with the dense
  table and without.
- `PathSimple`, `WalkEnds`: the walk ends on recursive schemas because it never
  enters a node it is inside of. `InsideStack`, `PresizedForAll`: nothing is
  written behind a stack, and a codec reallocates its stack only for a message
  that is inside itself.
- `ReadsBack`, `WritesCanonically`, `ReadsOthersAsProtobuf`: the hand-written
  varints, zigzags and sign extensions are those of the specification, at every
  boundary and for overlong, truncated and too wide input.
- `ReadsNearest`, `ReadsEveryPattern`: a float field gives the nearest float,
  keeps the sign of zero and of what rounds to it, and every NaN reads as
  `nan`.
- `RoomReserved`, `StaysInString`, `WritesPlainText`, `ReadsPlainText`: strings
  are written in the room reserved for them, read inside their bounds, and mean
  the same on both sides, but for the terms the next sections name.
- `AnswersByItsDefs`: `encode_msg` and `decode_msg` use the definitions they
  were given unless another process loads others or purges in between.

### Bounds

Two threads are enough for every pairwise race; the lock, the slots and the
cache pointer treat threads alike. Three cache addresses hold the loaded one
and one private to each thread. Two schemas tell "the old" from "the new".
`StackInit` is 1; the walk of the recursive schema goes one deep and its
messages two, the other schema is two deep and twice as wide, so that loads and
messages both resize a stack. Threads and addresses are symmetric, and
symmetry is used where only safety is checked. `MaxUpgrades` bounds upgrades;
only `live` has one, since what an upgrade touches is who has which slot.

The binaries of `decode` are all strings up to a length over an alphabet of
tags, lengths and values, and sequences of well-formed pieces, some cut short,
in each of the contexts a field can be in. `MaxGroupDepth` is 2 in place of
100. Varints stay below 2^28, where every integer type agrees.

The messages of `encode` take each field absent, present, empty and of the
wrong type, nested to depth three, with one payload above 127 bytes, whose
length takes two bytes; lists proper and improper; unknown items well formed and
not. A buffer of 16 bytes (1 MiB in the code) grows in the
middle of tags, gaps and values. The messages are enumerated in `MCInit`;
`Term` is their parts, `Depth` how deep those nest.

Binaries and messages that run into a defect listed below are left out of
`decode` and `encode`.

`FnumMapLimit` is 5 (512 in the code) and field numbers lie around it, so that
there are messages with the dense table, with the search, and on the boundary.
The definition lists vary each part of a definition on its own (names,
numbers, types, occurrences, options; oneofs; enums; entries of the list), well
formed and not, beside definitions to refer to; each of the lists in them, the
options of a field included, is also improper or no list at all. And they have
all graphs of three messages with up to two fields that refer to messages,
oneofs and an enum. A codec nests five deep, enough to go round every cycle.
`InitSize` is 1, so that the walk itself must grow its stack.

The integers of `values` have words of 8 bits and varint bytes of 3 payload
bits. As with 32 and 7, a word is not a whole number of groups, two words are
one bit longer than one, and fixed-width integers are whole bytes
(`WidthAssumption`); that is what the shape of the code depends on. In
miniature every one-word value is tried, and two-word values around each power
of two. The floats have 3 and 4 exponent bits, 1 and 4 mantissa bits, and
integers of 4 and 8 bits. As in IEEE 754's formats, every float is a double,
subnormal floats are normal doubles and the integers have more bits than a
mantissa (`FormatAssumption`). All doubles and all patterns are tried. Texts
have characters on both sides of every UTF-8 boundary, lists nested and
improper, one text above 127 bytes; foreign strings are cut and broken in
every place.

### Fairness

A scheduler thread that is in a NIF keeps running
(weak fairness of every step but taking the lock). The emulator's rwlock
queues its waiters, so a thread that finds it free again and again gets it
(strong fairness of `RLock` and `WLock`). Clients need not call again:
`Invoke` is not fair, nor is `Upgrade`. This is for `live`.

`load` has weak fairness of the parser and the walk together: nothing stops a
process that is inside `load_cache`. No other run assumes any.

### Where the code does something else than it says

These runs fail, on purpose, each with a trace of the defect.

| run | property | what happens |
|---|---|---|
| `toctou` | `NoNullDereference` | a purge between the unlocked test of `state->cache` and its use under the lock; `README.md:164-165` says all functions are safe to call concurrently |
| `options` | `OneSettingPerCall` | `set_opts` changes options under running calls; `enif_protobuf.erl:57-58` says they apply to the schema loaded afterwards |
| `oneof_switch` | `DecodesAsReference` | a message alternative of a oneof that replaces another starts from leftover elements; `test/ep_gpb_tests.erl:390` says there is no merge |
| `empty_group` | `EncodesFaithfully` | the tail of a kept unknown group without items is read before it is set (`ep_encoder.c:891`), so that the message is refused or written by chance; `README.md:176` says unknown fields are preserved and re-emitted |
| `alloc` | `WritesInBounds` | the buffer is exactly full and cannot grow: `pack_tag` gives up, its callers do not look, and the wire type is written behind the buffer; `ep_encoder.c:45` says callers must not write then |

What follows, which the models also have, are further disagreements with what
the repository says, without a run of their own. The passing runs leave out what
would violate their properties. They have what a property can allow for and still
say something: unknown names (`live`), another process's load between two calls
(`api`), loads that raise and take effect (`core`, `api`, `load`), surrogates
(`values`, whose reference takes them for characters).

Shared state:

- `enif_protobuf.c:327`: an upgrade keeps `slot_next` and forgets who has which
  slot, so that threads run out of slots and share the last;
  `enif_protobuf.erl:49-50` says two threads never do. With `LockN` below 4
  `live` finds it.
- `enif_protobuf.erl:111`: another process's load between the two calls of
  `encode_msg` or `decode_msg` makes them use other definitions;
  `README.md:168-169` says all functions are safe to call concurrently.
- `decode/2` raises the name it does not know, where `README.md:159` says
  `unknown_msg`. `EpCache!Lookup` and `EpSchemaService!Serve` have the name.

Decoder:

- `ep_decoder.c:1045`: the group field stays noted on the parent's spot, and
  the next sub-message is stored in its place.
- `ep_decoder.c:479`: an element may run over the end of its packed run;
  `README.md:329-330` says malformed binaries raise.
- `ep_decoder.c:1257`: a message alternative of a oneof that occurs twice is
  continued on lists already turned around, so that repeated values come out of
  order; `test/ep_gpb_tests.erl:388` has them in order. A map in such an
  alternative keeps duplicate keys.
- `ep_decoder.c:1006`: a map in a group that comes twice keeps duplicate keys;
  `test/ep_gpb_tests.erl:418-420` says the later one overrides.
- `ep_decoder.c:1183`: the default of an enum without a zero is the entry
  whose atom sorts first, which need not be the first of the definition and,
  after an `{option, allow_alias, _}` entry, is no term at all.
- `ep_decoder.c:1165`: an absent string is an empty list whatever
  `string_as_list` says; `README.md:306` says binaries by default.
- `ep_decoder.c:233`: a bool's varint is cut to 32 bits before it is compared
  with zero, so that 2^32 reads as false.
- `ep_decoder.c:374`: with `string_as_list` and without `with_utf8`, bytes
  above 127 become negative where `char` is signed.
- Invalid UTF-8 is accepted into lists in several forms (overlong, surrogates).
- A known group may nest one level deeper than an unknown one.
  `EpWire!GroupBounds` and `SkipGroup` have the two counts, and the reference
  uses the same.

Encoder:

- `ep_encoder.c:162`: `fixed32` and `fixed64` take signed integers, so that the
  upper half of their range raises, and -1 is encoded;
  `test/ep_proper_encode_tests.erl:35` gives the range 0 to 4294967295.
- `ep_encoder.c:331`: a double beyond the floats is written as infinity, where
  gpb, whose results `README.md:13-16` promises, raises.
- `ep_encoder.c:333`: a float takes integers of 32 bits and a double of 64,
  though larger ones are representable too.
- `ep_encoder.c:428`: U+FFFE and U+FFFF are written as one byte, which is not
  UTF-8 and is refused when read. Surrogates (U+D800 to U+DFFF) are written
  like other characters.
- `ep_encoder.c:537`: a UTF-8 binary inside a list of characters that fit a
  byte is taken for Latin-1 and encoded again; one wider character in the list
  and it is copied as it stands. A list with a wide character and a binary
  tail is refused.
- `ep_encoder.c:1025`: a map entry whose message value is undefined is written
  without it, and the decoder refuses the result;
  `test/ep_gpb_tests.erl:457-458` says it is an error.
- `enc->size` keeps its doubled value after a failed realloc, and the next call
  on that slot takes it for the size of the buffer. `EpEncoder!Begin` and
  `Reserve` model it.

Parser:

- `ep_node.c:458`: `parse_opts` ignores the result of `check_proper_list_tail`.
  Options of a field that are no proper list raise, but the load goes on, swaps
  the cache and frees the old one (`enif_protobuf.c:214-223`): the caller sees an
  exception, and the schema is in force.
  `test/ep_field_opts_improper_list_validation_tests.erl:6-8` says that
  `load_cache/1` should reject such definitions; the test looks at the exception
  alone. `JudgedRight` says that this is the only such case, `ImplementsService`
  what the other calls then see.
- `free_node` does not go down into the map of a oneof's alternative, so that
  one leaks (protobuf allows no such definition, and the parser accepts it).
- Nodes of map entries and their alternatives have `proto_v` 0, `id` is 0 in
  every node, `link_sub_node` does not look at the kind of the definition it
  links, and field numbers of 2^29 and above are accepted.

## Proofs

Each theorem holds for every value of the constants, under the assumptions the
models name and the hypotheses given here. "Run" is where TLC checks the same
formula on an instance.

| theorem | module | statement | run |
|---|---|---|---|
| `TypeCorrect` | `EpCacheProofs` | `Spec => []TypeOK` | `core` |
| `NoUseAfterFree` | `EpCacheProofs` | `Spec => []InFlightCacheValid` | `core` |
| `CachesOwned` | `EpCacheProofs` | `Spec => []CacheOwnership` | `core` |
| `Linearizable` | `EpCacheProofs` | `Spec => ImplementsService` | `core` |
| `SlotsExclusive` | `EpCacheProofs` | `EnoughSlots` gives `Spec => []SlotExclusive` | `live` |
| `SlotsPresized` | `EpCacheProofs` | `Spec => []Presized` | `core` |
| `SafeWithoutPurge` | `EpCacheProofs` | `"purge" \notin Calls` gives `Spec => []NoNullDereference` | (`toctou` violates it with purges) |
| `PresizeTypes` | `EpPresizeProofs` | `Spec => []TypeOK` | `load` |
| `WalkStaysSimple` | `EpPresizeProofs` | `Spec => []PathSimple` | `load` |
| `NoStackOverrun` | `EpPresizeProofs` | `Spec => []InsideStack` | `load` |
| `PresizedForEverySchema` | `EpPresizeProofs` | `Spec /\ OneofsOwned => PresizedForAll` | `load` |
| `ParserInsideArrays` | `EpLoadProofs` | `LoadSpec => []InsideArrays` | `load` |
| `NodesHaveOneOwner` | `EpLoadProofs` | `NoMapInOneof` gives `LoadSpec => []OneOwner` | `load` |
| `ParserLeaksNothing` | `EpLoadProofs` | `NoMapInOneof` gives `LoadSpec => []NothingLeaks` | `load` |
| `TypesAfterLoad` | `EpLoadProofs` | `LoadSpec /\ []Addressed => []TypeOK` | `load` |
| `WalkSimpleAfterLoad` | `EpLoadProofs` | `LoadSpec /\ []Addressed => []PathSimple` | `load` |
| `NoOverrunAfterLoad` | `EpLoadProofs` | `LoadSpec /\ []Addressed => []InsideStack` | `load` |
| `PresizedAfterLoad` | `EpLoadProofs` | `LoadSpec /\ []Addressed => PresizedForAll` | `load` |
| `DecoderTyped` | `EpDecoderProofs` | `Spec => []TypeOK` | `decode` |
| `EndsNest` | `EpDecoderProofs` | `Spec => []EndsNested` | `decode` |
| `LinksHold` | `EpDecoderProofs` | `Spec => []SpotsLinked` | `decode` |
| `DecoderAdvances` | `EpDecoderProofs` | `Spec => ReaderAdvances` | `decode` |
| `EncoderTyped` | `EpEncoderProofs` | `Spec => []TypeOK` | `encode` |
| `EncoderConsumes` | `EpEncoderProofs` | `Spec => TurnConsumes` | `encode` |
| `GapsNested` | `EpEncoderProofs` | `Failing = {0}` gives `Spec => []GapsNest` | `encode` |
| `WritesStayInBounds` | `EpEncoderProofs` | `Failing = {0}` and `Sized` give `Spec /\ []InMemory => []WritesInBounds` | `encode` |
| `ItsDefsAnswer` | `EpApiProofs` | `ApiSpec => []AnswersByItsDefs` | `api` |

### Entry points

`EpCacheProofs` rests on the assumptions `EpCache` states of its constants (at
least one slot; `Null` is none of the other values; finitely many threads) and
on nothing else. Neither safety property of the caches is inductive: that a
codec's cache is not freed depends on who holds the lock, and on what a writer
holds privately. The invariant

    IInv == TypeOK /\ CallOK /\ LockOK /\ OwnerOK /\ CacheOwnership /\ InFlightCacheValid

adds `CallOK` (a thread's locals fit its program counter), `LockOK` (the lock is
held exactly where the program counters say, by readers or by one writer)
and `OwnerOK` (at which program counters a call owns a cache). One lemma per
conjunct shows that every action preserves it, by cases over `Next`.
The argument of the last, `FlightStep`: the actions that change `cache` or free
an address hold the write lock or own the address; a codec at work holds the
read lock, so nobody swaps the pointer under it; and the address it walks is the
loaded one, which by `CacheOwnership` no load or purge owns.

The refinement needs two more facts, `RInv == IInv /\ AnswerOK /\ BuiltOK`: a
call has its answer behind the step that decides it and not before, and what a
load installs is what it was asked for. `RefineStep` then names, for each
action, the step of `EpSchemaService` it is: a codec is served in `Lookup`, or
in `Check` when there is no cache, under the schema that is loaded at that
instant; a load takes effect in `Swap`; all but the steps that decide an answer
leave the service as it is (`Unseen`).

Slots. `SlotInv` says that `slot_next` is behind every claimed slot, that
claims differ, and that at most one slot per thread and upgrade was handed out.
`EnoughSlots`, `LockN >= (MaxUpgrades + 1) * Cardinality(Thread)`, is the
premise of the comment at `enif_protobuf.erl:49-50`, one slot for each
scheduler thread, and what upgrades do to it: they hand out the slots again from
where the last library stopped. The code gives one per scheduler thread
and none for upgrades, so that the theorem covers it until the first upgrade.

Sizes. `SizeInv` says how far a load has come with the slots at each of its
program counters. `Deep` comes with the first pass and `Wide` with the second;
neither can be undone, since stacks and spots only ever grow (`SlotsGrow`),
codecs' own growing included. A failed load leaves them partly grown, which is
why `Presized` survives it.

`SafeWithoutPurge` is the other side of run `toctou`: a codec between its
unlocked test and its lookup relies on a cache being there (`PassedCheck`), and
of all calls `purge` alone takes it away. Loads do not.

### Parser

The proofs about the parser in `EpLoadProofs` rest on `LoadAssumption` alone:
definition lists have the forms `EpParser` names, and `FnumMapLimit` is a natural
number. None of its three properties is inductive. That a cache has room for the next node depends on
what the counting pass counted; that `v_fields` is as long as `v_size` says, on
fields that are still to be read being blank; that a load which fails frees
everything, on everything being reachable from what it frees.

    LoadInv == TypesInv /\ CacheInv /\ RoomInv /\ Sound(heap) /\ RootsInv /\ AliveInv /\ FramesInv

- `RoomInv`: the definitions not yet read still fit in the cache.
- `Sound`, of the heap: nodes are whole (`Whole`); the nodes of maps and oneofs
  are those a field refers to (`Hung`, `AllHung`), each from one field only
  (`HungOnce`); and without a map in a oneof they refer to no further such node
  (`Shallow`).
- `RootsInv`: all other nodes are in the cache, once, or are the one being read.
- `AliveInv`: nothing is freed before the load ends, and then all of it.
- `FramesInv`, through `Calls`: of a call in progress, the fields behind the
  current one are blank, and the numbers counted for the node so far are those
  of the fields before it and of their oneofs.

`StepKeeps` goes through the actions. `CallEnters` covers a call that allocates
a node below the current field, `CallAdvances` one that has read an item, and
`RestKeeps` the phases around them.

What `free_node` frees is a recursive function. `FreeExists` shows that there is
one, because a node it goes down to is the node of a map or a oneof and leads no
further. `OnceCounted` then says that no node comes twice into what is freed
from the roots, and `AllFreed` that every node comes into it; `Releases` puts
this together for the three places that free: `Unwind`, `Discard` and `Destroy`.

`NoMapInOneof` is the hypothesis of the two theorems about ownership. The parser
accepts a map as an alternative of a oneof, and `free_node` does not look for
one there, so that it leaks; protobuf allows no such definition.
`ParserInsideArrays` does without it.

### Walk

`EpPresizeProofs` rests on `PresizeAssumption` alone (enums are nodes, there is
a slot, a stack starts with at least one spot). `PathSimple` is not inductive:
it lets a spot follow one of the same node when the lower is a list, and says
nothing of the upper one, so that a list above a list would break it at the next
step. The invariant

    IInv == TypeOK /\ InsideStack /\ (phase = "walk" => PathUnique) /\ (phase = "resize" => path = <<>>)

has `PathUnique`, where the upper one is the list's tuple. The argument:
`GoDown` enters only what `spot_path_contains_node` did not find on the path,
and `EnterElement` only the element of the list on top; doubling a stack of at
least one spot always makes room for one more. That the walk ends follows on
paper: a path without repetitions is at most twice as long as there are nodes,
and positions only grow. TLC checks it (`WalkEnds`).

`PresizedForEverySchema` says what the walk is for: a codec needs no deeper stack
than the walk has made, unless a message is inside itself. Neither `InsideStack`
nor the walk's own path says so, because what counts is every place the walk has
been to and left. A `Way` is a path from a root down the schema that goes down to
no node twice. The invariant

    WInv == IInv /\ DepthInv /\ OneofsOwned /\ CodecInv

says two things of them:

- `DepthInv`: each way that leaves the walk's path where the walk has already
  been (`Behind`) fits on the stack of slot 0. When the walk ends all ways are
  behind it; `Resize` brings the other slots up to that, one after the other. The
  hard steps are those that leave a spot (`PopMeasures`): what was behind that
  spot has to be behind the one below it, including the way that ends there and
  those the walk did not go down, because their next node was on the path.
- `CodecInv`: where a codec is, it has met a message twice (`Twice`), or there is
  a way that comes to the same spot through no other nodes than the codec's and
  those of oneofs (`Along`). The two differ, because a codec takes no spot for a
  oneof and `decode` none for a list: the codec's stack is never deeper than the
  way. When the next message is one the way has met before and the codec has not,
  the way is cut back and taken up from there (`MessageKnown`).

`OneofsOwned` is the hypothesis, on the schema the walk is given: the node of a
oneof is below one field and holds no further oneof, and an enum refers to
nothing. Without the first, a way could need a node of a oneof twice which the
codec does not see. The parser builds nothing else, as the next section shows.

### Load

The theorems whose names end in `AfterLoad` are about `EpLoad`, where the walk
goes through what the parser has built, and take no hypothesis on the schema. They
rest on `LoadAssumption`, `PresizeAssumption` and `NodeAssumption`, which says how
the walk names nodes. `Addressed` is their one hypothesis, on the model and not on
the code: `Node`, a bound, has a name for every address in use. It holds in every
state of run `load`. `NoMapInOneof` is not needed.

    LoadedInv == LoadInv /\ RefInv /\ Idle /\ WInv

- `RefInv`: a field either owns the node below it, or refers to one that is no
  map and no oneof, or to nothing; no alternative is a oneof (`Referred`). What
  the sorted table of names has is in the cache (`NamesInv`). `LoadInv` says
  which owned node is below which field, and this what all other fields may
  refer to. The step that matters is `LinkNodeSuits`: a reference is resolved to
  what `bsearch` finds, which is one of the entries it was given or none
  (`BsearchFinds`, by induction over the part it still looks at).
- `Idle`: before the parser is done the walk has not begun.
- `WInv`, of the walk, as above. When the parser is done, `HandedOneofs` derives
  `OneofsOwned` from the first two: a oneof is owned once (`HungOnce`), no other
  field refers to it (`Referred`), and it is no root, since the roots are nodes
  that no field owns (`RootsInv`). Then the state is one `EpPresize` may start
  in, and `WalkKeeps` does the rest. A load that fails before only leaves the
  walk (`GivenUp`).

### Decoder

`EpWireProofs` shows of every reader that it fails or stops behind where it
began and not behind the end it was given, whatever the bytes are:
`TagAtBounds`, `LengthAtBounds`, `SkipUnknownBounds`, `UnpackFieldBounds`,
`UnpackPackedBounds`, `CollectUnknownBounds`.

The invariant of the loop, `DInv`, has `Nested`: each spot in use ends inside
the one below it, `dec->end` is the end of the innermost, the element a spot was
entered for refers to its node, and a spot of a group remembers the end of the
one below it, up to which its end tag is read. `Nested` also says that the
spots above the top belong to no group, which `EndsNested` does not mention and
cannot do without: entering a message does not reset the spot's group, and with
a stale one it would look for an end tag up to the end of a call long over.
`Begin` resets all spots and `PopInner` the one it leaves. Of what else a call
that failed leaves on the stack, only that it is spots (`Spots`) is assumed.

`DecoderAdvances` is proved with the same invariant: each turn reads on, or pops.
It needs the bounds of the readers, since a turn that reads nothing would go
round for ever. That the elements of a tuple are the right terms
(`DecodesAsReference`) is not proved.

### Encoder

`EpEncoderProofs` first shows what each writer does to the buffer (`Wrote`): the
writer does not go back, what was written stays a buffer, and when no realloc
is denied, bytes inside the allocation stay inside. The chain goes up from
`EmitBytes` and `ReserveRoom` over tags, numbers and binaries to `PackFieldWrote`,
`PackUnknownWrote` (unknown groups in groups) and `PackRunMoved` (a packed run
moved back over its gap). `VarintLength` is where widths matter: a number below
2^64 has at most ten bytes, one below 2^32 at most five, which is what the
code reserves.

The invariant of the loop is `EInv`:

- `Stacked`: what spots in use look like, and that no spot above `sp` waits for
  a length. A list is pushed without resetting `need`, so this is what keeps a
  list from closing like a message.
- `Gapped`: the gaps nest in the order of the spots, the writer is behind the
  innermost, and all before it was written, unless the writer is just behind
  a gap that was left. `CloseMessage` moves what is behind its own gap, and
  `GapsClosed` shows that the gaps below it lie before that.

`EncoderTyped` and `EncoderConsumes` hold whichever realloc fails. The other two
have hypotheses, each for a reason:

- `Failing = {0}`, no realloc is denied. Run `alloc` shows that the buffer is
  overrun otherwise. `GapsNest` needs it as well: `pack_tag` may then write
  nothing, unnoticed, and two gaps meet where the tag is missing.
- `Sized`: field numbers are below 2^32, integers below 2^64 and binaries shorter
  than 2^32, as they are in the C types; `Term` could hold more.
- `[]InMemory`: the output is shorter than 2^64 bytes, so that its own length
  fits in the gap. A machine with such a message does not exist.

`EncodesFaithfully`, that the bytes mean the message, is not proved.

### Erlang API

`ApiInv` says what a process has asked for (`Asked`) and, as long as nobody has
overtaken it, that its definitions stay in force from the load that installed
them until its codec is answered (`Holding`, `Served`). `ApiAssumption` makes
answers tell apart what happened: a message or schema is not called `ok`.

### What is not proved

Liveness under fairness and `ENABLED` are out of TLAPS's reach:
`EveryCallReturns` and `WalkEnds` stay with TLC. Operators declared `RECURSIVE`,
too: the references of both codecs (`DecodesAsReference`, `EncodesFaithfully`) and the texts of `EpText`, and with
them `EpValue`, whose properties range over every family: all of run `values`.

Recursive functions can be proved about, with more work than the rest. `EpWire`
and `EpEncoder` use them and the folds of the community modules.
`EpInduction` shows once that a function whose body only looks at smaller
arguments exists (`Recursion`), so that it may be unfolded; induction takes the
form of a set of naturals without a least element (`LeastNatural`), or of a set
that holds what all smaller arguments are in (`MeasuredSet`), since the
library's induction theorems take an operator.

That the parser judges definition lists rightly (`JudgedRight`) and that the tables it builds are what a list declares (`LoadsAsDeclared`) is only
model-checked: both compare a whole load with a definition that looks at the
whole list, and would need the meaning of every half-read definition in the
invariant.

## Not modelled

- What changes no state: `unload`, whose body is compiled out, so that an old
  library leaves everything to the new one; `reload`; `debug_term`; the argument
  checks that return `badarg` before anything is touched.
- `load` failing for want of memory: there is then no library to call.
- Memory outside stack and buffer: that `merge_group_values`
  (`ep_decoder.c:1022`) leaves its half-filled tuple allocated when a nested
  merge is denied. That the call ends there is modelled.
- The time the walk takes: on a dense graph of messages there are exponentially
  many paths without repetition (`ep_node.c:879`).
- The sort of libc, taken for what it promises; the models check the keys it is
  called with.
- Tests, benchmarks, scripts and build files.

After a write behind the buffer the C program's behaviour is undefined. The
model only records that it happened, and nothing is claimed beyond it; the
buffer of the passing `encode` run can always grow.

## Plan

Done: the entry points with their refinement, both codec loops with their
references, the values of every type, the parser, the linker and the presizing
walk, composed, and the Erlang API; proofs of the entry points, the refinement,
the slots, the parser, the walk over what it builds, the loops of both codecs
and the Erlang API.
Left, in this order:

1. Proofs about text: `RoomReserved` and `StaysInString`, with the reading of
   iolists as recursive functions.
2. That zigzag and its inverse undo each other at every width.
