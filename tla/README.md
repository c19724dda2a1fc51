# A verification project for deeppack

deeppack (`dplx::dp`) encodes C++ objects as CBOR and decodes them. It is a
library without threads: what makes it hard to get right is the bookkeeping of
buffers over chunked memory (a call is answered from whichever of several
buffers is current, suppliers fail in the middle of a call and the caller goes
on), explicit stacks over arbitrarily nested items, decoders that must accept
entries in any order from input nobody controls and leave their destination in
a defined state wherever they fail, and stores whose scopes must undo what they
did although allocations and constructors throw.

Paths below are relative to `src/src/dplx/dp/`.

## 1. The system and its components

| component | state it keeps | operations | talks to | what makes it correct |
|---|---|---|---|---|
| chunked output stream: `streams/output_buffer.hpp`, `legacy/chunked_output_stream.hpp` | the writable window (`data()`, `size()`), the current chunk, a small internal buffer, the threshold that says how many of its bytes belong to the end of the chunk, the space left | `ensure_size`, `commit_written`, `bulk_write`, `sync_output`; virtual `do_grow`, `do_bulk_write`, `do_sync_output` | emitters call it; it calls `acquire_next_chunk_impl` of the derived class | no byte lost, doubled or misplaced, whatever fails and is retried; sync leaves nothing behind; `end_of_stream` is honest; every call returns |
| chunked input stream: `streams/input_buffer.hpp`, `legacy/chunked_input_stream.hpp` | the readable window, `mInputSize`, the read area (current chunk), a small buffer that fuses two chunks, `mBufferStart` | `require_input`, `discard_input`, `discard_buffered`, `bulk_read`, `current_read_area` | parsers call it; it calls `acquire_next_chunk_impl` | the caller sees the stream in order; a granted request is granted; the end is honest; calls consume what they say |
| item walk: `items/skip_item.cpp`, `items/copy_item.cpp` | a stack of open items | `skip_item`, `copy_item_to` | reads an input buffer, writes an output buffer | ends exactly behind the item, refuses only malformed input, copies exactly |
| layout codecs: `codecs/auto_object.hpp`, `codecs/auto_tuple.hpp`, `object_def.hpp`, `tuple_def.hpp` | the number of properties left, a bit set of found properties, the object being filled | `encode_object`, `decode_object`, `encode_tuple`, `decode_tuple` and their heads | item heads, codecs of the members | members come from the entries with their ids; required members are found; the version is checked; encode and decode are inverse |
| item heads: `items/parse_core.hpp`, `items/emit_core.hpp`, `items/type_code.hpp` | none | `parse_item_head`, `parse_integer`, `parse_float_*`, `emit_*` | the streams | parse and emit are inverse at every width; reserved codes are refused |
| item sizes: `items/encoded_item_head_size.hpp`, `items/item_size_of_*.hpp` | none | `item_size_of_*` | — | the size is what emit writes |
| ranges: `items/parse_ranges.hpp`, `items/emit_ranges.hpp` | the container being filled | `parse_binary`, `parse_text`, `parse_array`, `parse_map`, `emit_*` | item heads, an element codec | limits hold; a length that cannot be is refused before memory is reserved |
| container codecs: `codecs/std-container.hpp`, `codecs/std-tuple.hpp`, `cpos/container.hpp` | the container | `codec<...>::encode/decode/size_of` | ranges | no duplicate key, fixed sizes hold |
| memory streams: `streams/*memory*`, `streams/void_stream.hpp`, `legacy/memory_*` | one buffer, fixed or growing | the virtual handlers, `reset`, `written` | the buffers above | the same promises as the chunked streams |
| state stores: `state.hpp` | keyed type-erased states | `emplace`, `replace`, `erase`, lookup | contexts | one state per key, destroyed once |
| perfect hash: `detail/perfect_hash.hpp` | a table built at compile time | the seed search, lookup | (not used by the decoders at this commit) | a bijection on the keys |
| scalar and string codecs: `codecs/core.*`, `codecs/std-*` ... | none | thin adapters | heads and ranges | conversions |
| entry points: `api.hpp`, `cpos/stream.hpp` | none | `encode`, `decode`, `encoded_size_of` | stream, context, codec | what is encoded is synced |

Three calls carry most of the interaction. An emitter calls `ensure_size`,
writes into `data()` and calls `commit_written`; if the window is too small the
base class calls the virtual `do_grow`, which may call `ensure_size` again. A
parser calls `require_input`, reads `data()` and calls `discard_buffered`; the
virtual `do_require_input` may call `require_input` again. Both chunked streams
ask their derived class for memory through `acquire_next_chunk_impl`, a callback
that may fail at every call, after which the caller holds a stream it may go on
using.

The hazards found while reading are in `PROJECT.json` under `hazards`, each at
its line and with the properties that cover it, or with a note why none does.

## 2. Modules

| module | models | checked by |
|---|---|---|
| `ByteSink` | what an output stream promises: it accepts bytes, stores some of them, and after a sync has stored all | refinement target of `ChunkedOutput` |
| `ChunkedOutput` | `output_buffer` and `chunked_output_stream_base` | `MCChunkedOutput`, `ChunkedOutputProofs` |
| `ByteSource` | what an input stream promises: a call that succeeds consumes what it was asked to, one that reports the end consumes nothing, another failure may consume a part, and none goes past the end | refinement target of `ChunkedInput` |
| `ChunkedInput` | `input_buffer` and `chunked_input_stream_base` | its own runs, `ChunkedInputProofs` |
| `ItemWalk` | `skip_item`, `copy_item_to` | `MCItemWalk`, `ItemWalkProofs` |
| `WellFormedItem` (extends `ItemWalk`) | no code: what an encoded item is, as a recursive descent, and what the two walks promise in its terms | `MCItemWalk`, `ItemWalkProofs` |
| `Recursion` | no code: induction and recursion along a measure, proved from the library's least-element theorem | used by `ItemWalkProofs`, `CodecProofs`, `DecodingProofs` |
| `LayoutCodec` | the object and tuple codecs | `MCLayoutCodec`, `LayoutCodecProofs` |
| `ItemHeads` | the head of an item: its bytes, its size, its value | `MCCodec`, `CodecProofs` |
| `MemoryStreams` | `memory_output_stream`, `dynamic_memory_output_stream`, `void_stream`, the legacy `memory_buffer`, `memory_input_stream`, and an input that is refilled | `MCCodec`, `CodecProofs` (outputs), `DecodingProofs` (inputs) |
| `Codecs` (extends the two above) | `size_of` and `encode` of scalars, strings, containers, tuples | `MCCodec`, `CodecProofs` |
| `Decoding` (extends `Codecs`) | the parsers and `decode` of the same types | `MCCodec`, `DecodingProofs` |
| `Codec` (extends `Decoding`) | sessions of the entry points `encode`, `decode`, `encoded_size_of` on these streams | `MCCodec`, `CodecProofs`, `DecodingProofs` |
| `Bindings` | what the scopes of a context promise: dynamic binding | refinement target of `StateStore` |
| `StateStore` | `state_store`, `link_store`, `scoped_state`, `scoped_link`, `unique_erased_state_ptr` | `MCStateStore`, `StateStoreProofs` |

The `map` of `PROJECT.json` names the lines behind each definition. Operators
whose comment begins with "Mutant of" are plausible wrong versions of the
definition that follows; they take no part in the specifications and only show
that the properties can tell the difference.

### ChunkedOutput

A byte is its position in the stream. The memory of all chunks, in the order in
which they are acquired, is one function `sink` from stream offsets to bytes, so
that `mCurrentChunk` is the interval `from .. to - 1`. `area`, `at`, `size` are
the window; `area = "none"` is the window after `reset()`. `small` is
`mSmallBuffer`, `threshold` is `mDecomissionThreshold`, narrowed as the code
narrows it to `std::int8_t`. `count` is a ghost: the bytes taken from the caller.

`EnsureSize`, `Commit`, `BulkWrite` and `SyncOutput` are the four public calls.
When `ensure_size` or `bulk_write` reaches its virtual handler, `pc` leaves
`idle`, and each turn of the handler's recursion or loop is one action, named
for the branch of `do_grow` or `do_bulk_write`. Every acquisition may fail, in
which case the action does what the code does before the error is passed on
(`KeepOverlap`). A copy past the end of a chunk sets `pc = "undefined"`; nothing
is said of what follows it.

### ChunkedInput

Bytes are positions again, and the chunks are consecutive intervals of
positions, so the contents of a chunk need no variable. `first`, `from`, `to`
are `mReadArea` (where its memory begins and what of it remains), `start` is
`mBufferStart`, `inputSize` is `mInputSize` modulo `Word`. `pos` is the ghost
position of the caller and `dest` the bytes a `bulk_read` has delivered.

Two constants name what a caller may do. `RetryTorn` says whether it goes on
after the supplier failed while two chunks were being fused; `DiscardPast`
whether it discards more than the buffer holds while the buffer is not empty or
while the small buffer is in use, be that empty or not. With both FALSE the
properties hold; each of them alone breaks them (section 4). The subtraction of
an unrelated pointer in `do_discard_input` is `pc = "undefined"`, a state that
`InOrder` excludes and in which, for `ImplementsByteSource` and
`EveryCallReturns`, a call has not returned. This is a discipline that no text of
the repository asks for and that `skip_item` does not keep (it discards whole
strings, `skip_item.cpp:29,55`): what is shown of the stream is shown of callers
that do.

### ItemWalk

The input is a sequence of units, a parsed head or one byte of a string, that
is chosen while the walk reads it; it may end at every unit, and the stream it
comes from may fail, in the middle of a string with a part of it consumed
(`InputFails`). `mode` says which of the two functions runs. They share their structure (the stack, the branches
on the major type), and each branch is one action; the differences (consume or
peek, and the loop of `bulk_copy` that moves as many bytes as the output buffer
has room for) are in `Pass`, `PushHead`, `ChunkOf`, `SkipBytes` and `CopyBytes`.

The value of a head is any number below `Word`, which stands for 2^64. Of a
chunk of an indefinite string `copy_item_to` computes `encoded_length + value`
(`Amount`) modulo `Word`. If that wraps to zero, nothing is copied and the loop
looks at the same head for ever (`pc = "spin"`); if it wraps to less than the
head, the amount is copied as the unit `Torn`, and any unit may come next, since
what the rest of the head parses as depends on its bytes.

`WellFormedItem` says what they are for. An expectation is a goal (an item, `n`
items, elements or pairs up to a break, chunks up to a break) at a position, and
`Ends` gives the position behind it, `Malformed` if no input with this prefix has
one there, or `Incomplete` if it depends on what follows. It is a recursive
function rather than a RECURSIVE operator, so that it can be reasoned about.

### LayoutCodec

The input is a sequence of tokens: heads, integers, opaque values. A layout
descriptor is a record with its sorted ids, the required ones and the version.
`DecodeHead`, `DecodeVersion`, `Count`, `ObjectProperty`, `TupleMember` and
`Finish` are the phases of the decoders; `Encoded` is what the encoders write.
`found` is the bit set in its buckets, whose width is the constant `Digits`, so
that a descriptor of three properties already needs two buckets.

### ItemHeads, MemoryStreams, Codecs, Decoding

A codec is sequential and deterministic but for what its stream and the memory
answer, so these modules are operators rather than actions: a call yields the
set of its outcomes, each with the stream afterwards, the error (`rx`, `"ok"` if
there is none) and the value. `Then` and `Try` are `DPLX_TRY`.

- `ItemHeads`: a byte is a number below 256. `HeadBytes` is what
  `store_var_uint` commits, `HeadWord` what it stores on its fast path, where a
  whole word goes to the window whatever the head's length; `EncodedSize` and
  `EncodedSizeBranching` are the two computations of the size. `FastValue` and
  `SlowValue` are the two ways in which `do_parse_item_head` finds the value.
- `MemoryStreams`: a stream is a record. Of an output, `mem` is its memory, the
  window is the `room` bytes after the first `at`; a store past the window has
  the outcome `"undefined"`. Each kind has its own `Grow` and `DoBulkWrite`; a
  growing stream may run out of memory. `buf` is the `basic_memory_buffer`
  behind a legacy stream, which is told how far a call came by `SyncOutput` and
  `SyncInput` only. The input `"stream"` stands for any input that is refilled:
  its window may be any part of what is left and each refill may fail.
- `Codecs`: a type is a record of its kind, a number and its components
  (`Vector(Vector(U8, FALSE), FALSE)`). `Emit` is the sequence of calls an
  encoder makes on its stream, `PerformAll` performs them until one fails. `Emit`
  and `SizeOf` descend into the components of a value. They are recursive
  functions on `Encodable`, the values a program encodes: `Nesting` says how deep
  each one nests, `NestingAssumption` that its components are such values too and
  nest less deep. C++ values are finite, so that there always is such a number;
  `HasType` adds what the C++ type says of a value (the limits of an integer, sizes of 64 bits).
- `Decoding`: `ParseHead`, `ParseInteger`, `ParseFloat`, `ParseBlob`,
  `ParseArrayLike`, `IndefiniteItems` and the others are the functions of those
  names; `Decode[d][in]` is `codec<T>::decode` into the object `d` (a type and
  what it holds), of which a failure may have written a part. Every allocation
  may fail. `asked` is a ghost: the most a container was asked to make room for.
  `Decode` descends into the components of a type and is a recursive function
  like `Emit`: `Level` says how deep each type nests, and `Destinations` are the
  objects that are decoded into, closed under what their decoders decode into
  (`DestinationAssumption`: elements that are emplaced, places that are there).
  A `fixed_u8string` is its size and all of its code units; `Shown` is its
  `string_view`. Those behind the string stay when it is decoded into
  (`DecodeFixedText`), and as they would be a part of a container's elements,
  containers of fixed strings are left out (`LevelAssumption`).
  The loops over the input are functions too; a round takes a byte at least, so
  that `Rounds` of them are enough.

### Codec

A session encodes up to `MaxCalls` values into one output (`EncodeValue`), opens
what it has written as an input (`Open`) and decodes it again (`DecodeValue`)
into a fresh or a used destination; or it decodes an input of foreign origin as
some type. With legacy buffers the caller goes on after a failure, since such a
buffer is as it was before the call, and may go back to the start (`Rewind`).
When a legacy buffer is read in which fewer bytes were written than it has, the
rest of it is memory nobody knows: `Leftovers` are the bytes that may be found
there (the run has 0 and 255, a small integer and a break).
Each call of an entry point is one action with all its outcomes: nothing can
happen between the steps of a call. `log` and `got` record the calls.

### Bindings and StateStore

An object is the address `allocate_state` gave it. `live` are the states that
exist, `raw` is memory without a state, `temp` the `unique_erased_state_ptr` that
`emplace` holds. `emplace` is the one call that owns a state while it may throw:
it is split into `Allocate`, `Construct` and `Insert`, each of which may throw,
and the last may also grow the table, which moves every pointer (`Rehashed`).
`OpenLink`, `CloseLink`, `OpenState` and `CloseState` are the constructors and
destructors of the scopes. `~scoped_link` puts a value back with `replace`, which
may have to allocate; as it is `noexcept` it terminates if it cannot
(`state.hpp:450`, `pc = "terminated"`), and nothing is said of what follows.

`Bindings` knows keys, links and open scopes only. `StateStore` implements it:
closing a scope restores the link it found, whatever was done directly to the
key in between, and removes a state only if the scope made it.

## 3. What the runs check

All properties are stated with a comment in the modules.

| run | question | bounds and why they suffice |
|---|---|---|
| `chunked_output` | `Faithful`: every byte is at its place in a chunk or where it will be copied from; `SyncDurable`; `EosMeansFull`; `GrantedOrAtEnd` (a request to which no chunk is too small is granted, or answered with all that the stream has left); the stream implements `ByteSink`; every call returns | a small buffer of 4 bytes, chunks of 3 and 5 bytes (smaller and bigger than it), a first chunk of 0 or 7, requests of 1, 3 and 8 (met, met in the small buffer, too big), 9 bytes of stream: three seams, and a supplier failure at each acquisition |
| `chunked_input` | `InOrder`; `EosHonest`; `RequireDelivers`; `ReadAreaUnread`; implements `ByteSource`; every call returns | a small buffer of 4, chunks of 1, 3 and 5 (a request may need three chunks), 9 bytes of stream |
| `item_walk` | against a recursive definition of a well formed item: both functions stop exactly at its end, refuse only what nothing can complete, end; what is written is what was read, but for what a failing read loses | 5 units from 14 heads (integers, strings, arrays, maps, tags, breaks; definite and indefinite), nesting up to 4: an indefinite item in a definite one in an indefinite one with its breaks fits |
| `layout_codec` | members come from the entries with their ids, required ones are found, versions are checked, encoding and decoding are inverse | seven descriptors, all maps and arrays of up to three entries over four ids and two values, with wrong counts, versions and cut ends; buckets of two bits; ids on both sides of the switch limit |
| `codec` | encoding: `SizeExact` (both computations of the size are what is written), `RoomSuffices` (a buffer of that size is enough and no smaller one is), `WrittenFaithful`, `LegacyAtomic`. Decoding: `RoundTrip`, `Backed` (a length alone cannot exhaust the memory), `NothingStale` (what may be delivered next is the same for every destination of the type, of a fixed string what it shows; its other code units stay), `FailureContained` (what a failure leaves), `LegacyInputAtomic`, and `ExactlyOneItem` against a recursive definition of a well formed item | values on both sides of each boundary between head widths; buffers of every size from 0 to 10, so that each of these heads meets a window too small, exact, and big enough for a whole word; strings longer than an inline length and than a page of 4 bytes and the window of a discarding stream (10); nested, indefinite and empty containers; two calls per session, so that one fails after or before another; inputs that are cut anywhere and fail; some five hundred pairs of a foreign input and a type |
| `state_store` | `OneOwner` (nothing leaks, dangles or is destroyed twice), `PointersStay`, `Canonical` (the link store holds no default); implements `Bindings` | two keys, three addresses (one more than keys, so that one can be reused), a default and two other values, three open scopes: the same key bound twice with another in between |

On two cores `layout_codec` takes about a minute (352,000 states), `state_store`
half a minute (631,000), the others a few seconds to half a minute (`chunked_input` 94,000,
`codec` 114,000).

Every property of a passing run has a mutant of the code that violates it.

Numbers. TLC's integers end at 2^31 - 1; that number (`Huge`) stands for 2^64 - 1
in `ItemHeads`, and no value between the two is used, so that the 9 byte head is
exercised with its largest value only. `page_size` is 4 and a uuid has 2 bytes.
The bits of a float are a number with the width they came in: a half and a
single keep their value when they are converted.

The specifications may stop wherever a caller makes no further call, or the
function has returned, so the runs do not check for deadlock; what must go on is
stated as liveness instead.

**Fairness.** The library runs on its caller's thread. Weak fairness is assumed
of the steps of a call in progress only: a function that has been called runs
on. No fairness is assumed of callers (they need not make another call) nor of
the chunk supplier (it may fail for ever).

## 4. Where the code departs from what it says

Six runs end with a counterexample.

- `chunked_output_overrun` (`chunked_output_stream.hpp:266`): when the next chunk
  is smaller than what waits in the small buffer, the copy is longer than the
  chunk.
- `chunked_input_discard` (`input_buffer.hpp:167`): the buffered bytes are taken
  off `mInputSize` twice. The `reset()` two lines below also leaves
  `do_discard_input` with a null pointer, from which `retire_small_buffer`
  subtracts the address of the small buffer if that was in use
  (`chunked_input_stream.hpp:130-131`), even if nothing was buffered any more.
- `item_walk_wrap` (`copy_item.cpp:106`): `encoded_length + value` of a chunk is
  computed modulo 2^64. For 2^64 - 9 and a head of nine bytes `copy_item_to` never
  ends; for a value that is a little bigger it copies a part of the head and reads
  on within it, so that it may report success for something that is no item.
- `layout_codec_duplicate` (`auto_object.hpp:555`): without optional properties
  only the number of entries is compared, so that a duplicate hides a missing
  property.
- `codec_overrun` (`parse_ranges.hpp:297`): an array of indefinite length may have
  one element more than the limit, a definite one may not. For `std::array` and
  `std::span` the limit is their size: the element is decoded behind the last
  (`"undefined"` in `DecodeMember`).
- `codec_nested` (`parse_ranges.hpp:105`): a chunk of an indefinite string that
  claims to be of indefinite length itself is read as 31 bytes. `copy_item.cpp`
  and `skip_item.cpp` refuse it, and a comment at `skip_item.cpp:99` says that
  strings cannot be nested.

Two more are in the behaviours of a passing run, whose property says what the
code does instead of what the text promises.

- `GrantedOrAtEnd` (`chunked_output_stream.hpp:82-86`): at the exact end of a chunk
  `ensure_size` answers with the next one whatever its size. `streams.rst:25-27` has
  `end_of_stream` for a stream that runs out of space, and `:98` a buffer at least
  as big as the request; the caller gets `ok` with the few bytes the stream has
  left. The property allows exactly that (`size = StreamSize - count`).
- `ImplementsByteSource` (`chunked_input_stream.hpp:278`): reading or discarding
  exactly to the end of the stream asks for one more chunk and fails with what its
  supplier says, though all was consumed. `ByteSource` allows a call to fail that
  has consumed all it was asked for.

And some lie outside the constants of the runs or have no text against them.

- `chunked_output_stream.hpp:88`: with 128 or more bytes left in the chunk, and a
  request for more, the threshold wraps to a negative number and committed bytes are
  lost. The model narrows as the code does; `Faithful` fails with, for instance,
  `StreamSize = 22`, chunks of 11, requests of 2 and 12, writes of 1 and 2 and
  `ThresholdBound = 8`, which scales 128 to 8. The run `chunked_output` has no
  request beyond the bound, and the theorems assume it (`NoWrap`).
- A caller that goes on after its supplier failed while two chunks were being
  fused sees bytes again (`chunked_input_stream.hpp:208`): `RetryTorn = FALSE`
  excludes it.
- Two `fixed_u8string`s that decoded the same string may be unequal: the defaulted
  `operator==` (`fixed_u8string.hpp:59`) compares the code units behind the string
  as well. `NothingStale` says that they stay.
- `~scoped_link` may end the program (`state.hpp:450`). It is a state of
  `StateStore`, but no property speaks of it.

## 5. What is proved

Eight modules hold proofs. All theorems hold for every value of the constants
that the assumptions named in the modules admit.

### ChunkedOutputProofs

It holds for every size of the stream, of its chunks, of the
small buffer and of the requests.

- `TypeCorrect`: `Spec => []TypeOK`, without further assumptions. The type
  invariant is inductive once it is joined with `Shape`: the chunk and the space
  left add up to the stream, the small buffer's window ends where the buffer
  does, and `bulk_write` reaches its handler with an empty window only.
- `FaithfulOutput`, `DurableSync`, `EndOfStreamIsTheEnd`: `Faithful`,
  `SyncDurable` and `EosMeansFull` in every reachable state, and
  `OutputIsAByteSink`: the stream implements `ByteSink`. All four assume
  `NoWrap`: no request is bigger than a signed byte can hold. Section 4 shows
  that they are false without it.

`Faithful` is not inductive: that a byte of the small buffer reaches its chunk
depends on where `data()` points and on what the handler in progress will do
next. The inductive invariant is `Inv == TypeInv /\ Content /\ Calls`. `Content`
says that the chunks hold exactly the first `Stored` bytes, where `Stored` is
`count` unless the small buffer is in use and `to - threshold` if it is; that
the small buffer holds the `at` bytes that follow; and that otherwise the window
is the unwritten end of the chunk. `Calls` relates the call in progress and its
result to that. There is one lemma
per action (`GrowIntoSmallInv`, `BulkFlushSmallInv`, ...), each split along the
conjuncts it disturbs, over lemmas about `memcpy` (`CopiedHolds`,
`SuppliedHolds`), the recycling of the small buffer (`MovedHolds`,
`RecycleContent`) and the chunk acquisition (`TakeChunkType`, `SpanType`). The
refinement follows from the invariant and one fact per action about the mapped
step (`SinkNext`).

`GrantedIsThere` (`Spec => []GrantedOrAtEnd`) rests on the same invariant, since what
the stream has left is `StreamSize - count` only as long as no byte is lost, and on
`Granting`, which adds to the property that a `bulk_write` in progress is one.

### ChunkedInputProofs

`TypeCorrect`, `BytesInOrder`, `EndOfStreamIsHonest`, `RequiredIsThere`,
`ReadAreaIsUnread` (the five invariants of the run) and `InputIsAByteSource` (the
stream implements `ByteSource`), for every size of the stream, of its chunks, of
the small buffer and of the requests. All assume
`Disciplined == ~RetryTorn /\ ~DiscardPast /\ SupplySize = StreamSize`, that is a
caller and a supplier that keep to what section 4 shows to be necessary. That no
such caller reaches `pc = "undefined"` is a part of `InOrder` and proved with it.

`InOrder` speaks of the window and the position of the caller; that the next
window begins there depends on how much of the chunk was fused into the small
buffer and on the call in progress. The inductive invariant joins `Account`
(what the stream takes to be left against what the chunks still hold), `Placed`
(where the window lies in the chunk or in the small buffer, for both of which
the bytes are known, unless the fusion was torn), `Shown`, `Calls` (what each
call in progress still has to do), `Delivered`, and the properties of returned
calls. There is one lemma per action; `MovedHolds` and `AppendedHolds` are about
the two copies that fuse chunks. For the refinement, `Begins`, `Continues` and
`Answers` sort the actions by what they do to the abstract call: begin it, go on
with it unseen, or answer it.

### ItemWalkProofs

`TypeCorrect` and `CopiesExactly`, for heads of any 64 bit value and every bound on
the input and its nesting. `CopyIsExact` says that what was written is the
beginning of what was consumed, and that nothing is lost but a break whose output
failed, or what a failing read of a string had taken. It is inductive with the
types: both sequences grow together until a failure ends the walk.

`EndsExactly`, `SkipsExactly` (`EndsAtItemEnd`) and `RefusesRightly`
(`RefusesOnlyMalformed`): for every set of heads and inputs of any length and
nesting, a walk that succeeds has consumed exactly one item as the recursive
reference defines it, and a `skip_item` that refuses its input has read what no
continuation completes. `DecidesByPrefix` is the stronger statement behind them:
what a walk has decided holds of every continuation of the units it has read.
`EndsExactly` and `DecidesByPrefix` are about walks that are `Whole`, in which
`copy_item_to` has torn no head because an amount wrapped; of a walk that is not
they are false (section 4). A `skip_item` always is (`SkipsExactly`).

The reference is a function defined by recursion, and that such a function exists
has to be proved. The module `Recursion` does so once: `LeastNumber` comes from the library's
theorem that a well-founded relation has minimal elements, `NumberInduction` and
`MeasureInduction` from it, and `MeasureRecursion` says that a body which looks at
smaller arguments only has a solution. The facts about elements are sets and the
body is a function, since the provers cannot instantiate a theorem about
operators. `EndsDefined` applies it to the reference, with what is left of the
input, then the kind of goal, as the measure; from there on the reference is used by its
equation only.

The inductive invariant is `EndInv`. The stack of the code is read as a chain: each
open item has an expectation for what is still to come of it, and the chain
closes these from the top of the stack to its bottom. `EndInv` says that for every
continuation of what was consumed, the chain at the present position leads to
where the item ends by the reference, as long as the walk is `Whole`. Pushing an item (`ChainPush`), completing
one (`ChainPop`) and failing (`ChainFailure`) each preserve that, and with an
empty stack the chain is the present position itself. There is one lemma per
action. TLC checked the invariant over extensions of the input before it was
proved.

### LayoutCodecProofs

`TypeCorrect`, `MembersComeFromEntries`, `RequiredAreFound` and
`VersionsAreGuarded`, for every set of descriptors and inputs, any number of
properties and any width of a bucket. The invariant adds to the type `Position`
(where the reader is in each phase, and what the checks it has passed have
established) and `Contents`: each member holds the value of the last entry read
with its id, and a bit of `found` is only set for a property that had an entry.
`RequiredDecoded` then follows in two ways: by the mask if there are optional
properties (the arithmetic of buckets and bits is injective), and by counting
for a descriptor without, where as many different entries as properties leave
none out. That the entries are different is what `RequiredDecoded` presupposes,
and `layout_codec_duplicate` shows why.

### StateStoreProofs

`TypeCorrect`, `StatesHaveOneOwner`, `PointersStayValid`, `LinksAreCanonical` and
`StoresAreBindings` (the refinement), for any number of keys, objects, values and
open scopes. The invariant joins those of the run with `ScopesOK` (what
the open scopes found) and `CallOK`: while an `emplace` is in progress its key is
still missing from the store, and there is memory or a state without an owner in
the table exactly when `pc` says so. Without it the insertion could replace a
pointer and lose a state.

### CodecProofs

`SizesExact`, `RoomIsEnough`, `LegacyBufferAtomic` and `OutputFaithful` (`SizeExact`,
`RoomSuffices`, `LegacyAtomic`, `WrittenFaithful`): for every set of values of any
type and nesting, streams and buffers of every size, every page size and sessions
of any length. The assumptions are those of the modules: values nest, a page is a
power of two (up to 4096 bytes), a discarding stream has room for a head.

The argument goes up in five steps.

1. *Heads.* `LastSetBitBy4` and its kin evaluate the bit scan by intervals;
   `BytePower` gives the width of an argument and `HeadLength` says that
   `HeadBytes`, `EncodedSize` and `EncodedSizeBranching` agree at every value.
   `WordBegins`: the word stored on the fast path begins with the head. Two
   results about parsing rest on the same lemmas. `ParsersAgree`: of any nine
   bytes, the path that loads a word and shifts it and the path that loads the
   argument alone find the same value. `HeadsReadBack`: both give back the type,
   the length and the value that were written, whatever follows the head.
2. *Values.* `EmitDefined` and `SizeOfDefined`: the two recursive functions have
   a solution along `Nesting` (from `MeasureRecursion`). `SizeOfIsLength`, by
   induction along it: `size_of` is the number of bytes of the calls that
   `encode` makes.
3. *One call on a stream.* `Holds(o, q)` says that a stream has taken the bytes
   `q`. `PerformOutcome` sums up what any call on any of the four kinds may do: it
   adds its bytes and succeeds, or adds a part of them and fails for one of the
   reasons that this kind of stream has; it never leaves the window. The growing
   stream needs `BufferSuffices` (rounding up to whole pages leaves the room that
   was asked for), the bulk write of a discarding one an argument about its window.
4. *A sequence of calls.* `PerformAllOutcome` composes these along the calls, and
   `EncodeToOutcome` adds opening and syncing the stream.
5. *A session.* The inductive invariant is `IInv`: the stream is well formed
   (`IsStream`), every entry of the log has an outcome that its value and the room
   before it allow, and `Kept`, the stream holds what the successful calls of the
   log have sent and at most a part of a last one that failed. `SessionInvariant`
   is `Spec => []IInv`; the four properties follow from it.

The proof corrected `WrittenFaithful`, whose case for a discarding stream said that
`total_written()` is the number of bytes sent by the calls that succeeded: after a
failure it also counts the part of the last value that was written before.

### DecodingProofs

`GivesBack` (`RoundTrip`), `LengthsBacked` (`Backed`), `LegacyInputMoves`
(`LegacyInputAtomic`), `NothingStays` (`NothingStale`), `FailuresContained`
(`FailureContained`) and `SessionTypes` (`TypeOK`): for every set of values and types of any nesting, foreign
input of any bytes and length, windows that split it anywhere, destinations that
hold anything, and sessions of any length. The assumptions are those of the
modules: types nest (`LevelAssumption`), destinations are closed under what is
decoded into them (`DestinationAssumption`), and memory nobody has written
holds bytes (`SessionAssumption`).

The argument goes up in eight steps.

1. *Inputs* (the lemmas about calls and heads are at the end of `CodecProofs`).
   `Onward(src, p)` says that `p` is the input `src` read as far or farther: the same
   bytes and buffer, a window within them, and `asked` as it was or below the number
   of bytes. One lemma per call of the stream (`RequireInput`,
   `BulkRead`, `DiscardBuffered`) and per parser says that each outcome is onward,
   which errors it may have, and, if it succeeded, that it took the head or the
   string and what it made of it.
2. *Loops.* The loops over chunks, elements and rounds of indefinite length are
   functions; `Iteration` (in `Recursion`) gives each a solution, and induction over the
   rounds that what holds of a round holds of the loop. `asked` stays below the
   number of bytes because `MissingData` is checked before memory is asked for
   and a head has been taken before that; this is why the bound is strict.
3. *Types.* `Decode` is a recursive function on destinations. It has a solution
   along `Level` (`MeasureRecursion`), and `DecodeTakes` is proved by induction along it:
   whatever the bytes are, each outcome is onward, has one of the listed errors,
   and has taken a byte at least if it is a success.
4. *A session.* `DInv` joins `IInv` of `CodecProofs` with `InputRight`: before `Open`
   there is no input; after it the input is within its bytes, is one of `Inputs`
   once it is opened, a legacy buffer begins where the last success ended, and an
   entry of `got` has one of the listed errors. `SessionStays` is `Spec => []DInv`.
5. *The round trip of a value.* `Ahead(src, c)` says that the bytes `c` come next,
   `Reads(src, n, v, r)` that the outcome `r` is the value `v` with `n` bytes taken, or
   a failure of the supplier or the memory. `HeadRead` (from `HeadsReadBack` of
   `CodecProofs`) gives it for heads, one lemma per scalar and string for those. A
   container's encoding is its opening, the encodings of its parts end to end
   (`Comes`), and a break; `Filled(d, x, k)` is the destination after `k` items, and
   `ItemsRead` and `IndefiniteRead` carry it through the loops: no part begins with
   the byte of a break, no key comes twice, and an array or tuple keeps the members
   that have not been reached. `DecodeGivesBack` is the induction along `Level`.
6. *The round trip of a session.* `RInv` joins `DInv` with `Following`: what was
   opened begins with what was sent, which is the codes of the successful calls end to
   end (`SentInParts`), and as long as every `decode()` has succeeded the input is
   where the codes of the values given back end. It is this position that
   `RoundTrip`, which only speaks of what came back, does not say and needs.
7. *Destinations that are used again.* `Recurs(S, U)` says that each success among
   the results `S` is, with its value and its input, one of the results `U`. One
   lemma per scalar and string says it of the results for two destinations. A
   container that clears its destination first does the same for both, failures
   included (`ClearedSame`). In an array or tuple the two destinations only agree on
   the members that have been reached (`Agreeing`), and an element is decoded into
   a member with an old value: `Mirrors` carries the agreement through the loops
   (`ItemsMirrored`, `IndefiniteMirrored`), and once the last member has been reached the
   values are equal. Of a `fixed_u8string` the strings shown are (`Resembles`), and
   `FixedTextKeeps` says that each code unit behind the string is the old one.
   `DecodeRecurs` is the induction along `Level`, and `NothingStays` puts opening and
   syncing the input around it.
8. *What a failure leaves.* `Leaves(t, v, r)` is `LeftBehind` for one result. No head,
   scalar or string reports a duplicate key (`Unkeyed`), so that a set or map whose
   parts are flat reports only its own, and empties itself when it does (`Empties`);
   where a part is a container, the duplicate may be the part's, and what came
   before it stays: this is why `LeftBehind` asks for `FlatParts`. `DecodeLeaves` says
   it of every type, and `FInv` (`DInv` and `FailureContained`) is inductive.

### Only model-checked

Liveness under fairness (`EveryCallReturns`, `WalkEnds`, and `RoundTrip` of
`LayoutCodec`), which the prover does not do, and `ExactlyOneItem`: it compares with
a reference that `MCCodec` states as a recursive operator (the end of an item in
a sequence of bytes), which the provers cannot reason about.

## 6. What is not modelled

- Streams: `sync_input` of the chunked stream (none of the repository overrides
  it) and indefinite input sizes; suppliers that hand out more than the stream's
  size (`chunked_input_stream.hpp:85`), since the contract of
  `acquire_next_chunk_impl` does not say what they may do; copying and moving
  streams, which is plain member-wise code; legacy buffers beyond the range of
  `int`; `memory_allocation` (`memory_buffer.hpp:193`), which nothing in the
  library holds.
- Item walk: what the rest of a head parses as when `copy_item_to` has copied a part
  of it (`copy_item.cpp:106`); anything may follow. `copy_item_to` is not
  composed with the chunked streams: in `ItemWalk` an output grants what it
  likes, so that its refusal of a whole string (`copy_item.cpp:50`) is one of the
  outcomes, but not tied to the size of a small buffer.
- Codecs: `std::length_error`; multi-maps; containers of fixed strings; error codes (`system_error2`);
  failures of path conversions other than for want of memory, and that of
  `size_of` of a path; object and tuple members with other than opaque values
  (`LayoutCodec` works on tokens, `Codecs` on bytes).
- State stores: moving the stores, and the move assignment of
  `unique_erased_state_ptr`, which nothing uses.
- The perfect hash: evaluated by the compiler, used by no decoder at this commit,
  and its multiplications modulo 2^64 are beyond TLC's integers.
- Compile-time plumbing, error texts, test generators and build files: no
  behaviour at run time.

## 7. What could be done next

1. `copy_item_to` over `ChunkedInput` and `ChunkedOutput`, to say which items can
   be copied through which small buffers.
2. The object codecs over `Codecs` instead of tokens, so that a nested object is
   encoded into and decoded from the memory streams.
3. `ExactlyOneItem` as a theorem: `WellFormedItem` has the reference as a function
   already, over units; one over bytes would have to be related to it by
   `HeadsReadBack`.
