---------------------------- MODULE ChunkedInput ----------------------------
(***************************************************************************)
(* input_buffer together with legacy::chunked_input_stream_base, the       *)
(* stream whose input arrives in chunks of memory supplied by a derived    *)
(* class.  A caller that needs more contiguous bytes than the current      *)
(* chunk has left gets them in a small internal buffer, where the end of   *)
(* one chunk is fused with the start of the next.                          *)
(*                                                                         *)
(* A byte is represented by its position in the stream.  The chunks, in    *)
(* the order in which they are acquired, are consecutive intervals of      *)
(* positions, so a chunk's memory needs no variable of its own.  The loops *)
(* and the recursion through require_input are one step per iteration.     *)
(***************************************************************************)
EXTENDS Integers, Sequences

CONSTANTS
  MinBuffer,    \* minimum_input_buffer_size (40 in the code)
  Word,         \* 2^64, the modulus of the unsigned mInputSize
  StreamSize,   \* bytes in the stream
  SupplySize,   \* bytes in all chunks the derived class has
  ChunkSizes,   \* sizes acquire_next_chunk_impl() may hand out
  Requests,     \* arguments of require_input()
  Discards,     \* arguments of discard_input()
  Reads,        \* arguments of bulk_read()
  RetryTorn,    \* does the caller go on after fusing two chunks has failed?
  DiscardPast   \* does it discard more than the buffer holds while the buffer
                \*   is not empty, or while the small buffer is in use?

(* small_buffer_size                                                       *)
SmallSize == 2 * (MinBuffer - 1)

ASSUME InputAssumption ==
  /\ MinBuffer \in Nat /\ MinBuffer >= 2
  /\ StreamSize \in Nat /\ SupplySize \in Nat /\ StreamSize <= SupplySize
  /\ Word \in Nat /\ SupplySize < Word
  /\ ChunkSizes \subseteq Nat \ {0}
  /\ Requests \subseteq Nat /\ Discards \subseteq Nat /\ Reads \subseteq Nat
  /\ RetryTorn \in BOOLEAN /\ DiscardPast \in BOOLEAN

VARIABLES
  area,       \* what data() points into: a chunk, the small buffer, nothing
  at,         \* data(), as a position in the stream or in the small buffer
  size,       \* size() of the input_buffer
  inputSize,  \* mInputSize
  first,      \* mReadArea: where its memory begins,
  from, to,   \*   and the interval of positions that remains
  start,      \* mBufferStart
  small,      \* mSmallBuffer
  supplied,   \* bytes in the chunks handed out so far
  pos,        \* ghost: bytes consumed by the caller
  origin,     \* ghost: pos when the last call was made
  dest,       \* the bytes the last bulk_read() has delivered
  pc,         \* where the call in progress is
  op, asked,  \* the last call and its argument
  left,       \* what a discard_input() or bulk_read() still has to consume
  rx,         \* how the last call returned
  torn        \* ghost: the supplier has failed while two chunks were fused

window == <<area, at, size>>
chunk  == <<first, from, to, supplied>>
call   == <<pc, op, asked, left, rx, origin>>
vars   == <<window, inputSize, chunk, start, small, pos, dest, call, torn>>

Lesser(a, b) == IF a < b THEN a ELSE b

(* std::memcpy of n bytes: src[s ..] over dst[d ..]                        *)
Copied(dst, d, src, s, n) ==
  [i \in DOMAIN dst |-> IF i \in d .. d + n - 1 THEN src[i - d + s] ELSE dst[i]]

(* The memory of the chunks                                                *)
Stream == [p \in 0 .. SupplySize - 1 |-> p]

(* The byte at data() + i                                                  *)
View(i) == IF area = "small" THEN small[at + i] ELSE at + i

Init ==
  /\ \E n \in {0} \union {Lesser(s, StreamSize) : s \in ChunkSizes} :
       first = 0 /\ from = 0 /\ to = n /\ size = n /\ supplied = n
  /\ area = "chunk" /\ at = 0
  /\ inputSize = StreamSize
  /\ start = -1
  /\ small = [i \in 0 .. SmallSize - 1 |-> 0]
  /\ pos = 0 /\ origin = 0 /\ dest = <<>>
  /\ pc = "idle" /\ op = "none" /\ asked = 0 /\ left = 0 /\ rx = "ok"
  /\ torn = FALSE

-----------------------------------------------------------------------------
(* Building blocks                                                         *)

Return(r) == pc' = "idle" /\ rx' = r

Goto(p) == pc' = p /\ UNCHANGED rx

(* acquire_next_chunk_impl() of the derived class: any of the sizes, the   *)
(* last chunk is what it has left.  It may fail at any time, and it fails  *)
(* once it has nothing left, as the implementation in the tests does.      *)
Offered == {Lesser(s, SupplySize - supplied) : s \in ChunkSizes} \ {0}

(* The chunk without what exceeds input_size()                             *)
Trimmed(s) == Lesser(s, inputSize)

(* acquire_next_chunk() followed by a move_consumer(k) of the new mReadArea*)
Acquire(s, k) ==
  /\ first' = supplied
  /\ from' = supplied + k
  /\ to' = supplied + Trimmed(s)
  /\ supplied' = supplied + s

(* acquire_next_chunk() fails and the call returns its error.              *)
SupplierFails == Return("supplier") /\ UNCHANGED <<chunk, torn>>

(* The same while bytes of the previous chunk are in the small buffer:     *)
(* mReadArea is still (or again) all of the chunk these bytes come from.   *)
FusingFails(begin) ==
  /\ Return("supplier")
  /\ from' = begin
  /\ torn' = TRUE
  /\ UNCHANGED <<first, to, supplied>>

(* The caller may make a call.                                             *)
Ready == pc = "idle" /\ (torn => RetryTorn)

(* reset(mReadArea.remaining_begin(), mReadArea.remaining_size(), ...)     *)
ShowReadArea == area' = "chunk" /\ at' = from' /\ size' = to' - from'

ShowNothing == area' = "none" /\ at' = 0 /\ size' = 0

(* require_input() once more, after the window has changed                 *)
RequireAgain ==
  IF asked > inputSize THEN Return("end_of_stream")
  ELSE IF size' < asked THEN Goto("require") ELSE Return("ok")

(* Mutant of Appendable: the small buffer's capacity is not respected.     *)
AppendableAll(readArea, used) == readArea

(* append_current_to_small_buffer(): how much of mReadArea fits            *)
Appendable(readArea, used) == Lesser(readArea, SmallSize - used)

(* data() is a pointer into the small buffer; retire_small_buffer and      *)
(* do_require_input advance mReadArea by what was consumed from it.        *)
SwitchToReadArea ==
  /\ from' = from + at - start
  /\ start' = -1
  /\ UNCHANGED <<first, to, supplied>>

(* Mutant of ReadAreaBegin: saved bytes are taken to be consumed.          *)
ReadAreaBeginAlways == IF start < 0 THEN to - size ELSE from + (at - start)

(* current_read_area(): the part of the current chunk which the caller has *)
(* not consumed yet.                                                       *)
ReadAreaBegin ==
  IF start < 0 THEN to - size
  ELSE IF at > start THEN from + (at - start) ELSE from

-----------------------------------------------------------------------------
(* require_input() and do_require_input()                                  *)

RequireInput(n) ==
  /\ Ready
  /\ op' = "require" /\ asked' = n /\ origin' = pos /\ dest' = <<>>
  /\ CASE n > inputSize -> Return("end_of_stream")
       [] n <= inputSize /\ size < n -> Goto("require")
       [] OTHER -> Return("ok")
  /\ UNCHANGED <<window, inputSize, chunk, start, small, pos, left, torn>>

(* The chunk has been consumed: go on in the next one.                     *)
RequireAtSplit ==
  /\ pc = "require" /\ start < 0 /\ size = 0
  /\ \/ SupplierFails /\ UNCHANGED window
     \/ \E s \in Offered :
          Acquire(s, 0) /\ ShowReadArea /\ RequireAgain /\ UNCHANGED torn
  /\ UNCHANGED <<inputSize, start, small, pos, origin, dest, op, asked, left>>

TooBigForSmallBuffer ==
  /\ asked > SmallSize
  /\ Return("buffer_size_exceeded")
  /\ UNCHANGED <<window, chunk, start, small, torn>>

(* Mutant of RequireFuse: one more chunk is taken to be enough.            *)
RequireFuseOnce ==
  /\ pc = "require" /\ start < 0 /\ size > 0
  /\ \/ TooBigForSmallBuffer
     \/ /\ asked <= SmallSize
        /\ start' = size
        /\ area' = "small" /\ at' = 0
        /\ \/ /\ FusingFails(from)
              /\ small' = Copied(small, 0, Stream, at, size)
              /\ UNCHANGED size
           \/ \E s \in Offered :
                LET n == Appendable(Trimmed(s), size) IN
                /\ Acquire(s, 0)
                /\ small' = Copied(Copied(small, 0, Stream, at, size),
                                   size, Stream, supplied, n)
                /\ size' = size + n
                /\ Return("ok")
                /\ UNCHANGED torn
  /\ UNCHANGED <<inputSize, pos, origin, dest, op, asked, left>>

(* The chunk has bytes left, but too few: save them to the small buffer    *)
(* and append what fits of the next chunk.  mReadArea keeps all its bytes: *)
(* mBufferStart says where they start in the small buffer.                 *)
RequireFuse ==
  /\ pc = "require" /\ start < 0 /\ size > 0
  /\ \/ TooBigForSmallBuffer
     \/ /\ asked <= SmallSize
        /\ start' = size
        /\ area' = "small" /\ at' = 0
        /\ \/ /\ FusingFails(from)
              /\ small' = Copied(small, 0, Stream, at, size)
              /\ UNCHANGED size
           \/ \E s \in Offered :
                LET n == Appendable(Trimmed(s), size) IN
                /\ Acquire(s, 0)
                /\ small' = Copied(Copied(small, 0, Stream, at, size),
                                   size, Stream, supplied, n)
                /\ size' = size + n
                /\ RequireAgain
                /\ UNCHANGED torn
  /\ UNCHANGED <<inputSize, pos, origin, dest, op, asked, left>>

(* Mutant of RequireSwitchBack: mBufferStart is not reset.                 *)
RequireSwitchBackStuck ==
  /\ pc = "require" /\ start >= 0 /\ at >= start
  /\ UNCHANGED <<window, chunk, start, inputSize, small, pos, origin, dest, op,
                 asked, left, torn>>
  /\ RequireAgain

(* The bytes saved from the previous chunk have been consumed: switch back *)
(* from the small buffer to mReadArea.                                     *)
RequireSwitchBack ==
  /\ pc = "require" /\ start >= 0 /\ at >= start
  /\ SwitchToReadArea
  /\ ShowReadArea
  /\ RequireAgain
  /\ UNCHANGED <<inputSize, small, pos, origin, dest, op, asked, left, torn>>

(* The small buffer after its saved bytes have been moved to its front and *)
(* what fits of mReadArea has been appended again                          *)
RefilledSize ==
  (start - at) + Appendable(to - from, start - at)

Refilled ==
  Copied(Copied(small, 0, small, at, start - at),
         start - at, Stream, from, RefilledSize - (start - at))

(* Mutant of RequireRefill: the saved bytes are not moved to the front.    *)
RequireRefillInPlace ==
  /\ pc = "require" /\ start >= 0 /\ at < start
  /\ asked <= SmallSize
  /\ small' = Copied(small, start - at, Stream, from, RefilledSize - (start - at))
  /\ area' = "small" /\ at' = 0 /\ size' = RefilledSize
  /\ start' = start - at
  /\ RequireAgain
  /\ UNCHANGED <<chunk, torn>>
  /\ UNCHANGED <<inputSize, pos, origin, dest, op, asked, left>>

(* Saved bytes remain: move them to the front and append mReadArea; when   *)
(* this is still too little all of mReadArea has been copied, so the next  *)
(* chunk replaces it.  mReadArea.reset() makes its whole memory remain.    *)
RequireRefill ==
  /\ pc = "require" /\ start >= 0 /\ at < start
  /\ \/ TooBigForSmallBuffer
     \/ /\ asked <= SmallSize
        /\ small' = Refilled
        /\ area' = "small" /\ at' = 0 /\ size' = RefilledSize
        /\ IF asked <= RefilledSize
           THEN /\ start' = start - at
                /\ Return("ok")
                /\ UNCHANGED <<chunk, torn>>
           ELSE /\ start' = RefilledSize
                /\ \/ FusingFails(first)
                   \/ \E s \in Offered :
                        Acquire(s, 0) /\ RequireAgain /\ UNCHANGED torn
  /\ UNCHANGED <<inputSize, pos, origin, dest, op, asked, left>>

-----------------------------------------------------------------------------
(* discard_input() and do_discard_input()                                  *)

(* Not beyond the buffered bytes: discard_buffered().  Otherwise the       *)
(* buffered bytes are subtracted from mInputSize here and once more in     *)
(* reset(), so the size is right only if there are none.  With the small   *)
(* buffer in use, however few of its bytes are left, retire_small_buffer   *)
(* then subtracts a pointer into it from the null pointer which reset()    *)
(* has stored.                                                             *)
DiscardInput(n) ==
  /\ Ready
  /\ op' = "discard" /\ asked' = n /\ origin' = pos /\ dest' = <<>>
  /\ \/ /\ n <= size
        /\ at' = at + n /\ size' = size - n
        /\ inputSize' = (inputSize - n) % Word
        /\ pos' = pos + n
        /\ Return("ok")
        /\ UNCHANGED <<area, left>>
     \/ /\ n > size /\ n > inputSize
        /\ Return("end_of_stream")
        /\ UNCHANGED <<window, inputSize, pos, left>>
     \/ /\ n > size /\ n <= inputSize
        /\ (size = 0 /\ start < 0) \/ DiscardPast
        /\ ShowNothing
        /\ inputSize' = (inputSize - 2 * size) % Word
        /\ pos' = pos + size
        /\ left' = n - size
        /\ Goto(IF start >= 0 THEN "undefined" ELSE "discard")
  /\ UNCHANGED <<chunk, start, small, torn>>

(* Mutant of DiscardChunk: the loop ends after one chunk.                  *)
DiscardChunkOnce ==
  /\ pc = "discard"
  /\ \/ SupplierFails /\ UNCHANGED <<inputSize, pos, left>>
     \/ \E s \in Offered :
          LET k == Lesser(left, Trimmed(s)) IN
          /\ Acquire(s, k)
          /\ inputSize' = (inputSize - k) % Word
          /\ pos' = pos + k
          /\ left' = left - k
          /\ Goto("reset")
          /\ UNCHANGED torn
  /\ UNCHANGED <<window, start, small, origin, dest, op, asked>>

(* One iteration of the loop: discard from the next chunk.                 *)
DiscardChunk ==
  /\ pc = "discard"
  /\ \/ SupplierFails /\ UNCHANGED <<inputSize, pos, left>>
     \/ \E s \in Offered :
          LET k == Lesser(left, Trimmed(s)) IN
          /\ Acquire(s, k)
          /\ inputSize' = (inputSize - k) % Word
          /\ pos' = pos + k
          /\ left' = left - k
          /\ Goto(IF left' # 0 THEN "discard" ELSE "reset")
          /\ UNCHANGED torn
  /\ UNCHANGED <<window, start, small, origin, dest, op, asked>>

(* The end of do_discard_input and do_bulk_read: show what remains of the  *)
(* chunk, or the next chunk if nothing does.                               *)
FinishInChunk ==
  /\ pc = "reset"
  /\ \/ /\ from < to
        /\ UNCHANGED <<chunk, torn>>
        /\ ShowReadArea
        /\ Return("ok")
     \/ /\ from = to
        /\ \/ SupplierFails /\ UNCHANGED window
           \/ \E s \in Offered :
                Acquire(s, 0) /\ ShowReadArea /\ Return("ok") /\ UNCHANGED torn
  /\ UNCHANGED <<inputSize, start, small, pos, origin, dest, op, asked, left>>

-----------------------------------------------------------------------------
(* bulk_read() and do_bulk_read()                                          *)

(* k bytes are copied to the caller's memory.                              *)
Deliver(bytes, k) == dest' = dest \o [i \in 1 .. k |-> bytes[i - 1]]

BulkRead(n) ==
  LET k == Lesser(size, n) IN
  /\ Ready
  /\ op' = "bulk" /\ asked' = n /\ origin' = pos
  /\ \/ /\ n > inputSize /\ n > 0
        /\ Return("end_of_stream")
        /\ dest' = <<>>
        /\ UNCHANGED <<at, size, inputSize, pos, left>>
     \/ /\ n <= inputSize \/ n = 0
        /\ dest' = [i \in 1 .. k |-> View(i - 1)]
        /\ at' = at + k /\ size' = size - k
        /\ inputSize' = (inputSize - k) % Word
        /\ pos' = pos + k
        /\ left' = n - k
        /\ IF n = k THEN Return("ok") ELSE Goto("bulk")
  /\ UNCHANGED <<area, chunk, start, small, torn>>

(* The small buffer is in use and has been consumed: retire it ...         *)
BulkRetire ==
  /\ pc = "bulk" /\ start >= 0
  /\ SwitchToReadArea
  /\ ShowReadArea
  /\ Goto("again")
  /\ UNCHANGED <<inputSize, small, pos, origin, dest, op, asked, left, torn>>

(* ... and bulk_read() the rest.                                           *)
BulkAgain ==
  LET k == Lesser(size, left) IN
  /\ pc = "again"
  /\ IF left > inputSize
     THEN /\ Return("end_of_stream")
          /\ UNCHANGED <<at, size, inputSize, pos, left, dest>>
     ELSE /\ Deliver([i \in 0 .. k - 1 |-> View(i)], k)
          /\ at' = at + k /\ size' = size - k
          /\ inputSize' = (inputSize - k) % Word
          /\ pos' = pos + k
          /\ left' = left - k
          /\ IF left = k THEN Return("ok") ELSE Goto("bulk")
  /\ UNCHANGED <<area, chunk, start, small, origin, op, asked, torn>>

(* Mutant of BulkChunk: the whole chunk is taken off mInputSize.           *)
BulkChunkWhole ==
  /\ pc = "bulk" /\ start < 0
  /\ \/ SupplierFails /\ UNCHANGED <<window, inputSize, pos, left, dest>>
     \/ \E s \in Offered :
          LET k == Lesser(left, Trimmed(s)) IN
          /\ Acquire(s, k)
          /\ Deliver([i \in 0 .. k - 1 |-> supplied + i], k)
          /\ ShowNothing
          /\ inputSize' = (inputSize - Trimmed(s)) % Word
          /\ pos' = pos + k
          /\ left' = left - k
          /\ Goto(IF left' # 0 THEN "bulk" ELSE "reset")
          /\ UNCHANGED torn
  /\ UNCHANGED <<start, small, origin, op, asked>>

(* One iteration of the loop: read from the next chunk.                    *)
BulkChunk ==
  /\ pc = "bulk" /\ start < 0
  /\ \/ SupplierFails /\ UNCHANGED <<window, inputSize, pos, left, dest>>
     \/ \E s \in Offered :
          LET k == Lesser(left, Trimmed(s)) IN
          /\ Acquire(s, k)
          /\ Deliver([i \in 0 .. k - 1 |-> supplied + i], k)
          /\ ShowNothing
          /\ inputSize' = (inputSize - k) % Word
          /\ pos' = pos + k
          /\ left' = left - k
          /\ Goto(IF left' # 0 THEN "bulk" ELSE "reset")
          /\ UNCHANGED torn
  /\ UNCHANGED <<start, small, origin, op, asked>>

-----------------------------------------------------------------------------
Require == RequireAtSplit \/ RequireFuse \/ RequireSwitchBack \/ RequireRefill
Bulk == BulkRetire \/ BulkAgain \/ BulkChunk

Next ==
  \/ \E n \in Requests : RequireInput(n)
  \/ \E n \in Discards : DiscardInput(n)
  \/ \E n \in Reads : BulkRead(n)
  \/ Require
  \/ DiscardChunk
  \/ Bulk
  \/ FinishInChunk

(* A call in progress runs on; no caller has to make another one.          *)
Fairness == WF_vars(Require \/ DiscardChunk \/ Bulk \/ FinishInChunk)

Spec == Init /\ [][Next]_vars /\ Fairness

-----------------------------------------------------------------------------
(* Properties                                                              *)

TypeOK ==
  /\ area \in {"chunk", "small", "none"}
  /\ at \in Nat /\ size \in Nat
  /\ inputSize \in 0 .. Word - 1
  /\ first \in Nat /\ from \in Nat /\ to \in Nat /\ supplied \in Nat
  /\ first <= from /\ from <= to /\ to <= supplied /\ supplied <= SupplySize
  /\ start \in -1 .. SmallSize
  /\ small \in [0 .. SmallSize - 1 -> Nat]
  /\ area = "small" => at + size <= SmallSize
  /\ pos \in Nat /\ origin \in Nat /\ dest \in Seq(Nat)
  /\ pc \in {"idle", "require", "discard", "bulk", "again", "reset", "undefined"}
  /\ op \in {"none", "require", "discard", "bulk"}
  /\ asked \in Nat /\ left \in Nat
  /\ rx \in {"ok", "supplier", "end_of_stream", "buffer_size_exceeded"}
  /\ torn \in BOOLEAN

(* The caller sees the stream: the bytes in the buffer are those that      *)
(* follow the consumed ones, wherever they are kept, however they were     *)
(* fused and whichever calls failed in between, and bulk_read delivers the *)
(* bytes in order (do_require_input, do_bulk_read, do_discard_input); no   *)
(* call does pointer arithmetic on a buffer that was reset.                *)
InOrder ==
  /\ pc # "undefined"
  /\ \A i \in 0 .. size - 1 : View(i) = pos + i
  /\ \A i \in DOMAIN dest : dest[i] = origin + i - 1

(* end_of_stream is reported only if the stream has fewer bytes left than  *)
(* were asked for (require_input, discard_input, bulk_read): mInputSize    *)
(* stays right across all the resets of the buffer.                        *)
EosHonest ==
  (pc = "idle" /\ rx = "end_of_stream") => asked > StreamSize - pos

(* A successful require_input makes the bytes available, through any       *)
(* number of tiny chunks.                                                  *)
RequireDelivers ==
  (op = "require" /\ pc = "idle" /\ rx = "ok") => size >= asked

(* current_read_area() begins with the first byte the caller has not       *)
(* consumed, or with the chunk if bytes of earlier chunks wait in the      *)
(* small buffer.                                                           *)
ReadAreaUnread ==
  (~torn /\ pc = "idle") =>
    ReadAreaBegin = IF pos < first THEN first ELSE pos

(* Calls consume what they say (ByteSource), across chunks and failures.   *)
Source == INSTANCE ByteSource WITH
  Size <- StreamSize,
  Amounts <- Requests \union Discards \union Reads,
  position <- IF pc = "idle" THEN pos ELSE origin,
  call <- [op |-> op, asked |-> asked,
           rx |-> IF pc = "idle" THEN rx ELSE "running"]

ImplementsByteSource == Source!Spec

(* Neither the recursion of do_require_input through require_input nor the *)
(* loops of do_discard_input and do_bulk_read go on for ever, and no call  *)
(* stops in undefined behaviour.                                           *)
EveryCallReturns == pc # "idle" ~> pc = "idle"
=============================================================================
