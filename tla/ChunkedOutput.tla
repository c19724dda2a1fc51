---------------------------- MODULE ChunkedOutput ---------------------------
(***************************************************************************)
(* output_buffer together with legacy::chunked_output_stream_base, the     *)
(* stream that spreads its output over chunks of memory supplied by a      *)
(* derived class.  When the caller asks for more contiguous space than the *)
(* current chunk has left, the stream lends it a small internal buffer and *)
(* later copies the bytes to the end of the chunk and the start of the     *)
(* next one.                                                               *)
(*                                                                         *)
(* A byte is represented by its position in the stream: the k-th byte the  *)
(* caller commits is the number k.  The memory of all chunks, in the order *)
(* in which they were acquired, is one function `sink` on stream offsets,  *)
(* so that mCurrentChunk is an interval of offsets.  The loops and the     *)
(* recursion of do_grow and do_bulk_write are one step per iteration.      *)
(***************************************************************************)
EXTENDS Integers

CONSTANTS
  MinBuffer,       \* minimum_output_buffer_size (40 in the code)
  ThresholdBound,  \* a std::int8_t is less than this (128 in the code)
  StreamSize,      \* bytes the stream may hold: first chunk + mRemaining
  InitialSizes,    \* possible sizes of the first chunk
  ChunkSizes,      \* sizes acquire_next_chunk_impl() may hand out
  Requests,        \* arguments of ensure_size()
  WriteSizes       \* sizes of a commit_written() and of a bulk_write()

(* small_buffer_size                                                       *)
SmallSize == 2 * (MinBuffer - 1)

ASSUME SizesAssumption ==
  /\ MinBuffer \in Nat /\ MinBuffer >= 2
  /\ ThresholdBound \in Nat /\ SmallSize < ThresholdBound
  /\ StreamSize \in Nat
  /\ InitialSizes \subseteq 0 .. StreamSize
  /\ ChunkSizes \subseteq Nat \ {0}
  /\ Requests \subseteq Nat
  /\ WriteSizes \subseteq Nat

VARIABLES
  area,       \* what data() points into: a chunk, the small buffer, nothing
  at,         \* data(), as an offset into that area
  size,       \* size() of the output_buffer
  from, to,   \* mCurrentChunk as an interval of stream offsets
  remaining,  \* mRemaining
  threshold,  \* mDecomissionThreshold
  small,      \* mSmallBuffer
  sink,       \* the memory of all chunks
  count,      \* ghost: how many bytes have been taken from the caller
  pc,         \* where the call in progress is
  op,         \* the last call made
  req,        \* requestedSize of the last ensure_size()
  left,       \* writeAmount of the bulk_write() in progress
  rx          \* how the last call returned

base  == <<area, at, size>>
chunk == <<from, to, remaining>>
call  == <<pc, op, req, left, rx>>
vars  == <<base, chunk, threshold, small, sink, count, call>>

Hole == -1   \* memory nobody has written

Lesser(a, b) == IF a < b THEN a ELSE b

(* static_cast<std::int8_t>(n)                                             *)
AsInt8(n) == ((n + ThresholdBound) % (2 * ThresholdBound)) - ThresholdBound

(* std::memcpy of n bytes: src[s ..] over dst[d ..]                        *)
Copied(dst, d, src, s, n) ==
  [i \in DOMAIN dst |-> IF i \in d .. d + n - 1 THEN src[i - d + s] ELSE dst[i]]

(* n bytes the caller supplies, stored at mem[d ..]                        *)
Supplied(mem, d, n) ==
  [i \in DOMAIN mem |-> IF i \in d .. d + n - 1 THEN count + (i - d) ELSE mem[i]]

Init ==
  /\ \E n \in InitialSizes :
       /\ from = 0 /\ to = n /\ size = n
       /\ remaining = StreamSize - n
  /\ area = "chunk" /\ at = 0
  /\ threshold = -1
  /\ small = [i \in 0 .. SmallSize - 1 |-> Hole]
  /\ sink = [p \in 0 .. StreamSize - 1 |-> Hole]
  /\ count = 0
  /\ pc = "idle" /\ op = "none" /\ req = 0 /\ left = 0 /\ rx = "ok"

-----------------------------------------------------------------------------
(* Building blocks                                                         *)

Return(r) == pc' = "idle" /\ rx' = r

UseSmall(n) == area' = "small" /\ at' = n /\ size' = SmallSize - n

(* acquire_next_chunk_impl() of the derived class.  It may fail at any     *)
(* time, and it does fail once the stream has handed out all its space, as *)
(* the implementations in the tests do.                                    *)
Offered == IF remaining > 0 THEN ChunkSizes ELSE {}

(* Mutant of Span: the chunk is not cut.                                   *)
SpanUncut(s) == s

(* acquire_next_chunk(): a chunk is cut to the space the stream has left.  *)
Span(s) == Lesser(s, remaining)

(* Mutant of TakeChunk: the bytes already copied are not skipped.          *)
TakeChunkWhole(s, n) ==
  /\ from' = to
  /\ to' = to + Span(s)
  /\ remaining' = remaining - Span(s)

(* The current chunk becomes the acquired one without its first n bytes.   *)
TakeChunk(s, n) ==
  /\ from' = to + n
  /\ to' = to + Span(s)
  /\ remaining' = remaining - Span(s)

(* Bytes of the small buffer that do not fit in the current chunk.         *)
Overlap == at - threshold

(* The sink after the small buffer's bytes that belong to the current      *)
(* chunk have been copied to its end (chunkPart).                          *)
ChunkPartWritten ==
  Copied(sink, to - threshold, small, 0, Lesser(at, threshold))

(* move_remaining_small_buffer_to_front()                                  *)
MoveToFront(first, n) ==
  /\ small' = Copied(small, 0, small, first, n)
  /\ UseSmall(n)
  /\ threshold' = 0

(* try_move_small_buffer_to_next_chunk() after a chunk of size s has been  *)
(* acquired.  Its memcpy always copies the whole overlap.                  *)
TryMove(s) ==
  LET n == Lesser(Overlap, Span(s)) IN
  /\ TakeChunk(s, n)
  /\ sink' = Copied(ChunkPartWritten, to, small, threshold, n)
  /\ IF n = Overlap
     THEN /\ area' = "chunk" /\ at' = to + n /\ size' = Span(s) - n
          /\ threshold' = -1
          /\ UNCHANGED small
     ELSE MoveToFront(threshold + n, Overlap - n)

MovedAll(s) == Overlap <= Span(s)

(* The memcpy of TryMove leaves the memory the derived class supplied, or  *)
(* do_bulk_write reads more than the small buffer has: from here on the    *)
(* behaviour is undefined, so the model stops.                             *)
Undefined ==
  /\ pc' = "undefined"
  /\ UNCHANGED <<base, chunk, threshold, small, sink, count, op, req, left, rx>>

(* Mutant of KeepOverlap: the chunk's part is not copied before.           *)
KeepOverlapOnly ==
  /\ MoveToFront(threshold, Overlap)
  /\ UNCHANGED <<chunk, sink>>

(* acquire_next_chunk() failed with bytes in the small buffer.             *)
KeepOverlap ==
  /\ sink' = ChunkPartWritten
  /\ MoveToFront(threshold, Overlap)
  /\ UNCHANGED chunk

-----------------------------------------------------------------------------
(* ensure_size() and do_grow()                                             *)

EnsureSize(n) ==
  /\ pc = "idle"
  /\ op' = "ensure" /\ req' = n
  /\ IF size < n THEN pc' = "grow" /\ UNCHANGED rx ELSE Return("ok")
  /\ UNCHANGED <<base, chunk, threshold, small, sink, count, left>>

SmallResult == IF req > SmallSize THEN "buffer_size_exceeded" ELSE "ok"

(* The chunk is used up exactly: go on in the next one.                    *)
GrowAtSplit ==
  /\ pc = "grow" /\ threshold < 0 /\ size = 0
  /\ \/ /\ Return("supplier")
        /\ UNCHANGED <<base, chunk>>
     \/ \E s \in Offered :
          /\ TakeChunk(s, 0)
          /\ area' = "chunk" /\ at' = to /\ size' = Span(s)
          /\ Return("ok")
  /\ UNCHANGED <<threshold, small, sink, count, op, req, left>>

(* The chunk has bytes left, but too few: lend the small buffer.           *)
GrowIntoSmall ==
  /\ pc = "grow" /\ threshold < 0 /\ size > 0
  /\ threshold' = AsInt8(size)
  /\ UseSmall(0)
  /\ Return(SmallResult)
  /\ UNCHANGED <<chunk, small, sink, count, op, req, left>>

(* Mutant of GrowRecycleSmall: the threshold is not lowered.               *)
GrowRecycleSmallInPlace ==
  /\ pc = "grow" /\ threshold >= 0 /\ at < threshold
  /\ sink' = ChunkPartWritten
  /\ UseSmall(0)
  /\ Return(SmallResult)
  /\ UNCHANGED <<chunk, threshold, small, count, op, req, left>>

(* The small buffer's content still fits in the chunk: recycle it.         *)
GrowRecycleSmall ==
  /\ pc = "grow" /\ threshold >= 0 /\ at < threshold
  /\ sink' = ChunkPartWritten
  /\ threshold' = threshold - at
  /\ UseSmall(0)
  /\ Return(SmallResult)
  /\ UNCHANGED <<chunk, small, count, op, req, left>>

(* Mutant of GrowNextChunk: success without a look at the new size.        *)
GrowNextChunkOnce ==
  /\ pc = "grow" /\ threshold >= 0 /\ at >= threshold
  /\ \/ KeepOverlap /\ Return("supplier")
     \/ \E s \in Offered :
          TryMove(s) /\ Return(IF MovedAll(s) THEN "ok" ELSE "end_of_stream")
  /\ UNCHANGED <<count, op, req, left>>

(* The chunk is full: move the rest of the small buffer to the next chunk, *)
(* then start over with ensure_size(requestedSize).                        *)
GrowNextChunk ==
  /\ pc = "grow" /\ threshold >= 0 /\ at >= threshold
  /\ \/ /\ KeepOverlap
        /\ Return("supplier")
        /\ UNCHANGED <<count, op, req, left>>
     \/ \E s \in Offered :
          IF s < Overlap THEN Undefined
          ELSE /\ TryMove(s)
               /\ IF ~MovedAll(s) /\ remaining' = 0
                  THEN Return("end_of_stream")
                  ELSE IF size' < req THEN UNCHANGED <<pc, rx>> ELSE Return("ok")
               /\ UNCHANGED <<count, op, req, left>>

-----------------------------------------------------------------------------
(* commit_written(): the caller has stored n <= size() bytes at data().    *)
Commit(n) ==
  /\ pc = "idle" /\ n <= size
  /\ op' = "commit" /\ Return("ok")
  /\ IF area = "small"
     THEN small' = Supplied(small, at, n) /\ UNCHANGED sink
     ELSE sink' = Supplied(sink, at, n) /\ UNCHANGED small
  /\ at' = at + n /\ size' = size - n
  /\ count' = count + n
  /\ UNCHANGED <<area, chunk, threshold, req, left>>

(* bulk_write(): fill the current buffer, pass the rest to do_bulk_write() *)
BulkWrite(n) ==
  LET k == Lesser(n, size) IN
  /\ pc = "idle"
  /\ op' = "bulk" /\ left' = n - k
  /\ IF n = k THEN Return("ok") ELSE pc' = "bulk" /\ UNCHANGED rx
  /\ IF area = "small"
     THEN small' = Supplied(small, at, k) /\ UNCHANGED sink
     ELSE sink' = Supplied(sink, at, k) /\ UNCHANGED small
  /\ at' = at + k /\ size' = size - k
  /\ count' = count + k
  /\ UNCHANGED <<area, chunk, threshold, req>>

(* do_bulk_write(), small buffer in use: empty it into the chunks.  When   *)
(* the next chunk does not hold the overlap, one more is acquired.         *)
BulkFlushSmall ==
  /\ pc = "bulk" /\ threshold >= 0
  /\ IF threshold > SmallSize THEN Undefined
     ELSE \/ /\ KeepOverlap
             /\ Return("supplier")
             /\ UNCHANGED <<count, op, req, left>>
          \/ \E s \in Offered :
               IF s < Overlap THEN Undefined
               ELSE /\ TakeChunk(s, Lesser(Overlap, Span(s)))
                    /\ sink' = Copied(ChunkPartWritten, to, small, threshold,
                                      Lesser(Overlap, Span(s)))
                    /\ IF MovedAll(s)
                       THEN /\ threshold' = -1
                            /\ area' = "none" /\ at' = 0 /\ size' = 0
                            /\ pc' = "copy"
                            /\ UNCHANGED <<small, rx>>
                       ELSE /\ MoveToFront(threshold + Span(s), Overlap - Span(s))
                            /\ Return("supplier")
                    /\ UNCHANGED <<count, op, req, left>>

(* do_bulk_write(), small buffer not in use: the chunk is full.            *)
BulkAtSplit ==
  /\ pc = "bulk" /\ threshold < 0
  /\ \/ Return("supplier") /\ UNCHANGED chunk
     \/ \E s \in Offered : TakeChunk(s, 0) /\ pc' = "copy" /\ UNCHANGED rx
  /\ UNCHANGED <<base, threshold, small, sink, count, op, req, left>>

(* Mutant of BulkCopy: a full chunk is kept.                               *)
BulkCopyNoRefill ==
  LET n == Lesser(left, to - from) IN
  /\ pc = "copy"
  /\ sink' = Supplied(sink, from, n)
  /\ count' = count + n
  /\ left' = left - n
  /\ from' = from + n
  /\ IF left' = 0
     THEN area' = "chunk" /\ at' = from' /\ size' = to - from' /\ Return("ok")
     ELSE UNCHANGED <<base, pc, rx>>
  /\ UNCHANGED <<to, remaining, threshold, small, op, req>>

(* One iteration of the loop of do_bulk_write(): fill the chunk, acquire   *)
(* the next one as soon as it is full.                                     *)
BulkCopy ==
  LET n == Lesser(left, to - from) IN
  /\ pc = "copy"
  /\ sink' = Supplied(sink, from, n)
  /\ count' = count + n
  /\ left' = left - n
  /\ \/ /\ n = to - from
        /\ Return("supplier")
        /\ UNCHANGED <<base, chunk>>
     \/ /\ \/ n = to - from /\ \E s \in Offered : TakeChunk(s, 0)
           \/ n < to - from /\ from' = from + n /\ UNCHANGED <<to, remaining>>
        /\ IF left' = 0
           THEN area' = "chunk" /\ at' = from' /\ size' = to' - from' /\ Return("ok")
           ELSE UNCHANGED <<base, pc, rx>>
  /\ UNCHANGED <<threshold, small, op, req>>

-----------------------------------------------------------------------------
(* sync_output() and do_sync_output()                                      *)

SyncUnused ==
  /\ pc = "idle" /\ threshold < 0
  /\ op' = "sync" /\ Return("ok")
  /\ UNCHANGED <<base, chunk, threshold, small, sink, count, req, left>>

(* Mutant of SyncIntoChunk: nothing is copied.                             *)
SyncIntoChunkUncopied ==
  /\ pc = "idle" /\ threshold >= 0 /\ at <= threshold
  /\ op' = "sync" /\ Return("ok")
  /\ UNCHANGED <<base, chunk, threshold, small, sink, count, req, left>>

(* The small buffer's content fits in the chunk.                           *)
SyncIntoChunk ==
  /\ pc = "idle" /\ threshold >= 0 /\ at <= threshold
  /\ op' = "sync" /\ Return("ok")
  /\ sink' = ChunkPartWritten
  /\ IF at = threshold
     THEN area' = "chunk" /\ at' = to /\ size' = 0 /\ threshold' = -1
     ELSE UseSmall(0) /\ threshold' = threshold - at
  /\ UNCHANGED <<chunk, small, count, req, left>>

(* Mutant of SyncIntoNextChunk: any failed acquisition is the end.         *)
SyncIntoNextChunkEos ==
  /\ pc = "idle" /\ threshold >= 0 /\ at > threshold
  /\ \/ KeepOverlap /\ Return("end_of_stream")
     \/ \E s \in Offered :
          TryMove(s) /\ Return(IF MovedAll(s) THEN "ok" ELSE "end_of_stream")
  /\ op' = "sync"
  /\ UNCHANGED <<count, req, left>>

SyncIntoNextChunk ==
  /\ pc = "idle" /\ threshold >= 0 /\ at > threshold
  /\ \/ /\ KeepOverlap
        /\ op' = "sync" /\ Return("supplier")
        /\ UNCHANGED <<count, req, left>>
     \/ \E s \in Offered :
          IF s < Overlap THEN Undefined
          ELSE /\ TryMove(s)
               /\ op' = "sync"
               /\ Return(IF MovedAll(s) THEN "ok" ELSE "end_of_stream")
               /\ UNCHANGED <<count, req, left>>

-----------------------------------------------------------------------------
Grow == GrowAtSplit \/ GrowIntoSmall \/ GrowRecycleSmall \/ GrowNextChunk
Bulk == BulkFlushSmall \/ BulkAtSplit \/ BulkCopy
SyncOutput == SyncUnused \/ SyncIntoChunk \/ SyncIntoNextChunk

Next ==
  \/ \E n \in Requests : EnsureSize(n)
  \/ \E n \in WriteSizes : Commit(n) \/ BulkWrite(n)
  \/ Grow
  \/ Bulk
  \/ SyncOutput

(* A call in progress runs on; no caller has to make another one.          *)
Fairness == WF_vars(Grow \/ Bulk)

Spec == Init /\ [][Next]_vars /\ Fairness

-----------------------------------------------------------------------------
(* Properties                                                              *)

TypeOK ==
  /\ area \in {"chunk", "small", "none"}
  /\ at \in Nat /\ size \in Nat
  /\ from \in Nat /\ to \in Nat /\ remaining \in Nat
  /\ threshold \in Int
  /\ small \in [0 .. SmallSize - 1 -> Int]
  /\ sink \in [0 .. StreamSize - 1 -> Int]
  /\ count \in Nat
  /\ pc \in {"idle", "grow", "bulk", "copy", "undefined"}
  /\ op \in {"none", "ensure", "commit", "bulk", "sync"}
  /\ req \in Nat /\ left \in Nat
  /\ rx \in {"ok", "supplier", "buffer_size_exceeded", "end_of_stream"}

(* The last sync_output() has returned success and nothing was written     *)
(* since.                                                                  *)
Synced == op = "sync" /\ pc = "idle" /\ rx = "ok"

(* Where byte p waits if it is still in the small buffer: the buffer's     *)
(* first threshold bytes belong to the end of the current chunk.           *)
Waiting(p) ==
  /\ area = "small" /\ threshold >= 0
  /\ p - (to - threshold) \in 0 .. at - 1
  /\ small[p - (to - threshold)] = p

(* No byte is ever lost, duplicated or misplaced, whichever way a caller   *)
(* mixes ensure_size, commit_written, bulk_write and sync_output and       *)
(* whenever acquire_next_chunk_impl() fails: every byte taken from the     *)
(* caller is in the chunks at its own offset, or in the small buffer at    *)
(* the place from which it will be copied there; the chunks hold nothing   *)
(* else (the memcpys of chunked_output_stream_base).                       *)
Faithful ==
  /\ \A p \in 0 .. count - 1 : (p < StreamSize /\ sink[p] = p) \/ Waiting(p)
  /\ \A p \in 0 .. StreamSize - 1 : sink[p] = Hole \/ (sink[p] = p /\ p < count)

(* A sync_output() that reports success has left no byte in the small      *)
(* buffer (do_sync_output), also after earlier calls failed half way.      *)
SyncDurable ==
  Synced => \A p \in 0 .. count - 1 : p < StreamSize /\ sink[p] = p

(* end_of_stream is reported only when the caller has written more than    *)
(* the stream can hold (do_grow, do_sync_output); until then a failed call *)
(* is the supplier's failure and may be retried.                           *)
EosMeansFull ==
  (pc = "idle" /\ rx = "end_of_stream") => count > StreamSize

(* A successful ensure_size() has given the caller the space it asked for  *)
(* or all of what the stream has left, however little that is: at the end  *)
(* of a chunk do_grow never looks at requestedSize.  It takes a supplier   *)
(* without a chunk smaller than the request; the documentation promises    *)
(* more, a buffer at least as big as the request or end_of_stream.         *)
GrantedOrAtEnd ==
  (op = "ensure" /\ pc = "idle" /\ rx = "ok" /\ \A s \in ChunkSizes : req <= s) =>
    size >= req \/ size = StreamSize - count

(* The stream implements the abstract sink, whatever it keeps in the small *)
(* buffer and whenever its supplier fails.                                 *)
Sink == INSTANCE ByteSink WITH
  accepted <- count,
  stored <- {p \in DOMAIN sink : sink[p] = p},
  synced <- Synced

ImplementsByteSink == Sink!Spec

(* Neither the recursion of do_grow through ensure_size nor the loop of    *)
(* do_bulk_write goes on for ever.                                         *)
EveryCallReturns == pc # "idle" ~> pc \in {"idle", "undefined"}
=============================================================================
