------------------------- MODULE ChunkedOutputProofs ------------------------
(***************************************************************************)
(* Proofs about ChunkedOutput, for every stream size, every set of chunk   *)
(* sizes and every small buffer.  TypeInv is inductive whatever the        *)
(* callers ask for; Inv, which says where every byte is, needs that no     *)
(* request makes mDecomissionThreshold wrap around.                        *)
(***************************************************************************)
EXTENDS ChunkedOutput, TLAPS

(* The arithmetic that keeps every index into the two buffers in range.    *)
Shape ==
  /\ from <= to /\ to <= StreamSize /\ remaining = StreamSize - to
  /\ threshold >= 0 => area = "small"
  /\ area = "small" => at + size = SmallSize
  /\ pc \in {"bulk", "copy"} => size = 0
  /\ pc = "copy" => threshold < 0

TypeInv == TypeOK /\ Shape

LEMMA SmallSizeType == SmallSize \in Nat /\ SmallSize >= MinBuffer
BY SizesAssumption DEF SmallSize

(* What a memcpy leaves in memory: the size of the memory, the n bytes it  *)
(* copied, and everything else as it was.                                  *)
LEMMA CopiedType ==
  ASSUME NEW M \in Nat, NEW dst \in [0 .. M - 1 -> Int], NEW d \in Int,
         NEW L \in Nat, NEW src \in [0 .. L - 1 -> Int], NEW s \in Nat,
         NEW n \in Int, s + n <= L
  PROVE  Copied(dst, d, src, s, n) \in [0 .. M - 1 -> Int]
BY DEF Copied

LEMMA SuppliedType ==
  ASSUME NEW M \in Nat, NEW mem \in [0 .. M - 1 -> Int], NEW d \in Int,
         NEW n \in Int, count \in Nat
  PROVE  Supplied(mem, d, n) \in [0 .. M - 1 -> Int]
BY DEF Supplied

LEMMA AsInt8Type == ASSUME NEW n \in Nat PROVE AsInt8(n) \in Int
BY SizesAssumption, SmallSizeType DEF AsInt8

LEMMA AsInt8Id ==
  ASSUME NEW n \in Nat, n < ThresholdBound
  PROVE  AsInt8(n) = n
BY SizesAssumption, SmallSizeType DEF AsInt8

LEMMA TypeInvInit == Init => TypeInv
BY SizesAssumption, SmallSizeType DEF Init, TypeInv, TypeOK, Shape, Hole

(* What a step needs to know of the data before it.                        *)
LEMMA ChunkPartType ==
  ASSUME TypeInv, threshold >= 0
  PROVE  ChunkPartWritten \in [0 .. StreamSize - 1 -> Int]
<1>1. /\ Lesser(at, threshold) \in Int /\ 0 + Lesser(at, threshold) <= SmallSize
      /\ small \in [0 .. SmallSize - 1 -> Int] /\ sink \in [0 .. StreamSize - 1 -> Int]
      /\ to - threshold \in Int
      /\ SmallSize \in Nat /\ StreamSize \in Nat
  BY SizesAssumption, SmallSizeType DEF TypeInv, TypeOK, Shape, Lesser
<1> QED
  BY <1>1, CopiedType DEF ChunkPartWritten

LEMMA SpanType ==
  ASSUME TypeInv, NEW s \in Offered
  PROVE  /\ s \in Nat /\ s > 0
         /\ Span(s) \in Nat /\ Span(s) > 0 /\ Span(s) <= s /\ Span(s) <= remaining
         /\ Span(s) = s \/ Span(s) = remaining
BY SizesAssumption DEF TypeInv, TypeOK, Offered, Span, Lesser

LEMMA TakeChunkType ==
  ASSUME TypeInv, NEW s \in Offered, NEW n \in Nat, n <= Span(s), TakeChunk(s, n)
  PROVE  /\ from' \in Nat /\ to' \in Nat /\ remaining' \in Nat
         /\ from' <= to' /\ to' <= StreamSize /\ remaining' = StreamSize - to'
         /\ from' = to + n /\ to' = to + Span(s)
<1>1. /\ to \in Nat /\ remaining \in Nat /\ remaining = StreamSize - to
      /\ to <= StreamSize /\ StreamSize \in Nat
  BY SizesAssumption DEF TypeInv, TypeOK, Shape
<1>2. Span(s) \in Nat /\ Span(s) <= remaining
  BY SpanType
<1>3. /\ from' = to + n /\ to' = to + Span(s) /\ remaining' = remaining - Span(s)
  BY DEF TakeChunk
<1> QED
  BY <1>1, <1>2, <1>3

LEMMA KeepOverlapType ==
  ASSUME TypeInv, threshold >= 0, at >= threshold, KeepOverlap
  PROVE  /\ area' = "small" /\ at' = at - threshold /\ size' = SmallSize - at'
         /\ at' \in Nat /\ size' \in Nat /\ threshold' = 0
         /\ small' \in [0 .. SmallSize - 1 -> Int]
         /\ sink' \in [0 .. StreamSize - 1 -> Int]
         /\ from' = from /\ to' = to /\ remaining' = remaining
<1>1. /\ threshold \in Nat /\ Overlap \in Nat
      /\ threshold + Overlap <= SmallSize
      /\ SmallSize \in Nat /\ small \in [0 .. SmallSize - 1 -> Int]
  BY SmallSizeType DEF TypeInv, TypeOK, Shape, Overlap
<1>2. Copied(small, 0, small, threshold, Overlap) \in [0 .. SmallSize - 1 -> Int]
  BY <1>1 DEF Copied
<1>3. /\ from' = from /\ to' = to /\ remaining' = remaining
      /\ sink' = ChunkPartWritten
  BY DEF KeepOverlap, chunk
<1>4. /\ small' = Copied(small, 0, small, threshold, Overlap)
      /\ area' = "small" /\ at' = Overlap /\ size' = SmallSize - Overlap
      /\ threshold' = 0
  BY DEF KeepOverlap, MoveToFront, UseSmall
<1>5. Overlap = at - threshold /\ at <= SmallSize
  BY SmallSizeType DEF Overlap, TypeInv, TypeOK, Shape
<1> QED
  BY <1>1, <1>2, <1>3, <1>4, <1>5, ChunkPartType, SmallSizeType DEF TypeInv, TypeOK

LEMMA MovedType ==
  ASSUME TypeInv, threshold >= 0, at >= threshold, NEW s \in Offered,
         NEW n, n = Lesser(Overlap, Span(s)),
         TakeChunk(s, n),
         sink' = Copied(ChunkPartWritten, to, small, threshold, n)
  PROVE  /\ n \in Nat /\ n <= Span(s) /\ n <= Overlap
         /\ from' \in Nat /\ to' \in Nat /\ remaining' \in Nat
         /\ from' <= to' /\ to' <= StreamSize /\ remaining' = StreamSize - to'
         /\ from' = to + n /\ to' = to + Span(s)
         /\ sink' \in [0 .. StreamSize - 1 -> Int]
<1>1. /\ Overlap \in Nat /\ threshold \in Nat /\ threshold + Overlap = at
      /\ at <= SmallSize
  BY SmallSizeType DEF TypeInv, TypeOK, Shape, Overlap
<1>2. n \in Nat /\ n <= Span(s) /\ n <= Overlap
  BY <1>1, SpanType DEF Lesser
<1>4. sink' \in [0 .. StreamSize - 1 -> Int]
  <2>1. /\ threshold + n <= SmallSize
        /\ SmallSize \in Nat /\ StreamSize \in Nat /\ to \in Int
        /\ small \in [0 .. SmallSize - 1 -> Int]
    BY <1>1, <1>2, SizesAssumption, SmallSizeType DEF TypeInv, TypeOK
  <2>2. ChunkPartWritten \in [0 .. StreamSize - 1 -> Int]
    BY ChunkPartType
  <2>3. Copied(ChunkPartWritten, to, small, threshold, n) \in [0 .. StreamSize - 1 -> Int]
    BY <1>1, <1>2, <2>1, <2>2 DEF Copied
  <2> QED
    BY <2>3
<1> QED
  BY <1>2, <1>4, TakeChunkType

LEMMA TryMoveType ==
  ASSUME TypeInv, threshold >= 0, at >= threshold, NEW s \in Offered, TryMove(s)
  PROVE  /\ from' \in Nat /\ to' \in Nat /\ remaining' \in Nat
         /\ from' <= to' /\ to' <= StreamSize /\ remaining' = StreamSize - to'
         /\ sink' \in [0 .. StreamSize - 1 -> Int]
         /\ small' \in [0 .. SmallSize - 1 -> Int]
         /\ area' \in {"chunk", "small"} /\ at' \in Nat /\ size' \in Nat
         /\ threshold' \in {-1, 0}
         /\ threshold' >= 0 => area' = "small"
         /\ area' = "small" => at' + size' = SmallSize
<1> DEFINE n == Lesser(Overlap, Span(s))
<1>1. /\ Overlap \in Nat /\ threshold \in Nat /\ threshold + Overlap = at
      /\ at <= SmallSize /\ to \in Nat
      /\ SmallSize \in Nat /\ small \in [0 .. SmallSize - 1 -> Int]
  BY SmallSizeType DEF TypeInv, TypeOK, Shape, Overlap
<1>2. /\ TakeChunk(s, n)
      /\ sink' = Copied(ChunkPartWritten, to, small, threshold, n)
  BY DEF TryMove
<1>3. /\ n \in Nat /\ n <= Span(s) /\ n <= Overlap
      /\ from' \in Nat /\ to' \in Nat /\ remaining' \in Nat
      /\ from' <= to' /\ to' <= StreamSize /\ remaining' = StreamSize - to'
      /\ sink' \in [0 .. StreamSize - 1 -> Int]
  BY <1>2, MovedType
<1>4. CASE n = Overlap
  <2>1. /\ area' = "chunk" /\ at' = to + n /\ size' = Span(s) - n
        /\ threshold' = -1 /\ small' = small
    BY <1>4 DEF TryMove
  <2> QED BY <1>1, <1>3, <2>1, SpanType
<1>5. CASE n # Overlap
  <2>1. /\ small' = Copied(small, 0, small, threshold + n, Overlap - n)
        /\ area' = "small" /\ at' = Overlap - n /\ size' = SmallSize - (Overlap - n)
        /\ threshold' = 0
    BY <1>5 DEF TryMove, MoveToFront, UseSmall
  <2>2. /\ threshold + n \in Nat /\ Overlap - n \in Nat
        /\ (threshold + n) + (Overlap - n) <= SmallSize
    BY <1>1, <1>3, SmallSizeType
  <2>3. Copied(small, 0, small, threshold + n, Overlap - n)
          \in [0 .. SmallSize - 1 -> Int]
    <3> HIDE DEF n
    <3> QED BY <1>1, <1>3, <2>2 DEF Copied
  <2>4. Overlap - n <= SmallSize /\ SmallSize - (Overlap - n) \in Nat
    BY <1>1, <1>3, SmallSizeType
  <2>5. at' \in Nat /\ size' \in Nat /\ at' + size' = SmallSize
    BY <2>1, <2>2, <2>4, SmallSizeType
  <2> QED BY <1>3, <2>1, <2>3, <2>5
<1> QED BY <1>3, <1>4, <1>5

(* The two ways in which a call that moves the small buffer may end.       *)
LEMMA KeepOverlapInv ==
  ASSUME TypeInv, threshold >= 0, at >= threshold, KeepOverlap, Return("supplier"),
         count' = count, left' = left, req' = req,
         op' \in {"none", "ensure", "commit", "bulk", "sync"}
  PROVE  TypeInv'
<1>1. pc' = "idle" /\ rx' = "supplier"
  BY DEF Return
<1>2. /\ area' = "small" /\ at' = at - threshold /\ size' = SmallSize - at'
      /\ at' \in Nat /\ size' \in Nat /\ threshold' = 0
      /\ small' \in [0 .. SmallSize - 1 -> Int]
      /\ sink' \in [0 .. StreamSize - 1 -> Int]
      /\ from' = from /\ to' = to /\ remaining' = remaining
  BY KeepOverlapType
<1>3. TypeOK'
  BY <1>1, <1>2 DEF TypeInv, TypeOK
<1>4. Shape'
  BY <1>1, <1>2, SmallSizeType DEF TypeInv, Shape
<1> QED
  BY <1>3, <1>4 DEF TypeInv

LEMMA TryMoveInv ==
  ASSUME TypeInv, threshold >= 0, at >= threshold, NEW s \in Offered, TryMove(s),
         count' = count, left' = left, req' = req,
         pc' \in {"idle", "grow"},
         op' \in {"none", "ensure", "commit", "bulk", "sync"},
         rx' \in {"ok", "supplier", "buffer_size_exceeded", "end_of_stream"}
  PROVE  TypeInv'
BY TryMoveType DEF TypeInv, TypeOK, Shape

(* Every step keeps TypeInv.                                               *)
LEMMA TypeInvNext == TypeInv /\ [Next]_vars => TypeInv'
<1> SUFFICES ASSUME TypeInv, [Next]_vars PROVE TypeInv'
  OBVIOUS
<1>1. ASSUME NEW n \in Requests, EnsureSize(n) PROVE TypeInv'
  BY <1>1, SizesAssumption DEF EnsureSize, Return, TypeInv, TypeOK, Shape, base, chunk
<1>2. CASE GrowAtSplit
  <2>1. CASE Return("supplier") /\ UNCHANGED <<base, chunk>>
    BY <1>2, <2>1 DEF GrowAtSplit, Return, TypeInv, TypeOK, Shape, base, chunk
  <2>2. ASSUME NEW s \in Offered, TakeChunk(s, 0), area' = "chunk", at' = to,
               size' = Span(s), Return("ok")
        PROVE  TypeInv'
    <3>1. /\ from' \in Nat /\ to' \in Nat /\ remaining' \in Nat
          /\ from' <= to' /\ to' <= StreamSize /\ remaining' = StreamSize - to'
      BY <2>2, SpanType, TakeChunkType
    <3>2. /\ area' = "chunk" /\ at' = to /\ size' = Span(s) /\ Span(s) \in Nat
          /\ pc' = "idle" /\ rx' = "ok" /\ threshold < 0
          /\ UNCHANGED <<threshold, small, sink, count, op, req, left>>
      BY <1>2, <2>2, SpanType DEF GrowAtSplit, Return
    <3> QED
      BY <3>1, <3>2 DEF TypeInv, TypeOK, Shape
  <2> QED BY <1>2, <2>1, <2>2 DEF GrowAtSplit
<1>3. CASE GrowIntoSmall
  BY <1>3, AsInt8Type, SmallSizeType
  DEF GrowIntoSmall, Return, SmallResult, UseSmall, TypeInv, TypeOK, Shape, chunk
<1>4. CASE GrowRecycleSmall
  BY <1>4, ChunkPartType, SmallSizeType
  DEF GrowRecycleSmall, Return, SmallResult, UseSmall, TypeInv, TypeOK, Shape, chunk
<1>5. CASE GrowNextChunk
  <2>0. pc = "grow" /\ threshold >= 0 /\ at >= threshold
    BY <1>5 DEF GrowNextChunk
  <2>1. CASE KeepOverlap /\ Return("supplier") /\ UNCHANGED <<count, op, req, left>>
    BY <2>0, <2>1, KeepOverlapInv DEF TypeInv, TypeOK
  <2>2. CASE Undefined
    BY <2>2 DEF Undefined, TypeInv, TypeOK, Shape, base, chunk
  <2>3. ASSUME NEW s \in Offered, TryMove(s), UNCHANGED <<count, op, req, left>>,
               IF ~MovedAll(s) /\ remaining' = 0
               THEN Return("end_of_stream")
               ELSE IF size' < req THEN UNCHANGED <<pc, rx>> ELSE Return("ok")
        PROVE  TypeInv'
    <3>1. /\ pc' \in {"idle", "grow"}
          /\ rx' \in {"ok", "supplier", "buffer_size_exceeded", "end_of_stream"}
          /\ op' \in {"none", "ensure", "commit", "bulk", "sync"}
      BY <2>0, <2>3 DEF Return, TypeInv, TypeOK
    <3> QED BY <2>0, <2>3, <3>1, TryMoveInv
  <2> QED BY <1>5, <2>1, <2>2, <2>3 DEF GrowNextChunk
<1>6. ASSUME NEW n \in WriteSizes, Commit(n) PROVE TypeInv'
  <2>1. /\ small' \in [0 .. SmallSize - 1 -> Int]
        /\ sink' \in [0 .. StreamSize - 1 -> Int]
    BY <1>6, SizesAssumption DEF Commit, Supplied, TypeInv, TypeOK
  <2> QED
    BY <1>6, <2>1, SizesAssumption DEF Commit, Return, TypeInv, TypeOK, Shape, chunk
<1>7. ASSUME NEW n \in WriteSizes, BulkWrite(n) PROVE TypeInv'
  <2> DEFINE k == Lesser(n, size)
  <2>1. k \in Nat /\ k <= n /\ k <= size /\ n - k \in Nat /\ (n # k => size = k)
    BY SizesAssumption DEF Lesser, TypeInv, TypeOK
  <2> HIDE DEF k
  <2>2. /\ small' \in [0 .. SmallSize - 1 -> Int]
        /\ sink' \in [0 .. StreamSize - 1 -> Int]
    <3>1. IF area = "small"
          THEN small' = Supplied(small, at, k) /\ UNCHANGED sink
          ELSE sink' = Supplied(sink, at, k) /\ UNCHANGED small
      BY <1>7 DEF BulkWrite, k
    <3> QED BY <2>1, <3>1 DEF Supplied, TypeInv, TypeOK
  <2>3. /\ pc = "idle" /\ op' = "bulk" /\ left' = n - k
        /\ IF n = k THEN Return("ok") ELSE pc' = "bulk" /\ UNCHANGED rx
        /\ at' = at + k /\ size' = size - k /\ count' = count + k
        /\ UNCHANGED <<area, chunk, threshold, req>>
    BY <1>7 DEF BulkWrite, k
  <2> QED
    BY <2>1, <2>2, <2>3 DEF Return, TypeInv, TypeOK, Shape, chunk
<1>8. CASE BulkFlushSmall
  <2>1. at = SmallSize
    BY <1>8 DEF BulkFlushSmall, TypeInv, TypeOK, Shape
  <2>2. CASE Undefined
    BY <2>2 DEF Undefined, TypeInv, TypeOK, Shape, base, chunk
  <2>3. CASE ~(threshold > SmallSize)
    <3>0. threshold >= 0 /\ at >= threshold
      BY <1>8, <2>1, <2>3 DEF BulkFlushSmall, TypeInv, TypeOK
    <3>1. CASE KeepOverlap /\ Return("supplier") /\ UNCHANGED <<count, op, req, left>>
      BY <3>0, <3>1, KeepOverlapInv DEF TypeInv, TypeOK
    <3>2. ASSUME NEW s \in Offered,
                 TakeChunk(s, Lesser(Overlap, Span(s))),
                 sink' = Copied(ChunkPartWritten, to, small, threshold,
                                Lesser(Overlap, Span(s))),
                 IF MovedAll(s)
                 THEN /\ threshold' = -1
                      /\ area' = "none" /\ at' = 0 /\ size' = 0
                      /\ pc' = "copy"
                      /\ UNCHANGED <<small, rx>>
                 ELSE /\ MoveToFront(threshold + Span(s), Overlap - Span(s))
                      /\ Return("supplier"),
                 UNCHANGED <<count, op, req, left>>
          PROVE  TypeInv'
      <4>1. /\ from' \in Nat /\ to' \in Nat /\ remaining' \in Nat
            /\ from' <= to' /\ to' <= StreamSize /\ remaining' = StreamSize - to'
            /\ sink' \in [0 .. StreamSize - 1 -> Int]
        BY <3>0, <3>2, MovedType
      <4>2. CASE MovedAll(s)
        <5>1. /\ threshold' = -1 /\ area' = "none" /\ at' = 0 /\ size' = 0
              /\ pc' = "copy" /\ small' = small /\ rx' = rx
              /\ count' = count /\ op' = op /\ req' = req /\ left' = left
          BY <3>2, <4>2
        <5>2. TypeOK'
          BY <4>1, <5>1 DEF TypeInv, TypeOK
        <5> QED BY <4>1, <5>1, <5>2 DEF TypeInv, Shape
      <4>3. CASE ~MovedAll(s)
        <5>1. /\ threshold \in Nat /\ Overlap - Span(s) \in Nat
              /\ Overlap = at - threshold /\ Span(s) \in Nat
          BY <1>8, <4>3, SpanType
          DEF BulkFlushSmall, MovedAll, Overlap, TypeInv, TypeOK
        <5>2. Copied(small, 0, small, threshold + Span(s), Overlap - Span(s))
                \in [0 .. SmallSize - 1 -> Int]
          BY <2>1, <5>1, SmallSizeType DEF Copied, TypeInv, TypeOK
        <5>3. /\ small' = Copied(small, 0, small, threshold + Span(s), Overlap - Span(s))
              /\ area' = "small" /\ at' = Overlap - Span(s)
              /\ size' = SmallSize - (Overlap - Span(s)) /\ threshold' = 0
              /\ pc' = "idle" /\ rx' = "supplier"
          BY <3>2, <4>3 DEF MoveToFront, UseSmall, Return
        <5>4. at' \in Nat /\ size' \in Nat /\ at' + size' = SmallSize
          BY <2>1, <5>1, <5>3, SmallSizeType
        <5> QED
          <6>1. count' = count /\ op' = op /\ req' = req /\ left' = left
            BY <3>2
          <6>2. small' \in [0 .. SmallSize - 1 -> Int] /\ threshold' \in Int
            BY <5>2, <5>3
          <6>3. area' = "small" /\ pc' = "idle" /\ rx' = "supplier"
            BY <5>3
          <6>4. TypeOK'
            BY <4>1, <5>4, <6>1, <6>2, <6>3 DEF TypeInv, TypeOK
          <6> QED BY <4>1, <5>3, <5>4, <6>4 DEF TypeInv, Shape
      <4> QED BY <4>2, <4>3
    <3> QED BY <1>8, <2>2, <2>3, <3>1, <3>2 DEF BulkFlushSmall
  <2> QED BY <1>8, <2>2, <2>3 DEF BulkFlushSmall
<1>9. CASE BulkAtSplit
  <2>1. CASE Return("supplier") /\ UNCHANGED chunk
    <3>1. UNCHANGED <<base, chunk, threshold, small, sink, count, op, req, left>>
      BY <1>9, <2>1 DEF BulkAtSplit
    <3>2. pc' = "idle" /\ rx' = "supplier"
      BY <2>1 DEF Return
    <3> QED BY <3>1, <3>2 DEF TypeInv, TypeOK, Shape, base, chunk
  <2>2. ASSUME NEW s \in Offered, TakeChunk(s, 0), pc' = "copy", UNCHANGED rx
        PROVE  TypeInv'
    <3>1. /\ from' \in Nat /\ to' \in Nat /\ remaining' \in Nat
          /\ from' <= to' /\ to' <= StreamSize /\ remaining' = StreamSize - to'
      BY <2>2, SpanType, TakeChunkType
    <3>2. /\ pc = "bulk" /\ threshold < 0 /\ pc' = "copy" /\ rx' = rx
          /\ area' = area /\ at' = at /\ size' = size /\ threshold' = threshold
          /\ UNCHANGED <<small, sink, count, op, req, left>>
      BY <1>9, <2>2 DEF BulkAtSplit, base
    <3> QED
      BY <3>1, <3>2 DEF TypeInv, TypeOK, Shape
  <2> QED BY <1>9, <2>1, <2>2 DEF BulkAtSplit
<1>10. CASE BulkCopy
  <2> DEFINE n == Lesser(left, to - from)
  <2>1. n \in Nat /\ n <= left /\ n <= to - from
    BY DEF Lesser, TypeInv, TypeOK, Shape
  <2> HIDE DEF n
  <2>2. /\ pc = "copy" /\ sink' = Supplied(sink, from, n)
        /\ count' = count + n /\ left' = left - n
        /\ threshold' = threshold /\ small' = small /\ op' = op /\ req' = req
    BY <1>10 DEF BulkCopy, n
  <2>3. sink' \in [0 .. StreamSize - 1 -> Int]
    BY <2>1, <2>2 DEF Supplied, TypeInv, TypeOK
  <2>4. CASE Return("supplier") /\ UNCHANGED <<base, chunk>>
    BY <2>1, <2>2, <2>3, <2>4 DEF Return, TypeInv, TypeOK, Shape, base, chunk
  <2>5. ASSUME \/ \E s \in Offered : TakeChunk(s, 0)
               \/ n < to - from /\ from' = from + n /\ UNCHANGED <<to, remaining>>,
               IF left' = 0
               THEN area' = "chunk" /\ at' = from' /\ size' = to' - from' /\ Return("ok")
               ELSE UNCHANGED <<base, pc, rx>>
        PROVE  TypeInv'
    <3>1. /\ from' \in Nat /\ to' \in Nat /\ remaining' \in Nat
          /\ from' <= to' /\ to' <= StreamSize /\ remaining' = StreamSize - to'
      <4>1. CASE \E s \in Offered : TakeChunk(s, 0)
        BY <4>1, SpanType, TakeChunkType
      <4>2. CASE n < to - from /\ from' = from + n /\ UNCHANGED <<to, remaining>>
        BY <2>1, <4>2 DEF TypeInv, TypeOK, Shape
      <4> QED BY <2>5, <4>1, <4>2
    <3>2. /\ area' \in {"chunk", "small", "none"} /\ at' \in Nat /\ size' \in Nat
          /\ pc' \in {"idle", "copy"} /\ rx' \in {"ok", rx}
          /\ area' = "small" => at' + size' = SmallSize
          /\ pc' = "copy" => size' = 0
      BY <2>2, <2>5, <3>1 DEF Return, TypeInv, TypeOK, Shape, base
    <3>3. TypeOK'
      BY <2>1, <2>2, <2>3, <3>1, <3>2 DEF TypeInv, TypeOK
    <3>4. threshold < 0 /\ threshold \in Int
      BY <2>2 DEF TypeInv, TypeOK, Shape
    <3> QED
      BY <2>2, <3>1, <3>2, <3>3, <3>4 DEF TypeInv, Shape
  <2> QED BY <1>10, <2>4, <2>5 DEF BulkCopy, n
<1>11. CASE SyncUnused
  BY <1>11 DEF SyncUnused, Return, TypeInv, TypeOK, Shape, base, chunk
<1>12. CASE SyncIntoChunk
  BY <1>12, ChunkPartType, SmallSizeType
  DEF SyncIntoChunk, Return, UseSmall, TypeInv, TypeOK, Shape, chunk
<1>13. CASE SyncIntoNextChunk
  <2>0. threshold >= 0 /\ at >= threshold
    BY <1>13 DEF SyncIntoNextChunk, TypeInv, TypeOK
  <2>1. CASE KeepOverlap /\ op' = "sync" /\ Return("supplier") /\ UNCHANGED <<count, req, left>>
    BY <2>0, <2>1, KeepOverlapInv
  <2>2. CASE Undefined
    BY <2>2 DEF Undefined, TypeInv, TypeOK, Shape, base, chunk
  <2>3. ASSUME NEW s \in Offered, TryMove(s), op' = "sync",
               Return(IF MovedAll(s) THEN "ok" ELSE "end_of_stream"),
               UNCHANGED <<count, req, left>>
        PROVE  TypeInv'
    <3>1. pc' = "idle" /\ rx' \in {"ok", "end_of_stream"}
      BY <2>3 DEF Return
    <3> QED BY <2>0, <2>3, <3>1, TryMoveInv
  <2> QED BY <1>13, <2>1, <2>2, <2>3 DEF SyncIntoNextChunk
<1>14. CASE UNCHANGED vars
  BY <1>14 DEF vars, base, chunk, call, TypeInv, TypeOK, Shape
<1> QED
  BY <1>1, <1>2, <1>3, <1>4, <1>5, <1>6, <1>7, <1>8, <1>9, <1>10, <1>11, <1>12,
     <1>13, <1>14
  DEF Next, Grow, Bulk, SyncOutput

(* The variables keep their types for every stream and every caller: no    *)
(* offset into a chunk or into the small buffer ever leaves it, even when  *)
(* mDecomissionThreshold wraps around.                                     *)
THEOREM TypeCorrect == Spec => []TypeOK
<1>1. TypeInv => TypeOK
  BY DEF TypeInv
<1> QED
  BY TypeInvInit, TypeInvNext, <1>1, PTL DEF Spec

-----------------------------------------------------------------------------
(* Where every byte is.                                                    *)

(* No request is big enough to make mDecomissionThreshold, an int8_t, wrap *)
(* around.  Requests up to minimum_output_buffer_size never are.           *)
NoWrap == \A n \in Requests : n <= ThresholdBound

(* The memory m of the chunks holds exactly the first n bytes.             *)
SinkHolds(m, n) ==
  \A p \in 0 .. StreamSize - 1 : m[p] = IF p < n THEN p ELSE Hole

(* The memory m of the small buffer holds n bytes, the first of them b.    *)
SmallHolds(m, b, n) == \A i \in 0 .. n - 1 : m[i] = b + i

(* How many bytes have reached the chunks.                                 *)
Stored == IF threshold < 0 THEN count ELSE to - threshold

Content ==
  /\ Stored \in 0 .. StreamSize
  /\ SinkHolds(sink, Stored)
  /\ threshold >= 0 =>
       threshold <= to /\ count = Stored + at /\ SmallHolds(small, Stored, at)
  /\ threshold < 0 =>
       /\ threshold = -1 /\ area # "small"
       /\ IF pc = "copy" THEN count = from ELSE count + size = to
       /\ size > 0 => area = "chunk" /\ at = count

Calls ==
  /\ pc = "grow" => op = "ensure" /\ size < req /\ req <= ThresholdBound
  /\ pc \in {"bulk", "copy"} => op = "bulk"
  /\ Synced => threshold < 0 \/ at = 0
  /\ EosMeansFull

Inv == TypeInv /\ Content /\ Calls

(* The three kinds of memcpy: small buffer to chunk, small buffer to its   *)
(* own front, caller to either.                                            *)
LEMMA CopiedHolds ==
  ASSUME StreamSize \in Nat, NEW m \in [0 .. StreamSize - 1 -> Int],
         NEW d \in Nat, NEW n \in Nat, d + n <= StreamSize, SinkHolds(m, d),
         NEW src, NEW s \in Nat, \A i \in 0 .. n - 1 : src[i + s] = d + i
  PROVE  SinkHolds(Copied(m, d, src, s, n), d + n)
<1> SUFFICES ASSUME NEW p \in 0 .. StreamSize - 1
             PROVE  Copied(m, d, src, s, n)[p] = IF p < d + n THEN p ELSE Hole
  BY DEF SinkHolds
<1>1. Copied(m, d, src, s, n)[p] = IF p \in d .. d + n - 1 THEN src[p - d + s] ELSE m[p]
  BY DEF Copied
<1>2. CASE p \in d .. d + n - 1
  <2>1. p - d \in 0 .. n - 1
    BY <1>2
  <2>2. src[p - d + s] = d + (p - d)
    BY <2>1
  <2> QED BY <1>1, <1>2, <2>2
<1>3. CASE p \notin d .. d + n - 1
  BY <1>1, <1>3 DEF SinkHolds
<1> QED BY <1>2, <1>3

LEMMA CopiedSmallHolds ==
  ASSUME SmallSize \in Nat, NEW m \in [0 .. SmallSize - 1 -> Int],
         NEW b \in Int, NEW f \in Nat, NEW n \in Nat, f + n <= SmallSize,
         SmallHolds(m, b, f + n)
  PROVE  SmallHolds(Copied(m, 0, m, f, n), b + f, n)
<1> SUFFICES ASSUME NEW i \in 0 .. n - 1
             PROVE  Copied(m, 0, m, f, n)[i] = b + f + i
  BY DEF SmallHolds
<1>1. i \in 0 .. SmallSize - 1 /\ i + f \in 0 .. f + n - 1 /\ i - 0 = i
  OBVIOUS
<1>2. Copied(m, 0, m, f, n)[i] = m[i + f]
  BY <1>1 DEF Copied
<1> QED BY <1>1, <1>2 DEF SmallHolds

LEMMA SuppliedHolds ==
  ASSUME StreamSize \in Nat, NEW m \in [0 .. StreamSize - 1 -> Int],
         NEW n \in Nat, count \in Nat, count + n <= StreamSize, SinkHolds(m, count)
  PROVE  SinkHolds(Supplied(m, count, n), count + n)
BY DEF SinkHolds, Supplied

LEMMA SuppliedSmallHolds ==
  ASSUME SmallSize \in Nat, NEW m \in [0 .. SmallSize - 1 -> Int],
         NEW b \in Int, NEW a \in Nat, NEW n \in Nat, a + n <= SmallSize,
         count = b + a, SmallHolds(m, b, a)
  PROVE  SmallHolds(Supplied(m, a, n), b, a + n)
BY DEF SmallHolds, Supplied

(* Nothing needs to be copied: no byte, no change.                         *)
LEMMA SuppliedNothing ==
  ASSUME NEW M \in Nat, NEW m \in [0 .. M - 1 -> Int], NEW d \in Int
  PROVE  Supplied(m, d, 0) = m
BY DEF Supplied

LEMMA SmallTypes ==
  ASSUME TypeInv, threshold >= 0
  PROVE  /\ area = "small" /\ at \in Nat /\ size \in Nat /\ at + size = SmallSize
         /\ at <= SmallSize /\ threshold \in Nat /\ to \in Nat /\ to <= StreamSize
         /\ SmallSize \in Nat /\ StreamSize \in Nat /\ count \in Nat
         /\ small \in [0 .. SmallSize - 1 -> Int]
         /\ sink \in [0 .. StreamSize - 1 -> Int]
BY SizesAssumption, SmallSizeType DEF TypeInv, TypeOK, Shape

LEMMA ChunkPartHolds ==
  ASSUME TypeInv, Content, threshold >= 0
  PROVE  SinkHolds(ChunkPartWritten, to - threshold + Lesser(at, threshold))
<1>1. /\ to - threshold \in Nat /\ SinkHolds(sink, to - threshold)
      /\ SmallHolds(small, to - threshold, at)
  BY SmallTypes DEF Content, Stored
<1> DEFINE n == Lesser(at, threshold)
<1>2. n \in Nat /\ n <= threshold /\ n <= at
  BY SmallTypes DEF Lesser
<1>3. ChunkPartWritten = Copied(sink, to - threshold, small, 0, n)
  BY DEF ChunkPartWritten
<1> HIDE DEF n
<1>4. \A i \in 0 .. n - 1 : small[i + 0] = to - threshold + i
  BY <1>1, <1>2, SmallTypes DEF SmallHolds
<1>5. to - threshold + n <= StreamSize
  BY <1>2, SmallTypes
<1>6. SinkHolds(Copied(sink, to - threshold, small, 0, n), to - threshold + n)
  BY <1>1, <1>2, <1>4, <1>5, SmallTypes, CopiedHolds
<1> QED
  BY <1>3, <1>6 DEF n

LEMMA KeepOverlapContent ==
  ASSUME TypeInv, Content, threshold >= 0, at >= threshold, KeepOverlap, count' = count
  PROVE  Content' /\ Stored' = to /\ threshold' = 0
<1>1. /\ area' = "small" /\ at' = at - threshold /\ threshold' = 0
      /\ to' = to /\ at' \in Nat
  BY KeepOverlapType
<1>2. /\ sink' = ChunkPartWritten
      /\ small' = Copied(small, 0, small, threshold, at - threshold)
  BY DEF KeepOverlap, MoveToFront, Overlap
<1>3. SinkHolds(sink', to)
  BY <1>2, ChunkPartHolds, SmallTypes DEF Lesser
<1>4. SmallHolds(small', to, at - threshold)
  <2>1. /\ to - threshold \in Int /\ at - threshold \in Nat
        /\ threshold + (at - threshold) = at
        /\ (to - threshold) + threshold = to
    BY SmallTypes
  <2>2. SmallHolds(small, to - threshold, at)
    BY DEF Content, Stored
  <2> QED
    BY <1>2, <2>1, <2>2, SmallTypes, CopiedSmallHolds
<1>5. count = to - threshold + at
  BY SmallTypes DEF Content, Stored
<1>6. Stored' = to
  BY <1>1, SmallTypes DEF Stored
<1> QED
  BY <1>1, <1>3, <1>4, <1>5, <1>6, SmallTypes DEF Content, SinkHolds

(* After the chunk part and n bytes of the overlap have been copied.       *)
LEMMA MovedHolds ==
  ASSUME TypeInv, Content, threshold >= 0, at >= threshold, NEW s \in Offered,
         NEW n, n = Lesser(Overlap, Span(s)),
         TakeChunk(s, n),
         sink' = Copied(ChunkPartWritten, to, small, threshold, n)
  PROVE  SinkHolds(sink', to + n)
<1>1. n \in Nat /\ n <= Overlap /\ to + n <= StreamSize
  BY MovedType, SizesAssumption DEF TypeInv, TypeOK
<1>2. SinkHolds(ChunkPartWritten, to)
  BY ChunkPartHolds, SmallTypes DEF Lesser
<1>3. \A i \in 0 .. n - 1 : small[i + threshold] = to + i
  <2> SUFFICES ASSUME NEW i \in 0 .. n - 1 PROVE small[i + threshold] = to + i
    OBVIOUS
  <2>1. SmallHolds(small, to - threshold, at)
    BY DEF Content, Stored
  <2>2. /\ Overlap = at - threshold /\ at \in Nat /\ threshold \in Nat
        /\ to \in Nat /\ i \in Nat /\ i < n
    BY <1>1, SmallTypes DEF Overlap
  <2>3. i + threshold \in 0 .. at - 1 /\ (to - threshold) + (i + threshold) = to + i
    BY <1>1, <2>2
  <2> QED BY <2>1, <2>3 DEF SmallHolds
<1>4. ChunkPartWritten \in [0 .. StreamSize - 1 -> Int]
  BY ChunkPartType
<1>5. SinkHolds(Copied(ChunkPartWritten, to, small, threshold, n), to + n)
  BY <1>1, <1>2, <1>3, <1>4, SmallTypes, CopiedHolds
<1> QED
  BY <1>5

LEMMA TryMoveContent ==
  ASSUME TypeInv, Content, threshold >= 0, at >= threshold, NEW s \in Offered,
         TryMove(s), count' = count, pc' # "copy"
  PROVE  /\ Content' /\ Stored' >= to
         /\ MovedAll(s) => threshold' = -1
         /\ ~MovedAll(s) => count > to'
<1> DEFINE n == Lesser(Overlap, Span(s))
<1>1. /\ TakeChunk(s, n)
      /\ sink' = Copied(ChunkPartWritten, to, small, threshold, n)
  BY DEF TryMove
<1>2. /\ n \in Nat /\ n <= Span(s) /\ n <= Overlap
      /\ to' = to + Span(s) /\ to' <= StreamSize /\ to' \in Nat
  BY <1>1, MovedType
<1>3. SinkHolds(sink', to + n)
  BY <1>1, MovedHolds
<1>4. /\ Overlap = at - threshold /\ count = to + Overlap /\ Overlap \in Nat
      /\ at \in Nat /\ threshold \in Nat /\ to \in Nat /\ at <= SmallSize
      /\ SmallSize \in Nat
  BY SmallTypes DEF Content, Stored, Overlap
<1>5. Span(s) \in Nat
  BY SpanType
<1>6. CASE n = Overlap
  <2>1. /\ area' = "chunk" /\ at' = to + n /\ size' = Span(s) - n /\ threshold' = -1
    BY <1>6 DEF TryMove
  <2>2. MovedAll(s)
    BY <1>2, <1>5, <1>6 DEF MovedAll
  <2>3. Stored' = to + n
    BY <1>4, <1>6, <2>1 DEF Stored
  <2> HIDE DEF n
  <2>4. count + size' = to' /\ at' = count
    BY <1>2, <1>4, <1>5, <1>6, <2>1
  <2>5. Stored' \in 0 .. StreamSize /\ Stored' >= to
    BY <1>2, <1>4, <1>5, <2>3, SmallTypes
  <2>6. SinkHolds(sink', Stored')
    BY <1>3, <2>3
  <2>7. Content'
    BY <2>1, <2>4, <2>5, <2>6 DEF Content, SinkHolds
  <2> QED
    BY <2>1, <2>2, <2>5, <2>7
<1>7. CASE n # Overlap
  <2>1. /\ small' = Copied(small, 0, small, threshold + n, Overlap - n)
        /\ area' = "small" /\ at' = Overlap - n /\ threshold' = 0
    BY <1>7 DEF TryMove, MoveToFront, UseSmall
  <2>2. n = Span(s) /\ ~MovedAll(s)
    BY <1>4, <1>5, <1>7 DEF Lesser, MovedAll
  <2> HIDE DEF n
  <2>3. Stored' = to + n /\ to' = to + n
    BY <1>2, <2>1, <2>2 DEF Stored
  <2>4. SmallHolds(small', to + n, Overlap - n)
    <3>1. SmallHolds(small, to - threshold, at)
      BY DEF Content, Stored
    <3>2. /\ Overlap - n \in Nat /\ threshold + n \in Nat
          /\ (threshold + n) + (Overlap - n) = at
          /\ (to - threshold) + (threshold + n) = to + n
      BY <1>2, <1>4
    <3>3. SmallHolds(small, to - threshold, (threshold + n) + (Overlap - n))
      BY <3>1, <3>2
    <3>4. SmallHolds(Copied(small, 0, small, threshold + n, Overlap - n),
                     (to - threshold) + (threshold + n), Overlap - n)
      <4>1. /\ SmallSize \in Nat /\ small \in [0 .. SmallSize - 1 -> Int]
            /\ to - threshold \in Int /\ (threshold + n) + (Overlap - n) <= SmallSize
        BY <1>4, <3>2, SmallTypes
      <4> QED
        BY <3>2, <3>3, <4>1, CopiedSmallHolds
    <3> QED
      BY <2>1, <3>2, <3>4
  <2>5. count = to + n + (Overlap - n) /\ Overlap - n > 0
    BY <1>2, <1>4, <1>7, SmallTypes DEF n
  <2>6. Stored' \in 0 .. StreamSize /\ Stored' >= to
    BY <1>2, <1>4, <2>3, SmallTypes
  <2>7. SinkHolds(sink', Stored') /\ SmallHolds(small', Stored', at')
    BY <1>3, <2>1, <2>3, <2>4
  <2>8. Content'
    BY <1>2, <1>4, <2>1, <2>3, <2>5, <2>6, <2>7 DEF Content, SinkHolds, SmallHolds
  <2> QED
    BY <1>2, <1>4, <2>2, <2>3, <2>5, <2>6, <2>8
<1> QED BY <1>6, <1>7

(* The caller's n bytes go to the current buffer.                          *)
LEMMA WriteContent ==
  ASSUME TypeInv, Content, pc = "idle", pc' # "copy",
         NEW n \in Nat, n <= size,
         IF area = "small"
         THEN small' = Supplied(small, at, n) /\ UNCHANGED sink
         ELSE sink' = Supplied(sink, at, n) /\ UNCHANGED small,
         at' = at + n, size' = size - n, count' = count + n,
         area' = area, to' = to, threshold' = threshold
  PROVE  Content' /\ Stored' >= Stored
<1>1. /\ at \in Nat /\ size \in Nat /\ count \in Nat /\ to \in Nat /\ threshold \in Int
      /\ StreamSize \in Nat /\ to <= StreamSize
      /\ sink \in [0 .. StreamSize - 1 -> Int] /\ small \in [0 .. SmallSize - 1 -> Int]
  BY SizesAssumption DEF TypeInv, TypeOK, Shape
<1>2. CASE threshold >= 0
  <2>1. /\ area = "small" /\ count = Stored + at /\ threshold <= to
        /\ SmallHolds(small, Stored, at) /\ SinkHolds(sink, Stored)
        /\ Stored = to - threshold /\ Stored \in 0 .. StreamSize
    BY <1>1, <1>2, SmallTypes DEF Content, Stored
  <2>2. small' = Supplied(small, at, n) /\ sink' = sink /\ Stored' = Stored
    BY <1>1, <1>2, <2>1 DEF Stored
  <2>3. SmallHolds(small', Stored, at')
    <3>1. SmallSize \in Nat /\ at + n <= SmallSize /\ Stored \in Int
      BY <1>1, <1>2, <2>1, SmallTypes
    <3> QED BY <1>1, <2>1, <2>2, <3>1, SuppliedSmallHolds
  <2>4. count' = Stored + at'
    BY <1>1, <2>1
  <2>5. Content'
    BY <1>1, <1>2, <2>1, <2>2, <2>3, <2>4 DEF Content, SinkHolds, SmallHolds
  <2> QED BY <2>1, <2>2, <2>5
<1>3. CASE threshold < 0
  <2>1. /\ threshold = -1 /\ area # "small" /\ count + size = to /\ Stored = count
        /\ size > 0 => area = "chunk" /\ at = count
        /\ SinkHolds(sink, count)
    BY <1>3 DEF Content, Stored
  <2>2. sink' = Supplied(sink, at, n) /\ Stored' = count + n
    BY <1>3, <2>1 DEF Stored
  <2>3. SinkHolds(sink', count + n)
    <3>1. CASE n = 0
      BY <1>1, <2>1, <2>2, <3>1, SuppliedNothing
    <3>2. CASE n > 0
      <4>1. at = count /\ count + n <= StreamSize
        BY <1>1, <2>1, <3>2
      <4> QED BY <1>1, <2>1, <2>2, <4>1, SuppliedHolds
    <3> QED BY <3>1, <3>2
  <2>4. /\ count' + size' = to'
        /\ size' > 0 => area' = "chunk" /\ at' = count'
        /\ count + n \in 0 .. StreamSize
    BY <1>1, <2>1
  <2>5. Stored' \in 0 .. StreamSize /\ SinkHolds(sink', Stored')
    BY <2>2, <2>3, <2>4
  <2>6. threshold' = -1 /\ area' # "small" /\ pc' # "copy"
    BY <2>1
  <2>7. Content'
    BY <2>4, <2>5, <2>6 DEF Content, SinkHolds
  <2> QED BY <1>1, <2>1, <2>2, <2>7
<1> QED BY <1>1, <1>2, <1>3

(* What a step adds: bytes are only ever accepted and stored, and a        *)
(* successful sync accepts none.                                           *)
Advance == count' >= count /\ Stored' >= Stored /\ (Synced' => count' = count)

LEMMA StoredTypes ==
  ASSUME TypeInv, Content
  PROVE  Stored \in Nat /\ count \in Nat /\ Stored <= count /\ Stored <= to
<1>1. CASE threshold >= 0
  BY <1>1, SmallTypes DEF Content, Stored
<1>2. CASE threshold < 0
  <2>1. pc = "copy" => count <= to
    BY <1>2 DEF Content, TypeInv, TypeOK, Shape
  <2>2. pc # "copy" => count <= to
    BY <1>2 DEF Content, TypeInv, TypeOK
  <2> QED BY <1>2, <2>1, <2>2 DEF Content, Stored, TypeInv, TypeOK
<1> QED BY <1>1, <1>2 DEF TypeInv, TypeOK

LEMMA InvInit == Init => Inv
<1> SUFFICES ASSUME Init PROVE Inv
  OBVIOUS
<1>1. TypeInv
  BY TypeInvInit
<1>2. Content
  BY SizesAssumption DEF Init, Content, Stored, SinkHolds, Hole
<1>3. Calls
  BY DEF Init, Calls, Synced, EosMeansFull
<1> QED BY <1>1, <1>2, <1>3 DEF Inv

LEMMA UndefinedStep ==
  ASSUME Inv, Undefined, pc # "copy"
  PROVE  Content' /\ Calls' /\ Advance
<1>1. /\ area' = area /\ at' = at /\ size' = size /\ from' = from /\ to' = to
      /\ threshold' = threshold /\ small' = small /\ sink' = sink /\ count' = count
      /\ op' = op /\ req' = req /\ rx' = rx /\ pc' = "undefined"
  BY DEF Undefined, base, chunk
<1>2. Stored' = Stored
  BY <1>1 DEF Stored
<1>3. Content'
  BY <1>1, <1>2 DEF Inv, Content, SinkHolds, SmallHolds
<1>4. Calls'
  BY <1>1 DEF Calls, Synced, EosMeansFull
<1> QED
  BY <1>1, <1>2, <1>3, <1>4, StoredTypes DEF Advance, Inv

(* Every step keeps Content and Calls and only moves forward.              *)
LEMMA EnsureSizeInv ==
  ASSUME NoWrap, Inv, NEW n \in Requests, EnsureSize(n)
  PROVE  Content' /\ Calls' /\ Advance
<1>1. /\ area' = area /\ at' = at /\ size' = size /\ from' = from /\ to' = to
      /\ threshold' = threshold /\ small' = small /\ sink' = sink /\ count' = count
      /\ op' = "ensure" /\ req' = n /\ pc = "idle"
      /\ \/ pc' = "grow" /\ size < n
         \/ pc' = "idle" /\ rx' = "ok"
  BY DEF EnsureSize, Return, base, chunk
<1>2. Stored' = Stored
  BY <1>1 DEF Stored
<1>3. Content'
  BY <1>1, <1>2 DEF Inv, Content, SinkHolds, SmallHolds
<1>4. Calls'
  BY <1>1 DEF Calls, Synced, EosMeansFull, NoWrap
<1> QED
  BY <1>1, <1>2, <1>3, <1>4, StoredTypes DEF Advance, Inv, Synced

LEMMA GrowAtSplitInv ==
  ASSUME Inv, GrowAtSplit
  PROVE  Content' /\ Calls' /\ Advance
<1>1. /\ pc = "grow" /\ threshold < 0 /\ size = 0 /\ pc' = "idle"
      /\ rx' \in {"ok", "supplier"} /\ op = "ensure"
      /\ threshold' = threshold /\ small' = small /\ sink' = sink /\ count' = count
      /\ op' = op /\ req' = req
  BY DEF GrowAtSplit, Return, Inv, Calls
<1>2. /\ threshold = -1 /\ area # "small" /\ count = to /\ Stored = count
      /\ SinkHolds(sink, count) /\ count \in Nat /\ count <= StreamSize
  BY <1>1, SizesAssumption DEF Inv, Content, Stored, TypeInv, TypeOK
<1>3. Stored' = count
  BY <1>1, <1>2 DEF Stored
<1>4. /\ area' # "small" /\ count + size' = to'
      /\ size' > 0 => area' = "chunk" /\ at' = count
  <2>1. CASE Return("supplier") /\ UNCHANGED <<base, chunk>>
    BY <1>1, <1>2, <2>1 DEF base, chunk
  <2>2. ASSUME NEW s \in Offered, TakeChunk(s, 0), area' = "chunk", at' = to,
               size' = Span(s)
        PROVE  /\ area' # "small" /\ count + size' = to'
               /\ size' > 0 => area' = "chunk" /\ at' = count
    BY <1>2, <2>2, SpanType, TakeChunkType DEF Inv
  <2> QED BY <2>1, <2>2 DEF GrowAtSplit
<1>5. Content'
  <2>1. count' \in 0 .. StreamSize
    BY <1>1, <1>2, SizesAssumption
  <2> QED BY <1>1, <1>2, <1>3, <1>4, <2>1 DEF Content, SinkHolds
<1>6. Calls'
  BY <1>1 DEF Calls, Synced, EosMeansFull
<1> QED
  BY <1>1, <1>2, <1>3, <1>5, <1>6 DEF Advance, Synced

LEMMA GrowIntoSmallInv ==
  ASSUME Inv, GrowIntoSmall
  PROVE  Content' /\ Calls' /\ Advance
<1>1. /\ pc = "grow" /\ threshold < 0 /\ size > 0 /\ size \in Nat
      /\ op = "ensure" /\ size < req /\ req <= ThresholdBound /\ req \in Nat
  BY DEF GrowIntoSmall, Inv, Calls, TypeInv, TypeOK
<1>2. threshold' = size
  <2>1. threshold' = AsInt8(size)
    BY DEF GrowIntoSmall
  <2> QED BY <1>1, <2>1, AsInt8Id, SizesAssumption
<1>3. /\ area' = "small" /\ at' = 0 /\ pc' = "idle" /\ to' = to /\ sink' = sink
      /\ rx' \in {"ok", "buffer_size_exceeded"} /\ count' = count /\ op' = op
  BY DEF GrowIntoSmall, UseSmall, Return, SmallResult, chunk
<1>4. /\ count + size = to /\ Stored = count /\ SinkHolds(sink, count)
      /\ count \in Nat /\ to \in Nat /\ count \in 0 .. StreamSize
  BY <1>1 DEF Inv, Content, Stored, TypeInv, TypeOK
<1>5. Stored' = count
  BY <1>1, <1>2, <1>3, <1>4 DEF Stored
<1>6. Content'
  BY <1>1, <1>2, <1>3, <1>4, <1>5 DEF Content, SinkHolds, SmallHolds
<1>7. Calls'
  BY <1>1, <1>3 DEF Calls, Synced, EosMeansFull
<1> QED
  BY <1>1, <1>3, <1>4, <1>5, <1>6, <1>7 DEF Advance, Synced

(* The small buffer's content has been copied into the chunk, which still  *)
(* has room: recycling in do_grow and in do_sync_output.                   *)
LEMMA RecycleContent ==
  ASSUME TypeInv, Content, threshold >= 0, at < threshold,
         sink' = ChunkPartWritten, threshold' = threshold - at, area' = "small",
         at' = 0, to' = to, count' = count
  PROVE  Content' /\ Stored' = count /\ Stored <= count
<1>1. /\ SinkHolds(sink', to - threshold + at)
      /\ Stored = to - threshold /\ count = Stored + at /\ threshold <= to
  BY ChunkPartHolds, SmallTypes DEF Lesser, Content, Stored
<1>2. Stored' = count /\ threshold' >= 0 /\ threshold' <= to
  <2>1. /\ threshold - at \in Nat /\ threshold - at <= to
        /\ to - (threshold - at) = count
    BY <1>1, SmallTypes
  <2> QED BY <2>1 DEF Stored
<1>3. count \in 0 .. StreamSize /\ Stored <= count
  BY <1>1, SmallTypes
<1>4. SinkHolds(sink', count)
  BY <1>1
<1>5. Content'
  BY <1>2, <1>3, <1>4, SmallTypes DEF Content, SinkHolds, SmallHolds
<1> QED BY <1>2, <1>3, <1>5

LEMMA GrowRecycleSmallInv ==
  ASSUME Inv, GrowRecycleSmall
  PROVE  Content' /\ Calls' /\ Advance
<1>1. /\ pc = "grow" /\ threshold >= 0 /\ at < threshold /\ sink' = ChunkPartWritten
      /\ threshold' = threshold - at /\ area' = "small" /\ at' = 0 /\ to' = to
      /\ count' = count /\ pc' = "idle" /\ op' = op /\ op = "ensure"
      /\ rx' \in {"ok", "buffer_size_exceeded"}
  BY DEF GrowRecycleSmall, UseSmall, Return, SmallResult, chunk, Inv, Calls
<1>2. Content' /\ Stored' = count /\ Stored <= count
  BY <1>1, RecycleContent DEF Inv
<1>3. Calls'
  BY <1>1 DEF Calls, Synced, EosMeansFull
<1> QED
  BY <1>1, <1>2, <1>3, StoredTypes DEF Advance, Inv, Synced

LEMMA GrowNextChunkInv ==
  ASSUME Inv, GrowNextChunk
  PROVE  Content' /\ Calls' /\ Advance
<1>1. pc = "grow" /\ threshold >= 0 /\ at >= threshold /\ op = "ensure" /\ req <= ThresholdBound
  BY DEF GrowNextChunk, Inv, Calls
<1>2. CASE Undefined
  BY <1>1, <1>2, UndefinedStep
<1>3. CASE KeepOverlap /\ Return("supplier") /\ UNCHANGED <<count, op, req, left>>
  <2>1. pc' = "idle" /\ rx' = "supplier" /\ count' = count /\ op' = "ensure"
    BY <1>1, <1>3 DEF Return
  <2>2. Content' /\ Stored' = to
    BY <1>1, <1>3, KeepOverlapContent DEF Inv
  <2>3. Calls'
    BY <2>1 DEF Calls, Synced, EosMeansFull
  <2> QED
    BY <2>1, <2>2, <2>3, StoredTypes DEF Advance, Inv, Synced
<1>4. ASSUME NEW s \in Offered, TryMove(s), UNCHANGED <<count, op, req, left>>,
             IF ~MovedAll(s) /\ remaining' = 0
             THEN Return("end_of_stream")
             ELSE IF size' < req THEN UNCHANGED <<pc, rx>> ELSE Return("ok")
      PROVE  Content' /\ Calls' /\ Advance
  <2>1. /\ count' = count /\ op' = "ensure" /\ req' = req
        /\ \/ pc' = "idle" /\ rx' = "ok"
           \/ pc' = "idle" /\ rx' = "end_of_stream" /\ ~MovedAll(s) /\ remaining' = 0
           \/ pc' = "grow" /\ size' < req
    BY <1>1, <1>4 DEF Return
  <2>2. Content' /\ Stored' >= to /\ (~MovedAll(s) => count > to')
    BY <1>1, <1>4, <2>1, TryMoveContent DEF Inv
  <2>3. remaining' = StreamSize - to' /\ to' \in Nat
    BY <1>1, <1>4, TryMoveType DEF Inv
  <2>4. Calls'
    <3>1. (pc' = "idle" /\ rx' = "end_of_stream") => count' > StreamSize
      <4>1. remaining' = 0 => to' = StreamSize
        <5>1. StreamSize \in Nat
          BY SizesAssumption
        <5>2. \A b \in Nat : StreamSize - b = 0 => b = StreamSize
          BY <5>1
        <5> QED BY <2>3, <5>2
      <4> QED BY <2>1, <2>2, <4>1
    <3>2. pc' = "grow" => op' = "ensure" /\ size' < req' /\ req' <= ThresholdBound
      BY <1>1, <2>1
    <3>3. pc' \notin {"bulk", "copy"} /\ op' # "sync"
      BY <2>1
    <3> QED BY <3>1, <3>2, <3>3 DEF Calls, Synced, EosMeansFull
  <2>5. Stored' \in Int
    BY <2>2 DEF Content
  <2> QED
    BY <2>1, <2>2, <2>4, <2>5, SmallTypes, StoredTypes, <1>1 DEF Advance, Inv, Synced
<1> QED
  BY <1>2, <1>3, <1>4 DEF GrowNextChunk

LEMMA CommitInv ==
  ASSUME Inv, NEW n \in WriteSizes, Commit(n)
  PROVE  Content' /\ Calls' /\ Advance
<1>1. /\ pc = "idle" /\ n <= size /\ n \in Nat /\ pc' = "idle" /\ rx' = "ok"
      /\ op' = "commit" /\ at' = at + n /\ size' = size - n /\ count' = count + n
      /\ area' = area /\ to' = to /\ threshold' = threshold
  BY SizesAssumption DEF Commit, Return, chunk
<1>2. IF area = "small"
      THEN small' = Supplied(small, at, n) /\ UNCHANGED sink
      ELSE sink' = Supplied(sink, at, n) /\ UNCHANGED small
  BY DEF Commit
<1>3. Content' /\ Stored' >= Stored
  BY <1>1, <1>2, WriteContent DEF Inv
<1>4. Calls'
  BY <1>1 DEF Calls, Synced, EosMeansFull
<1> QED
  BY <1>1, <1>3, <1>4, StoredTypes DEF Advance, Inv, Synced

LEMMA BulkWriteInv ==
  ASSUME Inv, NEW n \in WriteSizes, BulkWrite(n)
  PROVE  Content' /\ Calls' /\ Advance
<1> DEFINE k == Lesser(n, size)
<1>1. /\ k \in Nat /\ k <= size
  BY SizesAssumption DEF Lesser, Inv, TypeInv, TypeOK
<1>2. /\ pc = "idle"
      /\ \/ pc' = "idle" /\ rx' = "ok"
         \/ pc' = "bulk"
      /\ op' = "bulk" /\ at' = at + k /\ size' = size - k /\ count' = count + k
      /\ area' = area /\ to' = to /\ threshold' = threshold
  BY DEF BulkWrite, Return, chunk
<1>3. IF area = "small"
      THEN small' = Supplied(small, at, k) /\ UNCHANGED sink
      ELSE sink' = Supplied(sink, at, k) /\ UNCHANGED small
  BY DEF BulkWrite
<1> HIDE DEF k
<1>4. Content' /\ Stored' >= Stored
  BY <1>1, <1>2, <1>3, WriteContent DEF Inv
<1>5. Calls'
  BY <1>2 DEF Calls, Synced, EosMeansFull
<1> QED
  BY <1>1, <1>2, <1>4, <1>5, StoredTypes DEF Advance, Inv, Synced

LEMMA BulkFlushSmallInv ==
  ASSUME Inv, BulkFlushSmall
  PROVE  Content' /\ Calls' /\ Advance
<1>1. /\ pc = "bulk" /\ threshold >= 0 /\ op = "bulk" /\ at = SmallSize
  BY DEF BulkFlushSmall, Inv, Calls, TypeInv, TypeOK, Shape
<1>2. CASE Undefined
  BY <1>1, <1>2, UndefinedStep
<1>3. CASE ~(threshold > SmallSize)
  <2>0. at >= threshold
    BY <1>1, <1>3, SmallTypes DEF Inv
  <2>1. CASE KeepOverlap /\ Return("supplier") /\ UNCHANGED <<count, op, req, left>>
    <3>1. pc' = "idle" /\ rx' = "supplier" /\ count' = count /\ op' = "bulk"
      BY <1>1, <2>1 DEF Return
    <3>2. Content' /\ Stored' = to
      BY <1>1, <2>0, <2>1, KeepOverlapContent DEF Inv
    <3>3. Calls'
      BY <3>1 DEF Calls, Synced, EosMeansFull
    <3> QED
      BY <3>1, <3>2, <3>3, StoredTypes DEF Advance, Inv, Synced
  <2>2. ASSUME NEW s \in Offered, NEW n, n = Lesser(Overlap, Span(s)),
               TakeChunk(s, n),
               sink' = Copied(ChunkPartWritten, to, small, threshold, n),
               IF MovedAll(s)
               THEN /\ threshold' = -1
                    /\ area' = "none" /\ at' = 0 /\ size' = 0
                    /\ pc' = "copy"
                    /\ UNCHANGED <<small, rx>>
               ELSE /\ MoveToFront(threshold + Span(s), Overlap - Span(s))
                    /\ Return("supplier"),
               UNCHANGED <<count, op, req, left>>
        PROVE  Content' /\ Calls' /\ Advance
    <3>1. /\ n \in Nat /\ n <= Span(s) /\ n <= Overlap /\ from' = to + n
          /\ to' \in Nat /\ from' <= to' /\ to' <= StreamSize
      BY <1>1, <2>0, <2>2, MovedType DEF Inv
    <3>2. /\ Overlap = at - threshold /\ count = to + Overlap /\ Overlap \in Nat
          /\ to \in Nat
      <4>1. /\ at \in Nat /\ threshold \in Nat /\ to \in Nat
            /\ count = (to - threshold) + at
        BY <1>1, SmallTypes DEF Inv, Content, Stored
      <4> QED BY <2>0, <4>1 DEF Overlap
    <3>3. Span(s) \in Nat
      BY SpanType DEF Inv
    <3>4. CASE MovedAll(s)
      <4>1. n = Overlap
        BY <2>2, <3>2, <3>3, <3>4 DEF Lesser, MovedAll
      <4>2. /\ threshold' = -1 /\ area' = "none" /\ size' = 0 /\ pc' = "copy"
            /\ op' = "bulk" /\ count' = count /\ count = to + n
        BY <1>1, <2>2, <3>2, <3>4, <4>1
      <4>3. Stored' = count /\ SinkHolds(sink', count) /\ count \in 0 .. StreamSize
        <5>1. SinkHolds(sink', to + n)
          BY <1>1, <2>0, <2>2, MovedHolds DEF Inv
        <5> QED BY <3>1, <3>2, <4>2, <5>1, SizesAssumption DEF Stored
      <4>4. Content'
        BY <3>1, <4>2, <4>3 DEF Content, SinkHolds
      <4>5. Calls'
        BY <4>2 DEF Calls, Synced, EosMeansFull
      <4> QED
        BY <4>2, <4>3, <4>4, <4>5, StoredTypes DEF Advance, Inv, Synced
    <3>5. CASE ~MovedAll(s)
      <4>1. n = Span(s) /\ n # Overlap
        BY <2>2, <3>2, <3>3, <3>5 DEF Lesser, MovedAll
      <4>2. TryMove(s)
        BY <2>2, <3>5, <4>1 DEF TryMove
      <4>3. pc' = "idle" /\ rx' = "supplier" /\ count' = count /\ op' = "bulk"
        BY <1>1, <2>2, <3>5 DEF Return
      <4>4. Content' /\ Stored' >= to
        BY <1>1, <2>0, <4>2, <4>3, TryMoveContent DEF Inv
      <4>5. Calls'
        BY <4>3 DEF Calls, Synced, EosMeansFull
      <4>6. Stored' \in Int
        BY <4>4 DEF Content
      <4> QED
        BY <3>2, <4>3, <4>4, <4>5, <4>6, StoredTypes DEF Advance, Inv, Synced
    <3> QED BY <3>4, <3>5
  <2> QED BY <1>3, <2>1, <2>2, <1>2 DEF BulkFlushSmall
<1> QED BY <1>2, <1>3 DEF BulkFlushSmall

LEMMA BulkAtSplitInv ==
  ASSUME Inv, BulkAtSplit
  PROVE  Content' /\ Calls' /\ Advance
<1>1. /\ pc = "bulk" /\ threshold < 0 /\ size = 0 /\ op = "bulk"
      /\ area' = area /\ size' = size /\ threshold' = threshold
      /\ sink' = sink /\ count' = count /\ op' = op
  BY DEF BulkAtSplit, base, Inv, Calls, TypeInv, Shape
<1>2. /\ threshold = -1 /\ area # "small" /\ count = to /\ Stored = count
      /\ SinkHolds(sink, count) /\ count \in 0 .. StreamSize /\ to \in Nat
  BY <1>1 DEF Inv, Content, Stored, TypeInv, TypeOK
<1>3. \/ pc' = "idle" /\ rx' = "supplier" /\ to' = to
      \/ pc' = "copy" /\ from' = to
  <2>1. CASE Return("supplier") /\ UNCHANGED chunk
    BY <2>1 DEF Return, chunk
  <2>2. ASSUME NEW s \in Offered, TakeChunk(s, 0), pc' = "copy"
        PROVE  pc' = "copy" /\ from' = to
    BY <1>2, <2>2 DEF TakeChunk
  <2> QED BY <2>1, <2>2 DEF BulkAtSplit
<1>4. Stored' = count
  BY <1>1, <1>2 DEF Stored
<1>5. Content'
  BY <1>1, <1>2, <1>3, <1>4 DEF Content, SinkHolds
<1>6. Calls'
  BY <1>1, <1>3 DEF Calls, Synced, EosMeansFull
<1> QED
  BY <1>1, <1>2, <1>4, <1>5, <1>6 DEF Advance, Synced

LEMMA BulkCopyInv ==
  ASSUME Inv, BulkCopy
  PROVE  Content' /\ Calls' /\ Advance
<1> DEFINE n == Lesser(left, to - from)
<1>1. /\ pc = "copy" /\ threshold = -1 /\ size = 0 /\ op = "bulk" /\ area # "small"
      /\ count = from /\ Stored = count /\ SinkHolds(sink, count)
      /\ from \in Nat /\ to \in Nat /\ from <= to /\ to <= StreamSize
      /\ count \in Nat /\ left \in Nat
      /\ sink \in [0 .. StreamSize - 1 -> Int] /\ StreamSize \in Nat
  BY SizesAssumption
  DEF BulkCopy, Inv, Content, Stored, Calls, TypeInv, TypeOK, Shape
<1>2. n \in Nat /\ n <= to - from
  BY <1>1 DEF Lesser
<1>3. /\ sink' = Supplied(sink, from, n) /\ count' = count + n
      /\ threshold' = threshold /\ op' = op
  BY DEF BulkCopy
<1>4. \/ /\ n = to - from /\ pc' = "idle" /\ rx' = "supplier"
         /\ area' = area /\ size' = size /\ to' = to
      \/ /\ from' = from + n /\ to' \in Nat
         /\ \/ /\ pc' = "idle" /\ rx' = "ok"
               /\ area' = "chunk" /\ at' = from' /\ size' = to' - from'
            \/ pc' = "copy" /\ area' = area /\ size' = size
  <2>1. CASE n = to - from /\ Return("supplier") /\ UNCHANGED <<base, chunk>>
    BY <2>1 DEF Return, base, chunk
  <2>2. ASSUME \/ n = to - from /\ \E s \in Offered : TakeChunk(s, 0)
               \/ n < to - from /\ from' = from + n /\ UNCHANGED <<to, remaining>>,
               IF left' = 0
               THEN area' = "chunk" /\ at' = from' /\ size' = to' - from' /\ Return("ok")
               ELSE UNCHANGED <<base, pc, rx>>
        PROVE  /\ from' = from + n /\ to' \in Nat
               /\ \/ /\ pc' = "idle" /\ rx' = "ok"
                     /\ area' = "chunk" /\ at' = from' /\ size' = to' - from'
                  \/ pc' = "copy" /\ area' = area /\ size' = size
    <3>1. from' = from + n /\ to' \in Nat
      <4>1. ASSUME n = to - from, NEW s \in Offered, TakeChunk(s, 0)
            PROVE  from' = from + n /\ to' \in Nat
        <5>1. from' = to + 0 /\ to' \in Nat
          BY <4>1, SpanType, TakeChunkType DEF Inv
        <5> QED BY <1>1, <4>1, <5>1
      <4> QED BY <1>1, <2>2, <4>1
    <3>2. \/ /\ pc' = "idle" /\ rx' = "ok"
             /\ area' = "chunk" /\ at' = from' /\ size' = to' - from'
          \/ pc' = "copy" /\ area' = area /\ size' = size
      BY <1>1, <2>2 DEF Return, base
    <3> QED BY <3>1, <3>2
  <2> QED BY <2>1, <2>2 DEF BulkCopy
<1> HIDE DEF n
<1>5. SinkHolds(sink', count + n) /\ count + n \in 0 .. StreamSize
  <2>1. count + n <= StreamSize /\ count + n \in 0 .. StreamSize
    BY <1>1, <1>2
  <2> QED BY <1>1, <1>2, <1>3, <2>1, SuppliedHolds
<1>6. Stored' = count + n
  BY <1>1, <1>3 DEF Stored
<1>7. /\ area' # "small"
      /\ IF pc' = "copy" THEN count' = from' ELSE count' + size' = to'
      /\ size' > 0 => area' = "chunk" /\ at' = count'
  BY <1>1, <1>2, <1>3, <1>4
<1>8. Content'
  BY <1>1, <1>3, <1>5, <1>6, <1>7 DEF Content, SinkHolds
<1>9. Calls'
  BY <1>1, <1>3, <1>4 DEF Calls, Synced, EosMeansFull
<1> QED
  BY <1>1, <1>2, <1>3, <1>6, <1>8, <1>9 DEF Advance, Synced

LEMMA SyncUnusedInv ==
  ASSUME Inv, SyncUnused
  PROVE  Content' /\ Calls' /\ Advance
<1>1. /\ area' = area /\ at' = at /\ size' = size /\ from' = from /\ to' = to
      /\ threshold' = threshold /\ small' = small /\ sink' = sink /\ count' = count
      /\ op' = "sync" /\ pc = "idle" /\ pc' = "idle" /\ rx' = "ok" /\ threshold < 0
  BY DEF SyncUnused, Return, base, chunk
<1>2. Stored' = Stored
  BY <1>1 DEF Stored
<1>3. Content'
  BY <1>1, <1>2 DEF Inv, Content, SinkHolds, SmallHolds
<1>4. Calls'
  BY <1>1 DEF Calls, Synced, EosMeansFull
<1> QED
  BY <1>1, <1>2, <1>3, <1>4, StoredTypes DEF Advance, Inv

LEMMA SyncIntoChunkInv ==
  ASSUME Inv, SyncIntoChunk
  PROVE  Content' /\ Calls' /\ Advance
<1>1. /\ pc = "idle" /\ threshold >= 0 /\ at <= threshold /\ op' = "sync"
      /\ pc' = "idle" /\ rx' = "ok" /\ sink' = ChunkPartWritten /\ to' = to
      /\ count' = count
  BY DEF SyncIntoChunk, Return, chunk
<1>2. CASE at = threshold
  <2>1. area' = "chunk" /\ at' = to /\ size' = 0 /\ threshold' = -1
    BY <1>2 DEF SyncIntoChunk
  <2>2. /\ SinkHolds(sink', to - threshold + at) /\ count = to - threshold + at
        /\ threshold \in Nat /\ to \in Nat /\ to <= StreamSize /\ StreamSize \in Nat
    BY <1>1, <1>2, ChunkPartHolds, SmallTypes DEF Inv, Content, Stored, Lesser
  <2>3. count = to /\ SinkHolds(sink', to) /\ count \in 0 .. StreamSize
    BY <1>2, <2>2
  <2>4. Stored' = to
    BY <1>1, <2>1, <2>3 DEF Stored
  <2>5. Content'
    BY <1>1, <2>1, <2>2, <2>3, <2>4 DEF Content, SinkHolds
  <2>6. Calls'
    BY <1>1, <2>1 DEF Calls, Synced, EosMeansFull
  <2> QED
    BY <1>1, <2>3, <2>4, <2>5, <2>6, StoredTypes DEF Advance, Inv
<1>3. CASE at # threshold
  <2>1. area' = "small" /\ at' = 0 /\ threshold' = threshold - at
    BY <1>3 DEF SyncIntoChunk, UseSmall
  <2>2. at < threshold
    BY <1>1, <1>3, SmallTypes DEF Inv
  <2>3. Content' /\ Stored' = count /\ Stored <= count
    BY <1>1, <2>1, <2>2, RecycleContent DEF Inv
  <2>4. Calls'
    BY <1>1, <2>1 DEF Calls, Synced, EosMeansFull
  <2> QED
    BY <1>1, <2>3, <2>4, StoredTypes DEF Advance, Inv
<1> QED BY <1>2, <1>3

LEMMA SyncIntoNextChunkInv ==
  ASSUME Inv, SyncIntoNextChunk
  PROVE  Content' /\ Calls' /\ Advance
<1>1. pc = "idle" /\ threshold >= 0 /\ at >= threshold
  BY DEF SyncIntoNextChunk, Inv, TypeInv, TypeOK
<1>2. CASE Undefined
  BY <1>1, <1>2, UndefinedStep
<1>3. CASE /\ KeepOverlap
           /\ op' = "sync" /\ Return("supplier")
           /\ UNCHANGED <<count, req, left>>
  <2>1. pc' = "idle" /\ rx' = "supplier" /\ count' = count
    BY <1>3 DEF Return
  <2>2. Content' /\ Stored' = to
    BY <1>1, <1>3, KeepOverlapContent DEF Inv
  <2>3. Calls'
    BY <2>1 DEF Calls, Synced, EosMeansFull
  <2> QED
    BY <2>1, <2>2, <2>3, StoredTypes DEF Advance, Inv, Synced
<1>4. ASSUME NEW s \in Offered, ~(s < Overlap), TryMove(s), op' = "sync",
             Return(IF MovedAll(s) THEN "ok" ELSE "end_of_stream"),
             UNCHANGED <<count, req, left>>
      PROVE  Content' /\ Calls' /\ Advance
  <2>1. /\ pc' = "idle" /\ count' = count
        /\ IF MovedAll(s) THEN rx' = "ok" ELSE rx' = "end_of_stream"
    BY <1>4 DEF Return
  <2>2. /\ Content' /\ Stored' >= to
        /\ (MovedAll(s) => threshold' = -1)
        /\ (~MovedAll(s) => count > to')
    BY <1>1, <1>4, <2>1, TryMoveContent DEF Inv
  <2>3. ~MovedAll(s) => to' = StreamSize
    <3>1. /\ s \in Nat /\ Span(s) \in Nat
          /\ Span(s) = s \/ Span(s) = remaining
      BY SpanType DEF Inv
    <3>2. Overlap \in Nat
      BY <1>1, SmallTypes DEF Inv, Overlap
    <3>3. ~MovedAll(s) => Span(s) = remaining
      BY <1>4, <3>1, <3>2 DEF MovedAll
    <3>4. to' = to + Span(s) /\ remaining = StreamSize - to
      BY <1>4 DEF TryMove, TakeChunk, Inv, TypeInv, Shape
    <3> QED
      BY <3>3, <3>4, SizesAssumption DEF Inv, TypeInv, TypeOK
  <2>4. Calls'
    <3>1. (pc' = "idle" /\ rx' = "end_of_stream") => count' > StreamSize
      BY <2>1, <2>2, <2>3
    <3>2. Synced' => threshold' < 0
      BY <2>1, <2>2 DEF Synced
    <3> QED
      BY <1>4, <2>1, <3>1, <3>2 DEF Calls, EosMeansFull
  <2>5. Stored' \in Int
    BY <2>2 DEF Content
  <2> QED
    BY <1>1, <2>1, <2>2, <2>4, <2>5, SmallTypes, StoredTypes DEF Advance, Inv
<1> QED
  BY <1>2, <1>3, <1>4 DEF SyncIntoNextChunk

LEMMA StutterInv ==
  ASSUME Inv, UNCHANGED vars
  PROVE  Content' /\ Calls' /\ UNCHANGED <<count, sink, Synced>>
<1>1. /\ area' = area /\ at' = at /\ size' = size /\ from' = from /\ to' = to
      /\ threshold' = threshold /\ small' = small /\ sink' = sink /\ count' = count
      /\ op' = op /\ pc' = pc /\ rx' = rx /\ req' = req
  BY DEF vars, base, chunk, call
<1>2. Stored' = Stored
  BY <1>1 DEF Stored
<1>3. Content'
  BY <1>1, <1>2 DEF Inv, Content, SinkHolds, SmallHolds
<1>4. Calls'
  BY <1>1 DEF Inv, Calls, Synced, EosMeansFull
<1> QED
  BY <1>1, <1>3, <1>4 DEF Synced

-----------------------------------------------------------------------------
(* The results.                                                            *)

LEMMA ActionInv ==
  ASSUME NoWrap, Inv, Next
  PROVE  Content' /\ Calls' /\ Advance
<1>1. ASSUME NEW n \in Requests, EnsureSize(n) PROVE Content' /\ Calls' /\ Advance
  BY <1>1, EnsureSizeInv
<1>2. ASSUME NEW n \in WriteSizes, Commit(n) \/ BulkWrite(n)
      PROVE  Content' /\ Calls' /\ Advance
  BY <1>2, CommitInv, BulkWriteInv
<1>3. CASE Grow
  BY <1>3, GrowAtSplitInv, GrowIntoSmallInv, GrowRecycleSmallInv, GrowNextChunkInv
  DEF Grow
<1>4. CASE Bulk
  BY <1>4, BulkFlushSmallInv, BulkAtSplitInv, BulkCopyInv DEF Bulk
<1>5. CASE SyncOutput
  BY <1>5, SyncUnusedInv, SyncIntoChunkInv, SyncIntoNextChunkInv DEF SyncOutput
<1> QED
  BY <1>1, <1>2, <1>3, <1>4, <1>5 DEF Next

LEMMA InvNext == NoWrap /\ Inv /\ [Next]_vars => Inv'
<1> SUFFICES ASSUME NoWrap, Inv, [Next]_vars PROVE Inv'
  OBVIOUS
<1>1. TypeInv'
  BY TypeInvNext DEF Inv
<1>2. Content' /\ Calls'
  BY ActionInv, StutterInv
<1> QED BY <1>1, <1>2 DEF Inv

LEMMA InvImplies == Inv => Faithful /\ SyncDurable /\ EosMeansFull
<1> SUFFICES ASSUME Inv PROVE Faithful /\ SyncDurable /\ EosMeansFull
  OBVIOUS
<1>1. /\ Stored \in Nat /\ Stored <= StreamSize /\ SinkHolds(sink, Stored)
      /\ Stored <= count /\ count \in Nat /\ StreamSize \in Nat
  BY StoredTypes, SizesAssumption DEF Inv, Content
<1>2. Faithful
  <2>1. ASSUME NEW p \in 0 .. count - 1
        PROVE  (p < StreamSize /\ sink[p] = p) \/ Waiting(p)
    <3>1. CASE p < Stored
      BY <1>1, <3>1 DEF SinkHolds
    <3>2. CASE p >= Stored
      <4>1. threshold >= 0
        BY <1>1, <3>2 DEF Stored, Inv, TypeInv, TypeOK
      <4>2. /\ area = "small" /\ Stored = to - threshold /\ count = Stored + at
            /\ SmallHolds(small, Stored, at) /\ at \in Nat
        BY <4>1, SmallTypes DEF Inv, Content, Stored
      <4>3. p - Stored \in 0 .. at - 1
        BY <1>1, <3>2, <4>2
      <4>4. small[p - Stored] = Stored + (p - Stored)
        BY <4>2, <4>3 DEF SmallHolds
      <4>5. Stored + (p - Stored) = p
        BY <1>1
      <4> QED
        BY <4>1, <4>2, <4>3, <4>4, <4>5 DEF Waiting
    <3> QED BY <1>1, <3>1, <3>2
  <2>2. ASSUME NEW p \in 0 .. StreamSize - 1
        PROVE  sink[p] = Hole \/ (sink[p] = p /\ p < count)
    BY <1>1 DEF SinkHolds
  <2> QED BY <2>1, <2>2 DEF Faithful
<1>3. SyncDurable
  <2> SUFFICES ASSUME Synced, NEW p \in 0 .. count - 1
               PROVE  p < StreamSize /\ sink[p] = p
    BY DEF SyncDurable
  <2>1. Stored = count
    <3>1. threshold < 0 \/ at = 0
      BY DEF Inv, Calls
    <3>2. CASE threshold < 0
      BY <3>2 DEF Stored
    <3>3. CASE threshold >= 0 /\ at = 0
      BY <1>1, <3>3 DEF Inv, Content
    <3> QED BY <3>1, <3>2, <3>3 DEF Inv, TypeInv, TypeOK
  <2> QED BY <1>1, <2>1 DEF SinkHolds
<1> QED BY <1>2, <1>3 DEF Inv, Calls

(* No byte is lost, duplicated or misplaced for any stream, any supplier   *)
(* and any caller whose requests do not make mDecomissionThreshold wrap.   *)
THEOREM FaithfulOutput == ASSUME NoWrap PROVE Spec => []Faithful
<1>1. Inv /\ [Next]_vars => Inv'
  BY InvNext
<1> QED
  BY InvInit, <1>1, InvImplies, PTL DEF Spec

(* A successful sync_output() leaves no byte behind.                       *)
THEOREM DurableSync == ASSUME NoWrap PROVE Spec => []SyncDurable
<1>1. Inv /\ [Next]_vars => Inv'
  BY InvNext
<1> QED
  BY InvInit, <1>1, InvImplies, PTL DEF Spec

(* end_of_stream is never reported to a caller whose bytes would all fit.  *)
THEOREM EndOfStreamIsTheEnd == ASSUME NoWrap PROVE Spec => []EosMeansFull
<1>1. Inv /\ [Next]_vars => Inv'
  BY InvNext
<1> QED
  BY InvInit, <1>1, InvImplies, PTL DEF Spec

(* GrantedOrAtEnd with what makes it inductive: which call is in progress  *)
Granting ==
  /\ pc \in {"bulk", "copy"} => op = "bulk"
  /\ GrantedOrAtEnd

(* Only ensure_size() can succeed as an ensure_size().                     *)
LEMMA GrantingElsewhere ==
  ASSUME Granting, Bulk \/ SyncOutput \/ \E n \in WriteSizes : Commit(n) \/ BulkWrite(n)
  PROVE  Granting'
<1>1. CASE Bulk
  BY <1>1 DEF Bulk, BulkFlushSmall, BulkAtSplit, BulkCopy, Undefined, Return, call,
     Granting, GrantedOrAtEnd
<1>2. CASE SyncOutput
  BY <1>2 DEF SyncOutput, SyncUnused, SyncIntoChunk, SyncIntoNextChunk, Undefined, Return,
     Granting, GrantedOrAtEnd
<1>3. CASE \E n \in WriteSizes : Commit(n) \/ BulkWrite(n)
  BY <1>3 DEF Commit, BulkWrite, Return, Granting, GrantedOrAtEnd
<1> QED BY <1>1, <1>2, <1>3

LEMMA GrantingGrow ==
  ASSUME Inv, Granting, Grow
  PROVE  Granting'
<1>1. /\ req \in Nat /\ SmallSize \in Nat /\ remaining \in Nat /\ req' = req /\ op' = op
      /\ pc = "grow"
  BY SmallSizeType
  DEF Inv, TypeInv, TypeOK, Grow, GrowAtSplit, GrowIntoSmall, GrowRecycleSmall, GrowNextChunk,
      Undefined
<1>2. CASE GrowAtSplit
  <2>1. CASE Return("supplier")
    BY <1>1, <2>1 DEF Return, Granting, GrantedOrAtEnd
  <2>2. ASSUME NEW s \in Offered, TakeChunk(s, 0), area' = "chunk", size' = Span(s),
               Return("ok")
        PROVE  Granting'
    <3>1. s \in ChunkSizes
      BY DEF Offered
    <3>2. Span(s) = s \/ Span(s) = remaining
      BY SpanType DEF Inv
    <3>3. remaining = StreamSize - count'
      <4>1. /\ remaining = StreamSize - to /\ count \in Nat /\ to \in Nat
        BY DEF Inv, TypeInv, TypeOK, Shape
      <4>2. size = 0 /\ threshold < 0 /\ count' = count
        BY <1>2 DEF GrowAtSplit
      <4>3. count + size = to
        BY <1>1, <4>2 DEF Inv, Content
      <4> QED BY <4>1, <4>2, <4>3
    <3>4. (\A c \in ChunkSizes : req <= c) => size' >= req' \/ size' = StreamSize - count'
      <4>1. s \in Nat
        BY SpanType DEF Inv
      <4> QED BY <1>1, <2>2, <3>1, <3>2, <3>3, <4>1
    <3> QED BY <1>1, <2>2, <3>4 DEF Return, Granting, GrantedOrAtEnd
  <2> QED BY <1>2, <2>1, <2>2 DEF GrowAtSplit
<1>3. CASE GrowIntoSmall \/ GrowRecycleSmall
  <2>1. size' = SmallSize /\ Return(SmallResult)
    BY <1>1, <1>3 DEF GrowIntoSmall, GrowRecycleSmall, UseSmall
  <2>2. rx' = "ok" => size' >= req'
    BY <1>1, <2>1 DEF SmallResult, Return
  <2> QED BY <1>1, <2>1, <2>2 DEF Return, Granting, GrantedOrAtEnd
<1>4. CASE GrowNextChunk
  <2>1. \/ pc' # "idle" /\ pc' \notin {"bulk", "copy"}
        \/ pc' = "idle" /\ rx' # "ok"
        \/ pc' = "idle" /\ ~(size' < req)
    BY <1>1, <1>4 DEF GrowNextChunk, Undefined, Return
  <2>2. size' \in Nat
    BY <1>4, TypeInvNext DEF Next, Grow, Inv, TypeInv, TypeOK
  <2> QED BY <1>1, <2>1, <2>2 DEF Granting, GrantedOrAtEnd
<1> QED BY <1>2, <1>3, <1>4 DEF Grow

LEMMA GrantingNext == Inv /\ Granting /\ [Next]_vars => Granting'
<1> SUFFICES ASSUME Inv, Granting, [Next]_vars PROVE Granting'
  OBVIOUS
<1>1. CASE UNCHANGED vars
  BY <1>1 DEF vars, base, chunk, call, Granting, GrantedOrAtEnd
<1>2. CASE \E n \in Requests : EnsureSize(n)
  <2>1. PICK n \in Requests : EnsureSize(n)
    BY <1>2
  <2>2. n \in Nat /\ size \in Nat
    BY SizesAssumption DEF Inv, TypeInv, TypeOK
  <2>3. req' = n /\ size' = size
    BY <2>1 DEF EnsureSize, base
  <2>4. pc' = "grow" \/ (pc' = "idle" /\ size >= n)
    BY <2>1, <2>2 DEF EnsureSize, Return
  <2> QED BY <2>2, <2>3, <2>4 DEF Granting, GrantedOrAtEnd
<1>3. CASE Grow
  BY <1>3, GrantingGrow
<1>4. CASE Bulk \/ SyncOutput \/ \E n \in WriteSizes : Commit(n) \/ BulkWrite(n)
  BY <1>4, GrantingElsewhere
<1> QED BY <1>1, <1>2, <1>3, <1>4 DEF Next

(* Without wraparound, and without a chunk smaller than the request, a     *)
(* successful ensure_size() has given the caller its space or all that the *)
(* stream has left.                                                        *)
THEOREM GrantedIsThere == ASSUME NoWrap PROVE Spec => []GrantedOrAtEnd
<1>1. Init => Granting
  BY DEF Init, Granting, GrantedOrAtEnd
<1>2. Granting => GrantedOrAtEnd
  BY DEF Granting
<1>3. Inv /\ [Next]_vars => Inv'
  BY InvNext
<1> QED
  BY InvInit, GrantingNext, <1>1, <1>2, <1>3, PTL DEF Spec

(* What the chunks hold, as the abstract sink sees it.                     *)
StoredSet == {p \in DOMAIN sink : sink[p] = p}

Mapped ==
  /\ StoredSet = 0 .. Stored - 1
  /\ Stored \in Nat /\ count \in Nat /\ Stored <= count
  /\ Synced => Stored = count

LEMMA InvMapped == Inv => Mapped
<1> SUFFICES ASSUME Inv PROVE Mapped
  OBVIOUS
<1>1. /\ Stored \in Nat /\ Stored <= StreamSize /\ SinkHolds(sink, Stored)
      /\ DOMAIN sink = 0 .. StreamSize - 1 /\ StreamSize \in Nat
      /\ count \in Nat /\ Stored <= count
  BY StoredTypes, SizesAssumption DEF Inv, Content, TypeInv, TypeOK
<1>2. ASSUME NEW p \in 0 .. StreamSize - 1 PROVE sink[p] = p <=> p < Stored
  BY <1>1 DEF SinkHolds, Hole
<1>3. StoredSet = 0 .. Stored - 1
  BY <1>1, <1>2 DEF StoredSet
<1>4. Synced => Stored = count
  <2>1. Synced => threshold < 0 \/ at = 0
    BY DEF Inv, Calls
  <2>2. threshold >= 0 => count = Stored + at
    BY DEF Inv, Content
  <2>3. threshold < 0 => Stored = count
    BY DEF Stored
  <2> QED BY <1>1, <2>1, <2>2, <2>3 DEF Inv, TypeInv, TypeOK
<1> QED BY <1>1, <1>3, <1>4 DEF Mapped

LEMMA SinkInit == Init => Sink!Init
<1> SUFFICES ASSUME Init PROVE Sink!Init
  OBVIOUS
<1>1. {p \in DOMAIN sink : sink[p] = p} = {}
  BY DEF Init, Hole
<1> QED
  BY <1>1 DEF Init, Sink!Init, Synced

LEMMA SinkNext ==
  NoWrap /\ Inv /\ Mapped /\ Mapped' /\ [Next]_vars => [Sink!Next]_(Sink!vars)
<1> SUFFICES ASSUME NoWrap, Inv, Mapped, Mapped', [Next]_vars
             PROVE  [Sink!Next]_(Sink!vars)
  OBVIOUS
<1>1. CASE UNCHANGED vars
  BY <1>1, StutterInv DEF Sink!vars
<1>2. CASE Next
  <2>1. Advance
    BY <1>2, ActionInv
  <2>2. CASE Synced'
    BY <2>1, <2>2 DEF Sink!Next, Sink!Sync, Advance, Mapped, StoredSet
  <2>3. CASE ~Synced'
    <3>1. StoredSet' = 0 .. Stored' - 1 /\ Stored' \in 0 .. count'
      BY DEF Mapped
    <3>2. StoredSet \subseteq StoredSet'
      <4>1. /\ StoredSet = 0 .. Stored - 1 /\ StoredSet' = 0 .. Stored' - 1
            /\ Stored \in Nat /\ Stored' \in Nat /\ Stored' >= Stored
        BY <2>1 DEF Mapped, Advance
      <4>2. \A a, b \in Nat : b >= a => (0 .. a - 1) \subseteq (0 .. b - 1)
        OBVIOUS
      <4> QED BY <4>1, <4>2
    <3>3. count' \in Nat /\ count' >= count
      BY <2>1 DEF Mapped, Advance
    <3> QED
      BY <2>3, <3>1, <3>2, <3>3 DEF Sink!Next, Sink!Progress, StoredSet
  <2> QED BY <2>2, <2>3
<1> QED BY <1>1, <1>2

(* The buffered stream implements the abstract append-only sink.           *)
THEOREM OutputIsAByteSink == ASSUME NoWrap PROVE Spec => ImplementsByteSink
<1>1. Inv /\ [Next]_vars => Inv'
  BY InvNext
<1>2. Inv /\ Mapped /\ Mapped' /\ [Next]_vars => [Sink!Next]_(Sink!vars)
  BY SinkNext
<1> QED
  BY InvInit, InvMapped, SinkInit, <1>1, <1>2, PTL DEF Spec, ImplementsByteSink, Sink!Spec
=============================================================================
