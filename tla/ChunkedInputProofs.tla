------------------------- MODULE ChunkedInputProofs -------------------------
(***************************************************************************)
(* Proofs about ChunkedInput, for every size of the stream, of its chunks, *)
(* of the small buffer and of the calls' arguments.                        *)
(***************************************************************************)
EXTENDS ChunkedInput, TLAPS

(* What the code needs of its users to be right.  The caller does not go   *)
(* on after a fusion that failed.  It discards more than the buffer holds  *)
(* only when the buffer is empty and the small buffer is not in use; the   *)
(* library's own skip_item does not keep to that.  The supplier has the    *)
(* stream's bytes and no more.                                             *)
Disciplined == ~RetryTorn /\ ~DiscardPast /\ SupplySize = StreamSize

(* mInputSize is what the caller has not consumed, and chunks are never    *)
(* trimmed.                                                                *)
Account ==
  /\ inputSize = StreamSize - pos
  /\ pos <= supplied /\ to = supplied

(* Where the window is.  Without the small buffer it is the end of the     *)
(* chunk; in the small buffer the byte at start is the first of mReadArea, *)
(* all of which remains.                                                   *)
Placed ==
  /\ start < 0 =>
       /\ start = -1 /\ area # "small" /\ first <= pos
       /\ area = "chunk" => at = pos
       /\ area = "none" => size = 0
       /\ IF pc = "reset" THEN pos = from ELSE pos + size = to
  /\ start >= 0 =>
       /\ area = "small" /\ from = first /\ from + at = pos + start
       /\ start <= at + size /\ at + size <= start + (to - from)

(* What the small buffer shows                                             *)
Shown == area = "small" => \A j \in 0 .. size - 1 : small[at + j] = pos + j

(* A call in progress, and how far it is                                   *)
Consuming == pc \in {"discard", "bulk", "again", "reset"}

Calls ==
  /\ torn => pc = "idle" /\ area = "small"
  /\ pc = "require" => /\ op = "require" /\ asked \in Requests /\ origin = pos
                       /\ size < asked /\ asked <= inputSize
  /\ pc # "undefined"
  /\ Consuming =>
       /\ origin <= pos /\ pos + left = origin + asked /\ origin + asked <= StreamSize
       /\ \/ op = "discard" /\ asked \in Discards /\ pc \in {"discard", "reset"}
          \/ op = "bulk" /\ asked \in Reads /\ pc # "discard"
  /\ pc \in {"discard", "bulk", "reset"} => size = 0
  /\ pc \in {"discard", "again", "reset"} => start < 0
  /\ pc \in {"discard", "reset"} => area = "none"
  /\ pc = "again" => area = "chunk"
  /\ pc \in {"discard", "bulk"} => left > 0
  /\ pc = "reset" => left = 0

(* What a bulk_read() has delivered so far                                 *)
Delivered ==
  /\ \A j \in DOMAIN dest : dest[j] = origin + j - 1
  /\ pc \in {"bulk", "again"} => pos = origin + Len(dest)

Inv ==
  /\ TypeOK
  /\ Account
  /\ ~torn => Placed
  /\ Shown /\ Calls /\ Delivered
  /\ EosHonest /\ RequireDelivers

-----------------------------------------------------------------------------
(* Facts about the building blocks                                         *)

LEMMA SmallSizeType == SmallSize \in Nat /\ SmallSize >= 2
BY InputAssumption DEF SmallSize

LEMMA ModWord == \A x \in Nat : x < Word => x % Word = x
<1>1. \A w \in Nat, x \in Nat : x < w => x % w = x
  OBVIOUS
<1> QED BY <1>1, InputAssumption

LEMMA LesserType ==
  ASSUME NEW a \in Int, NEW b \in Int
  PROVE  (a <= b /\ Lesser(a, b) = a) \/ (b <= a /\ Lesser(a, b) = b)
BY DEF Lesser

LEMMA StreamType ==
  /\ SupplySize \in Nat /\ Stream \in [0 .. SupplySize - 1 -> Nat]
  /\ \A p \in 0 .. SupplySize - 1 : Stream[p] = p
BY InputAssumption DEF Stream

(* The numbers of the state                                                *)
LEMMA Numbers ==
  ASSUME Disciplined, Inv
  PROVE  /\ at \in Nat /\ size \in Nat /\ inputSize \in Nat /\ inputSize < Word
         /\ first \in Nat /\ from \in Nat /\ to \in Nat /\ supplied \in Nat
         /\ first <= from /\ from <= to /\ to = supplied /\ supplied <= StreamSize
         /\ pos \in Nat /\ pos <= supplied /\ inputSize = StreamSize - pos
         /\ start \in Int /\ start >= -1 /\ start <= SmallSize
         /\ origin \in Nat /\ asked \in Nat /\ left \in Nat
         /\ StreamSize \in Nat /\ SupplySize = StreamSize
         /\ Word \in Nat /\ StreamSize < Word
         /\ SmallSize \in Nat /\ SmallSize >= 2
         /\ small \in [0 .. SmallSize - 1 -> Nat]
BY InputAssumption, SmallSizeType DEF Disciplined, Inv, TypeOK, Account

LEMMA OfferedType ==
  ASSUME Disciplined, Inv, NEW s \in Offered
  PROVE  /\ s \in Nat /\ s > 0 /\ supplied + s <= StreamSize
         /\ Trimmed(s) = s
<1>1. PICK c \in ChunkSizes : s = Lesser(c, SupplySize - supplied)
  BY DEF Offered
<1>2. c \in Nat /\ c > 0 /\ s # 0
  BY InputAssumption DEF Offered
<1>3. /\ supplied \in Nat /\ StreamSize \in Nat /\ supplied <= StreamSize
      /\ SupplySize = StreamSize /\ pos \in Nat /\ pos <= supplied
      /\ inputSize = StreamSize - pos
  BY Numbers
<1>4. s = c \/ s = SupplySize - supplied
  BY <1>1 DEF Lesser
<1>5. c <= SupplySize - supplied \/ s = SupplySize - supplied
  BY <1>1, <1>2, <1>3 DEF Lesser
<1>6. s \in Nat /\ s > 0 /\ supplied + s <= StreamSize
  BY <1>2, <1>3, <1>4, <1>5
<1>7. Lesser(s, inputSize) = s
  BY <1>3, <1>6, LesserType
<1> QED BY <1>7, <1>6 DEF Trimmed

(* A chunk is acquired.                                                    *)
LEMMA AcquireType ==
  ASSUME Disciplined, Inv, NEW s \in Offered, NEW k \in Nat, k <= s, Acquire(s, k)
  PROVE  /\ first' = supplied /\ from' = supplied + k /\ to' = supplied + s
         /\ supplied' = supplied + s /\ supplied' <= StreamSize
         /\ s \in Nat /\ s > 0 /\ Trimmed(s) = s
BY OfferedType DEF Acquire

LEMMA InvInit == Disciplined /\ Init => Inv
<1> SUFFICES ASSUME Disciplined, Init PROVE Inv
  OBVIOUS
<1>1. PICK n \in {0} \union {Lesser(s, StreamSize) : s \in ChunkSizes} :
        first = 0 /\ from = 0 /\ to = n /\ size = n /\ supplied = n
  BY DEF Init
<1>2. n \in Nat /\ n <= StreamSize /\ StreamSize \in Nat /\ StreamSize = SupplySize
  <2>1. StreamSize \in Nat /\ StreamSize = SupplySize /\ ChunkSizes \subseteq Nat
    BY InputAssumption DEF Disciplined
  <2>2. ASSUME NEW c \in ChunkSizes
        PROVE  Lesser(c, StreamSize) \in Nat /\ Lesser(c, StreamSize) <= StreamSize
    BY <2>1, LesserType
  <2> QED BY <2>1, <2>2
<1>3. TypeOK
  <2>1. small \in [0 .. SmallSize - 1 -> Nat] /\ -1 \in -1 .. SmallSize
        /\ StreamSize \in 0 .. Word - 1
    BY <1>2, InputAssumption, SmallSizeType DEF Init
  <2>2. <<>> \in Seq(Nat)
    OBVIOUS
  <2>3. area = "chunk" /\ at = 0 /\ inputSize = StreamSize /\ start = -1 /\ pos = 0
        /\ origin = 0 /\ dest = <<>> /\ pc = "idle" /\ op = "none" /\ asked = 0
        /\ left = 0 /\ rx = "ok" /\ torn = FALSE
    BY DEF Init
  <2>4. /\ first <= from /\ from <= to /\ to <= supplied /\ supplied <= SupplySize
        /\ first \in Nat /\ from \in Nat /\ to \in Nat /\ supplied \in Nat
        /\ size \in Nat
    BY <1>1, <1>2
  <2> QED
    BY <2>1, <2>2, <2>3, <2>4 DEF TypeOK
<1>4. Account
  BY <1>1, <1>2 DEF Init, Account
<1> QED
  BY <1>1, <1>2, <1>3, <1>4 DEF Inv, Init, Placed, Shown, Calls, Consuming, Delivered,
     EosHonest, RequireDelivers

(* What memcpy leaves in the small buffer: bytes moved to its front, and   *)
(* bytes of the chunks appended to those that are there.                   *)
LEMMA MovedHolds ==
  ASSUME Disciplined, Inv, NEW k \in Nat, at + k <= SmallSize,
         \A j \in 0 .. k - 1 : small[at + j] = pos + j
  PROVE  /\ Copied(small, 0, small, at, k) \in [0 .. SmallSize - 1 -> Nat]
         /\ \A j \in 0 .. k - 1 : Copied(small, 0, small, at, k)[j] = pos + j
<1> DEFINE c == Copied(small, 0, small, at, k)
<1>1. /\ SmallSize \in Nat /\ small \in [0 .. SmallSize - 1 -> Nat]
      /\ at \in Nat /\ pos \in Nat
  BY Numbers
<1>2. c = [i \in 0 .. SmallSize - 1 |->
             IF i \in 0 .. k - 1 THEN small[i + at] ELSE small[i]]
  <2>1. /\ DOMAIN small = 0 .. SmallSize - 1 /\ 0 + k - 1 = k - 1
        /\ \A i \in 0 .. SmallSize - 1 : i - 0 + at = i + at
    BY <1>1
  <2> QED BY <2>1 DEF Copied
<1> HIDE DEF c
<1>3. ASSUME NEW i \in 0 .. SmallSize - 1
      PROVE  (IF i \in 0 .. k - 1 THEN small[i + at] ELSE small[i]) \in Nat
  BY <1>1
<1>4. ASSUME NEW j \in 0 .. k - 1 PROVE c[j] = pos + j
  <2>1. j \in 0 .. SmallSize - 1 /\ j + at = at + j
    BY <1>1
  <2> QED BY <1>2, <2>1
<1>5. c \in [0 .. SmallSize - 1 -> Nat]
  BY <1>2, <1>3
<1> QED BY <1>4, <1>5 DEF c

LEMMA AppendedHolds ==
  ASSUME Disciplined, Inv, NEW mem \in [0 .. SmallSize - 1 -> Nat],
         NEW k \in Nat, NEW n \in Nat, NEW q \in Nat, q = pos + k,
         k + n <= SmallSize, q + n <= SupplySize,
         \A j \in 0 .. k - 1 : mem[j] = pos + j
  PROVE  /\ Copied(mem, k, Stream, q, n) \in [0 .. SmallSize - 1 -> Nat]
         /\ \A j \in 0 .. k + n - 1 : Copied(mem, k, Stream, q, n)[j] = pos + j
<1> DEFINE c == Copied(mem, k, Stream, q, n)
<1>1. c = [i \in 0 .. SmallSize - 1 |->
             IF i \in k .. k + n - 1 THEN Stream[i - k + q] ELSE mem[i]]
  BY DEF Copied
<1> HIDE DEF c
<1>2. SmallSize \in Nat /\ pos \in Nat /\ SupplySize \in Nat
  BY Numbers
<1>3. ASSUME NEW i \in k .. k + n - 1
      PROVE  Stream[i - k + q] = pos + i /\ pos + i \in Nat
  <2>1. i - k + q = pos + i /\ pos + i \in 0 .. SupplySize - 1
    BY <1>2
  <2> QED BY <2>1, StreamType
<1>4. ASSUME NEW j \in 0 .. k + n - 1 PROVE c[j] = pos + j
  <2>1. j \in 0 .. SmallSize - 1
    BY <1>2
  <2>2. CASE j < k
    <3>1. j \notin k .. k + n - 1 /\ j \in 0 .. k - 1
      BY <2>2
    <3> QED BY <1>1, <2>1, <3>1
  <2>3. CASE j >= k
    <3>1. j \in k .. k + n - 1
      BY <2>3
    <3> QED BY <1>1, <1>3, <2>1, <3>1
  <2> QED BY <2>2, <2>3
<1>5. c \in [0 .. SmallSize - 1 -> Nat]
  <2>1. ASSUME NEW i \in 0 .. SmallSize - 1
        PROVE  (IF i \in k .. k + n - 1 THEN Stream[i - k + q] ELSE mem[i]) \in Nat
    <3> DEFINE b == IF i \in k .. k + n - 1 THEN Stream[i - k + q] ELSE mem[i]
    <3>1. CASE i \in k .. k + n - 1
      <4>1. b = Stream[i - k + q]
        BY <3>1
      <4> QED BY <1>3, <3>1, <4>1
    <3>2. CASE i \notin k .. k + n - 1
      <4>1. b = mem[i] /\ mem[i] \in Nat
        BY <3>2
      <4> QED BY <4>1
    <3> QED BY <3>1, <3>2
  <2> QED BY <1>1, <2>1
<1> QED BY <1>4, <1>5 DEF c

(* The buffer's bytes are those that follow the consumed ones, and there   *)
(* are no more of them than the stream has left.                           *)
LEMMA WindowHolds ==
  ASSUME Disciplined, Inv, Placed, pc # "reset"
  PROVE  /\ pos + size <= to
         /\ \A i \in 0 .. size - 1 : View(i) = pos + i
<1>1. /\ pos \in Nat /\ size \in Nat /\ to \in Nat /\ from \in Nat /\ at \in Nat
      /\ start \in Int
  BY Numbers
<1>2. pos + size <= to
  BY <1>1 DEF Placed
<1>3. ASSUME NEW i \in 0 .. size - 1 PROVE View(i) = pos + i
  <2>1. CASE area = "small"
    BY <2>1 DEF View, Inv, Shown
  <2>2. CASE area = "chunk"
    BY <1>1, <2>2 DEF View, Placed
  <2>3. CASE area = "none"
    BY <1>1, <2>3 DEF Placed
  <2> QED BY <2>1, <2>2, <2>3 DEF Inv, TypeOK
<1> QED BY <1>2, <1>3

-----------------------------------------------------------------------------
(* require_input()                                                         *)

LEMMA RequireInputInv ==
  ASSUME Disciplined, Inv, NEW n \in Requests, RequireInput(n)
  PROVE  Inv'
<1> USE DEF RequireInput, Ready, Return, Goto, window, chunk
<1>1. ~torn /\ pc = "idle" /\ ~torn'
  BY DEF Disciplined
<1>2. n \in Nat
  BY InputAssumption
<1>3. TypeOK'
  BY <1>2 DEF Inv, TypeOK
<1>4. Account' /\ Placed' /\ Shown'
  BY <1>1 DEF Inv, Account, Placed, Shown
<1>5. /\ pc' = "idle" \/ (pc' = "require" /\ n <= inputSize /\ size < n)
      /\ op' = "require" /\ asked' = n /\ origin' = pos /\ dest' = <<>>
  BY Numbers, <1>1, <1>2
<1>6. Calls' /\ Delivered'
  BY <1>1, <1>2, <1>5, Numbers DEF Inv, Calls, Consuming, Delivered
<1>7. EosHonest' /\ RequireDelivers'
  BY <1>1, <1>2, Numbers DEF EosHonest, RequireDelivers
<1> QED BY <1>3, <1>4, <1>7, <1>6 DEF Inv

(* However an iteration of do_require_input ends, the call is as far as it *)
(* says.                                                                   *)
LEMMA RequireProgress ==
  ASSUME Disciplined, Inv, pc = "require", size' \in Nat,
         UNCHANGED <<inputSize, pos, origin, dest, op, asked, left>>,
         torn' => pc' = "idle" /\ area' = "small",
         \/ RequireAgain
         \/ Return("supplier")
         \/ Return("buffer_size_exceeded")
         \/ Return("ok") /\ asked <= size'
  PROVE  /\ Calls' /\ Delivered' /\ EosHonest' /\ RequireDelivers'
         /\ pc' \in {"idle", "require"}
         /\ rx' \in {"ok", "supplier", "end_of_stream", "buffer_size_exceeded"}
<1>1. /\ op = "require" /\ asked \in Requests /\ origin = pos
      /\ asked \in Nat /\ inputSize \in Nat /\ inputSize = StreamSize - pos
      /\ StreamSize \in Nat /\ pos \in Nat
      /\ rx \in {"ok", "supplier", "end_of_stream", "buffer_size_exceeded"}
  BY Numbers DEF Inv, Calls, TypeOK
<1>2. \/ pc' = "require" /\ rx' = rx /\ size' < asked /\ asked <= inputSize
      \/ pc' = "idle" /\ rx' = "end_of_stream" /\ asked > inputSize
      \/ pc' = "idle" /\ rx' \in {"supplier", "buffer_size_exceeded"}
      \/ pc' = "idle" /\ rx' = "ok" /\ asked <= size'
  BY <1>1 DEF RequireAgain, Return, Goto
<1>3. Calls'
  BY <1>1, <1>2 DEF Calls, Consuming
<1>4. Delivered'
  BY <1>2 DEF Inv, Delivered
<1>5. EosHonest' /\ RequireDelivers'
  BY <1>1, <1>2 DEF EosHonest, RequireDelivers
<1> QED BY <1>1, <1>2, <1>3, <1>4, <1>5

(* What such an iteration leaves of the type invariant to be shown         *)
LEMMA RequireType ==
  ASSUME Inv, UNCHANGED <<inputSize, pos, origin, dest, op, asked, left>>,
         pc' \in {"idle", "require"},
         rx' \in {"ok", "supplier", "end_of_stream", "buffer_size_exceeded"},
         area' \in {"chunk", "small", "none"}, at' \in Nat, size' \in Nat,
         first' \in Nat, from' \in Nat, to' \in Nat, supplied' \in Nat,
         first' <= from', from' <= to', to' <= supplied', supplied' <= SupplySize,
         start' \in Int, start' >= -1, start' <= SmallSize,
         small' \in [0 .. SmallSize - 1 -> Nat],
         area' = "small" => at' + size' <= SmallSize,
         torn' \in BOOLEAN
  PROVE  TypeOK'
<1>1. /\ inputSize' \in 0 .. Word - 1 /\ pos' \in Nat /\ origin' \in Nat
      /\ dest' \in Seq(Nat) /\ asked' \in Nat /\ left' \in Nat
      /\ op' \in {"none", "require", "discard", "bulk"}
  BY DEF Inv, TypeOK
<1>2. start' \in -1 .. SmallSize
  BY SmallSizeType
<1>3. pc' \in {"idle", "require", "discard", "bulk", "again", "reset", "undefined"}
  OBVIOUS
<1> QED BY <1>1, <1>2, <1>3 DEF TypeOK

LEMMA RequireAtSplitInv ==
  ASSUME Disciplined, Inv, RequireAtSplit
  PROVE  Inv'
<1> USE DEF RequireAtSplit, window, chunk, SupplierFails
<1>1. ~torn /\ pc = "require" /\ start = -1 /\ size = 0 /\ Placed
  BY DEF Inv, Calls, Placed
<1>2. CASE SupplierFails /\ UNCHANGED window
  <2>1. /\ Calls' /\ Delivered' /\ EosHonest' /\ RequireDelivers'
        /\ pc' = "idle" /\ rx' = "supplier" /\ ~torn'
    BY <1>1, <1>2, RequireProgress, Numbers DEF Return
  <2>2. TypeOK'
    BY <1>2, <2>1 DEF Inv, TypeOK
  <2>3. Account' /\ Placed' /\ Shown'
    BY <1>1, <1>2, <2>1 DEF Inv, Account, Placed, Shown
  <2> QED BY <2>1, <2>2, <2>3 DEF Inv
<1>3. ASSUME NEW s \in Offered, Acquire(s, 0), ShowReadArea, RequireAgain,
             UNCHANGED torn
      PROVE  Inv'
  <2>1. /\ first' = supplied /\ from' = supplied /\ to' = supplied + s
        /\ supplied' = supplied + s /\ supplied' <= StreamSize
        /\ s \in Nat /\ s > 0
    <3>1. 0 \in Nat /\ 0 <= s
      BY OfferedType
    <3> QED BY <1>3, <3>1, AcquireType, Numbers
  <2>2. area' = "chunk" /\ at' = supplied /\ size' = s
    <3>1. supplied \in Nat
      BY Numbers
    <3> QED BY <1>3, <2>1, <3>1 DEF ShowReadArea
  <2>3. /\ Calls' /\ Delivered' /\ EosHonest' /\ RequireDelivers'
        /\ pc' \in {"idle", "require"}
        /\ rx' \in {"ok", "supplier", "end_of_stream", "buffer_size_exceeded"}
    BY <1>1, <1>3, <2>1, <2>2, RequireProgress
  <2>4. TypeOK'
    BY <1>1, <1>3, <2>1, <2>2, <2>3, Numbers DEF Inv, TypeOK
  <2>5. pos = supplied
    BY <1>1, Numbers DEF Placed
  <2>6. Account' /\ Placed' /\ Shown'
    BY <1>1, <1>3, <2>1, <2>2, <2>3, <2>5, Numbers DEF Inv, Account, Placed, Shown
  <2> QED BY <2>3, <2>4, <2>6 DEF Inv
<1> QED BY <1>2, <1>3

LEMMA RequireFuseInv ==
  ASSUME Disciplined, Inv, RequireFuse
  PROVE  Inv'
<1> USE DEF window, chunk
<1>1. /\ ~torn /\ pc = "require" /\ start = -1 /\ size > 0 /\ Placed
      /\ area = "chunk" /\ at = pos /\ pos + size = to /\ first <= pos
      /\ UNCHANGED <<inputSize, pos, origin, dest, op, asked, left>>
  BY DEF RequireFuse, Inv, Calls, Placed, TypeOK
<1>2. /\ at \in Nat /\ size \in Nat /\ supplied \in Nat /\ pos \in Nat /\ to = supplied
      /\ asked \in Nat /\ SmallSize \in Nat /\ small \in [0 .. SmallSize - 1 -> Nat]
      /\ supplied <= StreamSize /\ StreamSize \in Nat /\ SupplySize = StreamSize
  BY Numbers
<1>3. CASE TooBigForSmallBuffer
  <2>1. /\ UNCHANGED <<window, chunk, start, small, torn>>
        /\ Return("buffer_size_exceeded")
    BY <1>3 DEF TooBigForSmallBuffer
  <2>2. /\ Calls' /\ Delivered' /\ EosHonest' /\ RequireDelivers'
        /\ pc' = "idle" /\ rx' = "buffer_size_exceeded"
    BY <1>1, <2>1, RequireProgress, Numbers DEF Return
  <2>3. TypeOK'
    BY <1>1, <2>1, <2>2 DEF Inv, TypeOK
  <2>4. Account' /\ Placed' /\ Shown'
    BY <1>1, <2>1, <2>2 DEF Inv, Account, Placed, Shown
  <2> QED BY <2>2, <2>3, <2>4 DEF Inv
<1>4. CASE ~TooBigForSmallBuffer
  <2> DEFINE saved == Copied(small, 0, Stream, at, size)
  <2>1. /\ asked <= SmallSize /\ start' = size /\ area' = "small" /\ at' = 0
        /\ \/ FusingFails(from) /\ small' = saved /\ UNCHANGED size
           \/ \E s \in Offered :
                /\ Acquire(s, 0) /\ RequireAgain /\ UNCHANGED torn
                /\ size' = size + Appendable(Trimmed(s), size)
                /\ small' = Copied(saved, size, Stream, supplied,
                                   Appendable(Trimmed(s), size))
    BY <1>4 DEF RequireFuse
  <2>2. size <= SmallSize /\ size < asked
    BY <1>1, <1>2, <2>1 DEF Inv, Calls
  <2>3. /\ saved \in [0 .. SmallSize - 1 -> Nat]
        /\ \A j \in 0 .. size - 1 : saved[j] = pos + j
    <3>1. /\ 0 + size <= SmallSize /\ at + size <= SupplySize /\ at = pos + 0
          /\ 0 + size - 1 = size - 1 /\ 0 \in Nat
          /\ \A j \in 0 .. 0 - 1 : small[j] = pos + j
      BY <1>1, <1>2, <2>2
    <3>2. /\ Copied(small, 0, Stream, at, size) \in [0 .. SmallSize - 1 -> Nat]
          /\ \A j \in 0 .. 0 + size - 1 : Copied(small, 0, Stream, at, size)[j] = pos + j
      BY <3>1, <1>2, AppendedHolds
    <3> QED BY <3>1, <3>2
  <2> HIDE DEF saved
  <2>4. CASE FusingFails(from) /\ small' = saved /\ UNCHANGED size
    <3>1. /\ from' = from /\ torn' = TRUE /\ first' = first /\ to' = to
          /\ supplied' = supplied /\ size' = size /\ Return("supplier")
      BY <2>4 DEF FusingFails
    <3>2. /\ Calls' /\ Delivered' /\ EosHonest' /\ RequireDelivers'
          /\ pc' = "idle" /\ rx' = "supplier"
      BY <1>1, <1>2, <2>1, <3>1, RequireProgress DEF Return
    <3>3. TypeOK'
      <4>1. /\ first <= from /\ from <= to /\ first \in Nat /\ from \in Nat
        BY Numbers
      <4> QED BY <1>1, <1>2, <2>1, <2>2, <2>3, <2>4, <3>1, <3>2, <4>1, RequireType
    <3>4. Account' /\ Shown'
      BY <1>1, <1>2, <2>1, <2>3, <2>4, <3>1 DEF Inv, Account, Shown
    <3> QED BY <3>1, <3>2, <3>3, <3>4 DEF Inv
  <2>5. ASSUME NEW s \in Offered, Acquire(s, 0), RequireAgain, UNCHANGED torn,
               size' = size + Appendable(Trimmed(s), size),
               small' = Copied(saved, size, Stream, supplied, Appendable(Trimmed(s), size))
        PROVE  Inv'
    <3> DEFINE n == Appendable(Trimmed(s), size)
    <3>1. /\ first' = supplied /\ from' = supplied /\ to' = supplied + s
          /\ supplied' = supplied + s /\ supplied' <= StreamSize
          /\ s \in Nat /\ s > 0 /\ Trimmed(s) = s
      <4>1. 0 \in Nat /\ 0 <= s /\ supplied + 0 = supplied
        BY <1>2, OfferedType
      <4> QED BY <2>5, <4>1, AcquireType
    <3>2. n \in Nat /\ n <= s /\ size + n <= SmallSize
      <4>1. n = Lesser(s, SmallSize - size) /\ SmallSize - size \in Int
        BY <1>2, <3>1 DEF Appendable
      <4>2. (s <= SmallSize - size /\ n = s) \/ (SmallSize - size <= s /\ n = SmallSize - size)
        BY <3>1, <4>1, LesserType
      <4> QED BY <1>2, <2>2, <3>1, <4>2
    <3>3. supplied = pos + size /\ size' = size + n
      BY <1>1, <1>2, <2>5
    <3>4. small' = Copied(saved, size, Stream, supplied, n)
      BY <2>5
    <3> HIDE DEF n
    <3>5. /\ small' \in [0 .. SmallSize - 1 -> Nat]
          /\ \A j \in 0 .. size + n - 1 : small'[j] = pos + j
      <4>1. supplied + n <= SupplySize
        BY <1>2, <3>1, <3>2, <3>3
      <4>2. size + n <= SmallSize /\ n \in Nat
        BY <3>2
      <4>3. /\ Copied(saved, size, Stream, supplied, n) \in [0 .. SmallSize - 1 -> Nat]
            /\ \A j \in 0 .. size + n - 1 :
                 Copied(saved, size, Stream, supplied, n)[j] = pos + j
        <5>1. /\ supplied \in Nat /\ supplied = pos + size /\ size \in Nat
              /\ saved \in [0 .. SmallSize - 1 -> Nat]
              /\ \A j \in 0 .. size - 1 : saved[j] = pos + j
          BY <1>2, <2>3, <3>3
        <5> QED BY <5>1, <4>1, <4>2, AppendedHolds
      <4> QED BY <3>4, <4>3
    <3>6. /\ Calls' /\ Delivered' /\ EosHonest' /\ RequireDelivers'
          /\ pc' \in {"idle", "require"}
          /\ rx' \in {"ok", "supplier", "end_of_stream", "buffer_size_exceeded"}
      <4>1. size' \in Nat /\ ~torn'
        BY <1>1, <1>2, <2>5, <3>2, <3>3
      <4> QED BY <1>1, <2>5, <4>1, RequireProgress
    <3>7. TypeOK'
      <4>1. /\ area' \in {"chunk", "small", "none"} /\ at' \in Nat /\ size' \in Nat
            /\ start' \in Int /\ start' >= -1 /\ start' <= SmallSize
            /\ at' + size' <= SmallSize
        BY <1>1, <1>2, <2>1, <2>2, <2>5, <3>2, <3>3
      <4>2. /\ first' \in Nat /\ from' \in Nat /\ to' \in Nat /\ supplied' \in Nat
            /\ first' <= from' /\ from' <= to' /\ to' <= supplied'
            /\ supplied' <= SupplySize
        BY <1>2, <3>1
      <4>3. small' \in [0 .. SmallSize - 1 -> Nat]
        BY <3>5
      <4>4. torn' \in BOOLEAN
        BY <2>5 DEF Inv, TypeOK
      <4> QED BY <1>1, <3>6, <4>1, <4>2, <4>3, <4>4, RequireType
    <3>8. Account'
      BY <1>1, <1>2, <3>1 DEF Inv, Account
    <3>9. Placed'
      BY <1>1, <1>2, <2>1, <3>1, <3>2, <3>3 DEF Placed
    <3>10. Shown'
      BY <1>1, <1>2, <2>1, <3>2, <3>3, <3>5 DEF Shown
    <3> QED BY <3>6, <3>7, <3>8, <3>9, <3>10 DEF Inv
  <2> QED BY <2>1, <2>4, <2>5
<1> QED BY <1>3, <1>4

LEMMA RequireSwitchBackInv ==
  ASSUME Disciplined, Inv, RequireSwitchBack
  PROVE  Inv'
<1>1. /\ ~torn /\ pc = "require" /\ start >= 0 /\ at >= start /\ Placed
      /\ area = "small" /\ from = first /\ from + at = pos + start
      /\ at + size <= start + (to - from)
      /\ UNCHANGED <<inputSize, small, pos, origin, dest, op, asked, left, torn>>
      /\ from' = from + at - start /\ start' = -1 /\ first' = first /\ to' = to
      /\ supplied' = supplied /\ ShowReadArea /\ RequireAgain
  BY DEF RequireSwitchBack, SwitchToReadArea, Inv, Calls, Placed
<1>2. /\ at \in Nat /\ size \in Nat /\ supplied \in Nat /\ pos \in Nat /\ to = supplied
      /\ start \in Int /\ first \in Nat /\ from \in Nat
      /\ supplied <= StreamSize /\ StreamSize \in Nat /\ SupplySize = StreamSize
  BY Numbers
<1>3. /\ from' = pos /\ pos <= to /\ first <= pos
      /\ area' = "chunk" /\ at' = pos /\ size' = to - pos /\ size' \in Nat
  BY <1>1, <1>2 DEF ShowReadArea
<1>4. /\ Calls' /\ Delivered' /\ EosHonest' /\ RequireDelivers'
      /\ pc' \in {"idle", "require"}
      /\ rx' \in {"ok", "supplier", "end_of_stream", "buffer_size_exceeded"}
  BY <1>1, <1>3, RequireProgress
<1>5. TypeOK'
  <2>1. torn' \in BOOLEAN /\ small' \in [0 .. SmallSize - 1 -> Nat]
    BY <1>1 DEF Inv, TypeOK
  <2>2. -1 \in Int /\ -1 >= -1 /\ -1 <= SmallSize
    BY SmallSizeType
  <2> QED BY <1>1, <1>2, <1>3, <1>4, <2>1, <2>2, RequireType
<1>6. Account'
  BY <1>1 DEF Inv, Account
<1>7. Placed' /\ Shown'
  BY <1>1, <1>2, <1>3, <1>4 DEF Placed, Shown
<1> QED BY <1>4, <1>5, <1>6, <1>7 DEF Inv

LEMMA RequireRefillInv ==
  ASSUME Disciplined, Inv, RequireRefill
  PROVE  Inv'
<1> USE DEF window, chunk
<1>1. /\ ~torn /\ pc = "require" /\ start >= 0 /\ at < start /\ Placed
      /\ area = "small" /\ from = first /\ from + at = pos + start
      /\ start <= at + size /\ at + size <= start + (to - from)
      /\ UNCHANGED <<inputSize, pos, origin, dest, op, asked, left>>
  BY DEF RequireRefill, Inv, Calls, Placed
<1>2. /\ at \in Nat /\ size \in Nat /\ supplied \in Nat /\ pos \in Nat /\ to = supplied
      /\ start \in Int /\ start <= SmallSize /\ first \in Nat /\ from \in Nat
      /\ from <= to /\ asked \in Nat /\ inputSize \in Nat
      /\ SmallSize \in Nat /\ small \in [0 .. SmallSize - 1 -> Nat]
      /\ supplied <= StreamSize /\ StreamSize \in Nat /\ SupplySize = StreamSize
  BY Numbers
<1>3. CASE TooBigForSmallBuffer
  <2>1. /\ UNCHANGED <<window, chunk, start, small, torn>>
        /\ Return("buffer_size_exceeded")
    BY <1>3 DEF TooBigForSmallBuffer
  <2>2. /\ Calls' /\ Delivered' /\ EosHonest' /\ RequireDelivers'
        /\ pc' = "idle" /\ rx' = "buffer_size_exceeded"
    BY <1>1, <1>2, <2>1, RequireProgress DEF Return
  <2>3. TypeOK'
    BY <1>1, <2>1, <2>2 DEF Inv, TypeOK
  <2>4. Account' /\ Placed' /\ Shown'
    BY <1>1, <2>1, <2>2 DEF Inv, Account, Placed, Shown
  <2> QED BY <2>2, <2>3, <2>4 DEF Inv
<1>4. CASE ~TooBigForSmallBuffer
  <2> DEFINE k == start - at
             n == RefilledSize - k
             R == RefilledSize
  <2>1. /\ asked <= SmallSize /\ small' = Refilled
        /\ area' = "small" /\ at' = 0 /\ size' = R
        /\ \/ asked <= R /\ start' = k /\ Return("ok") /\ UNCHANGED <<chunk, torn>>
           \/ /\ ~(asked <= R) /\ start' = R
              /\ \/ FusingFails(first)
                 \/ \E s \in Offered : Acquire(s, 0) /\ RequireAgain /\ UNCHANGED torn
    BY <1>4 DEF RequireRefill
  <2>2. /\ k \in Nat /\ k > 0 /\ k <= size /\ k <= SmallSize
        /\ from = pos + k /\ at + k = start
    BY <1>1, <1>2
  <2>3. /\ n \in Nat /\ k + n = R /\ R \in Nat /\ R <= SmallSize
        /\ n <= to - from /\ (R < SmallSize => n = to - from)
    <3>1. R = k + Lesser(to - from, SmallSize - k)
      BY DEF RefilledSize, Appendable
    <3>2. to - from \in Int /\ SmallSize - k \in Int
      BY <1>2, <2>2
    <3>3. \/ to - from <= SmallSize - k /\ Lesser(to - from, SmallSize - k) = to - from
          \/ SmallSize - k <= to - from /\ Lesser(to - from, SmallSize - k) = SmallSize - k
      BY <3>2, LesserType
    <3> QED BY <1>2, <2>2, <3>1, <3>3
  <2>4. small' = Copied(Copied(small, 0, small, at, k), k, Stream, from, n)
    BY <2>1 DEF Refilled
  <2> HIDE DEF k, n, R
  <2>5. /\ small' \in [0 .. SmallSize - 1 -> Nat]
        /\ \A j \in 0 .. R - 1 : small'[j] = pos + j
    <3> DEFINE moved == Copied(small, 0, small, at, k)
    <3>1. \A j \in 0 .. k - 1 : small[at + j] = pos + j
      <4>1. \A j \in 0 .. size - 1 : small[at + j] = pos + j
        BY <1>1 DEF Inv, Shown
      <4> QED BY <1>2, <2>2, <4>1
    <3>2. at + k <= SmallSize
      BY <1>2, <2>2
    <3>3. /\ moved \in [0 .. SmallSize - 1 -> Nat]
          /\ \A j \in 0 .. k - 1 : moved[j] = pos + j
      BY <2>2, <3>1, <3>2, MovedHolds
    <3>4. k + n <= SmallSize /\ from + n <= SupplySize
      BY <1>2, <2>2, <2>3
    <3> HIDE DEF moved
    <3>5. /\ Copied(moved, k, Stream, from, n) \in [0 .. SmallSize - 1 -> Nat]
          /\ \A j \in 0 .. k + n - 1 : Copied(moved, k, Stream, from, n)[j] = pos + j
      <4>1. from \in Nat /\ from = pos + k /\ k \in Nat /\ n \in Nat
        BY <1>2, <2>2, <2>3
      <4> QED BY <3>3, <3>4, <4>1, AppendedHolds
    <3>6. small' = Copied(moved, k, Stream, from, n) /\ k + n = R
      BY <2>3, <2>4 DEF moved
    <3>7. k + n - 1 = R - 1
      BY <3>6, <2>2, <2>3
    <3> QED BY <3>5, <3>6, <3>7
  <2>6. Shown'
    <3>1. at' = 0 /\ size' = R /\ pos' = pos /\ \A j \in 0 .. R - 1 : 0 + j = j
      BY <1>1, <2>1, <2>3
    <3> QED BY <2>5, <3>1 DEF Shown
  <2>7. CASE asked <= R /\ start' = k /\ Return("ok") /\ UNCHANGED <<chunk, torn>>
    <3>1. /\ Calls' /\ Delivered' /\ EosHonest' /\ RequireDelivers'
          /\ pc' = "idle" /\ rx' = "ok"
      <4>1. /\ size' \in Nat /\ ~torn' /\ Return("ok") /\ asked <= size'
        BY <1>1, <2>1, <2>3, <2>7
      <4> QED BY <1>1, <4>1, RequireProgress DEF Return
    <3>2. torn' \in BOOLEAN
      BY <2>7 DEF Inv, TypeOK
    <3>3. TypeOK'
      <4>1. /\ area' = "small" /\ at' \in Nat /\ size' \in Nat /\ at' + size' <= SmallSize
            /\ start' \in Int /\ start' >= -1 /\ start' <= SmallSize
            /\ first' = first /\ from' = from /\ to' = to /\ supplied' = supplied
            /\ first <= from /\ supplied <= SupplySize
        BY <1>1, <1>2, <2>1, <2>2, <2>3, <2>7
      <4> QED BY <1>1, <1>2, <2>5, <3>1, <3>2, <4>1, RequireType
    <3>4. Account'
      BY <1>1, <2>7 DEF Inv, Account
    <3>5. Placed'
      BY <1>1, <1>2, <2>1, <2>2, <2>3, <2>7 DEF Placed
    <3> QED BY <2>6, <3>1, <3>3, <3>4, <3>5 DEF Inv
  <2>8. CASE ~(asked <= R) /\ start' = R /\ FusingFails(first)
    <3>1. /\ first' = first /\ from' = first /\ to' = to /\ supplied' = supplied
          /\ torn' = TRUE /\ Return("supplier")
      BY <2>8 DEF FusingFails
    <3>2. /\ Calls' /\ Delivered' /\ EosHonest' /\ RequireDelivers'
          /\ pc' = "idle" /\ rx' = "supplier"
      <4>1. size' \in Nat /\ area' = "small"
        BY <2>1, <2>3
      <4> QED BY <1>1, <3>1, <4>1, RequireProgress DEF Return
    <3>3. TypeOK'
      <4>1. /\ at' \in Nat /\ size' \in Nat /\ at' + size' <= SmallSize
            /\ start' \in Int /\ start' >= -1 /\ start' <= SmallSize
            /\ first <= to /\ supplied <= SupplySize
        BY <1>1, <1>2, <2>1, <2>3, <2>8
      <4> QED BY <1>1, <1>2, <2>1, <2>5, <3>1, <3>2, <4>1, RequireType
    <3>4. Account'
      BY <1>1, <3>1 DEF Inv, Account
    <3> QED BY <2>6, <3>1, <3>2, <3>3, <3>4 DEF Inv
  <2>9. ASSUME ~(asked <= R), start' = R,
               NEW s \in Offered, Acquire(s, 0), RequireAgain, UNCHANGED torn
        PROVE  Inv'
    <3>1. /\ first' = supplied /\ from' = supplied /\ to' = supplied + s
          /\ supplied' = supplied + s /\ supplied' <= StreamSize
          /\ s \in Nat /\ s > 0
      <4>1. 0 \in Nat /\ 0 <= s /\ supplied + 0 = supplied
        BY <1>2, OfferedType
      <4> QED BY <2>9, <4>1, AcquireType
    <3>2. /\ Calls' /\ Delivered' /\ EosHonest' /\ RequireDelivers'
          /\ pc' \in {"idle", "require"}
          /\ rx' \in {"ok", "supplier", "end_of_stream", "buffer_size_exceeded"}
      <4>1. size' \in Nat /\ ~torn'
        BY <1>1, <2>1, <2>3, <2>9
      <4> QED BY <1>1, <2>9, <4>1, RequireProgress
    <3>3. torn' \in BOOLEAN
      BY <2>9 DEF Inv, TypeOK
    <3>4. TypeOK'
      <4>1. /\ at' \in Nat /\ size' \in Nat /\ at' + size' <= SmallSize
            /\ start' \in Int /\ start' >= -1 /\ start' <= SmallSize
            /\ to' \in Nat /\ supplied' \in Nat /\ from' <= to'
            /\ to' <= supplied' /\ supplied' <= SupplySize
        BY <1>1, <1>2, <2>1, <2>3, <2>9, <3>1
      <4> QED BY <1>1, <1>2, <2>1, <2>5, <3>1, <3>2, <3>3, <4>1, RequireType
    <3>5. pos + R = supplied
      BY <1>2, <2>1, <2>2, <2>3, <2>9
    <3>6. Account'
      BY <1>1, <1>2, <3>1 DEF Inv, Account
    <3>7. Placed'
      BY <1>1, <1>2, <2>1, <2>3, <2>9, <3>1, <3>5 DEF Placed
    <3> QED BY <2>6, <3>2, <3>4, <3>6, <3>7 DEF Inv
  <2> QED BY <2>1, <2>7, <2>8, <2>9
<1> QED BY <1>3, <1>4

-----------------------------------------------------------------------------
(* discard_input()                                                         *)

(* What a consuming step leaves of the type invariant to be shown          *)
LEMMA ConsumeType ==
  ASSUME Inv, UNCHANGED <<start, small, torn>>,
         area' \in {"chunk", "small", "none"}, at' \in Nat, size' \in Nat,
         area' = "small" => at' + size' <= SmallSize,
         inputSize' \in Nat, inputSize' < Word, Word \in Nat,
         first' \in Nat, from' \in Nat, to' \in Nat, supplied' \in Nat,
         first' <= from', from' <= to', to' <= supplied', supplied' <= SupplySize,
         pos' \in Nat, origin' \in Nat, dest' \in Seq(Nat), asked' \in Nat, left' \in Nat,
         op' \in {"none", "require", "discard", "bulk"},
         pc' \in {"idle", "discard", "bulk", "again", "reset", "undefined"},
         rx' \in {"ok", "supplier", "end_of_stream", "buffer_size_exceeded"}
  PROVE  TypeOK'
<1>1. /\ start' \in -1 .. SmallSize /\ small' \in [0 .. SmallSize - 1 -> Nat]
      /\ torn' \in BOOLEAN
  BY DEF Inv, TypeOK
<1>2. inputSize' \in 0 .. Word - 1
  OBVIOUS
<1>3. pc' \in {"idle", "require", "discard", "bulk", "again", "reset", "undefined"}
  OBVIOUS
<1> QED BY <1>1, <1>2, <1>3 DEF TypeOK

(* Consumed bytes are taken off mInputSize, which does not wrap.           *)
LEMMA TakenOff ==
  ASSUME Disciplined, Inv, NEW k \in Nat, pos + k <= StreamSize
  PROVE  (inputSize - k) % Word = StreamSize - (pos + k)
<1>1. /\ inputSize = StreamSize - pos /\ StreamSize \in Nat /\ pos \in Nat
      /\ StreamSize < Word /\ Word \in Nat
  BY Numbers
<1>2. inputSize - k = StreamSize - (pos + k) /\ inputSize - k \in Nat /\ inputSize - k < Word
  BY <1>1
<1> QED BY <1>2, ModWord

LEMMA DiscardInputInv ==
  ASSUME Disciplined, Inv, NEW n \in Discards, DiscardInput(n)
  PROVE  Inv'
<1> USE DEF window, chunk
<1>1. /\ ~torn /\ pc = "idle" /\ Placed
      /\ op' = "discard" /\ asked' = n /\ origin' = pos /\ dest' = <<>>
      /\ UNCHANGED <<first, from, to, supplied, start, small, torn>>
  BY DEF DiscardInput, Ready, Disciplined, Inv
<1>2. /\ at \in Nat /\ size \in Nat /\ supplied \in Nat /\ pos \in Nat /\ to = supplied
      /\ start \in Int /\ start >= -1 /\ start <= SmallSize /\ first \in Nat /\ from \in Nat
      /\ first <= from /\ from <= to /\ inputSize \in Nat /\ inputSize = StreamSize - pos
      /\ SmallSize \in Nat /\ small \in [0 .. SmallSize - 1 -> Nat]
      /\ supplied <= StreamSize /\ StreamSize \in Nat /\ SupplySize = StreamSize
      /\ pos <= supplied /\ left \in Nat /\ Word \in Nat /\ StreamSize < Word
  BY Numbers
<1>3. /\ n \in Nat /\ dest' \in Seq(Nat) /\ pos + size <= to
      /\ \A i \in 0 .. size - 1 : View(i) = pos + i
  BY <1>1, InputAssumption, WindowHolds
<1>4. /\ area \in {"chunk", "small", "none"} /\ (area = "small" => at + size <= SmallSize)
      /\ rx \in {"ok", "supplier", "end_of_stream", "buffer_size_exceeded"}
  BY DEF Inv, TypeOK
<1>5. Delivered'
  <2>1. pc' \in {"idle", "discard"}
    BY <1>2, <1>3 DEF DiscardInput, Return, Goto, Disciplined
  <2> QED BY <1>1, <2>1 DEF Delivered
<1>6. CASE n <= size
  <2>1. /\ at' = at + n /\ size' = size - n /\ pos' = pos + n
        /\ inputSize' = (inputSize - n) % Word
        /\ pc' = "idle" /\ rx' = "ok" /\ area' = area /\ left' = left
    BY <1>2, <1>3, <1>6 DEF DiscardInput, Return
  <2>2. inputSize' = StreamSize - (pos + n) /\ pos + n <= to
    BY <1>2, <1>3, <1>6, <2>1, TakenOff
  <2>3. TypeOK'
    <3>1. /\ at' \in Nat /\ size' \in Nat /\ inputSize' \in Nat /\ inputSize' < Word
          /\ pos' \in Nat /\ (area' = "small" => at' + size' <= SmallSize)
      BY <1>2, <1>3, <1>4, <1>6, <2>1, <2>2
    <3> QED BY <1>1, <1>2, <1>3, <1>4, <2>1, <3>1, ConsumeType
  <2>4. Account'
    BY <1>1, <1>2, <1>3, <2>1, <2>2 DEF Account
  <2>5. Placed'
    BY <1>1, <1>2, <1>3, <1>6, <2>1, <2>2 DEF Placed
  <2>6. Shown'
    <3>1. ASSUME area = "small", NEW j \in 0 .. size - n - 1
          PROVE  small[at + n + j] = pos + n + j
      <4>1. n + j \in 0 .. size - 1 /\ at + (n + j) = at + n + j /\ pos + (n + j) = pos + n + j
        BY <1>2, <1>3, <1>6
      <4>2. small[at + (n + j)] = pos + (n + j)
        BY <3>1, <4>1 DEF Inv, Shown
      <4> QED BY <4>1, <4>2
    <3> QED BY <1>1, <2>1, <3>1 DEF Shown
  <2>7. Calls' /\ EosHonest' /\ RequireDelivers'
    BY <1>1, <2>1 DEF Calls, Consuming, EosHonest, RequireDelivers
  <2> QED BY <1>5, <2>3, <2>4, <2>5, <2>6, <2>7 DEF Inv
<1>7. CASE n > size /\ n > inputSize
  <2>1. /\ UNCHANGED <<area, at, size, inputSize, pos, left>>
        /\ pc' = "idle" /\ rx' = "end_of_stream"
    BY <1>2, <1>3, <1>7 DEF DiscardInput, Return
  <2>2. TypeOK'
    BY <1>1, <1>2, <1>3, <1>4, <2>1, ConsumeType
  <2>3. Account' /\ Placed' /\ Shown'
    BY <1>1, <2>1 DEF Inv, Account, Placed, Shown
  <2>4. Calls' /\ EosHonest' /\ RequireDelivers'
    BY <1>1, <1>2, <1>3, <1>7, <2>1 DEF Calls, Consuming, EosHonest, RequireDelivers
  <2> QED BY <1>5, <2>2, <2>3, <2>4 DEF Inv
<1>8. CASE n > size /\ n <= inputSize
  <2>1. /\ size = 0 /\ start < 0 /\ area' = "none" /\ at' = 0 /\ size' = 0
        /\ inputSize' = (inputSize - 2 * size) % Word
        /\ pos' = pos + size /\ left' = n - size
        /\ pc' = "discard" /\ rx' = rx
    BY <1>2, <1>3, <1>8 DEF DiscardInput, Goto, ShowNothing, Disciplined
  <2>2. inputSize' = inputSize /\ pos' = pos /\ left' = n
    BY <1>2, <1>3, <2>1, ModWord
  <2>4. TypeOK'
    <3>1. /\ inputSize' \in Nat /\ inputSize' < Word /\ left' \in Nat
          /\ supplied' <= SupplySize
      BY <1>1, <1>2, <1>3, <2>2
    <3> QED BY <1>1, <1>2, <1>3, <1>4, <2>1, <2>2, <3>1, ConsumeType
  <2>5. Account' /\ Shown'
    BY <1>1, <2>1, <2>2 DEF Inv, Account, Shown
  <2>6. Placed'
    BY <1>1, <1>2, <2>1, <2>2 DEF Placed
  <2>7. Calls' /\ EosHonest' /\ RequireDelivers'
    BY <1>1, <1>2, <1>3, <1>8, <2>1, <2>2
    DEF Calls, Consuming, EosHonest, RequireDelivers
  <2> QED BY <1>5, <2>4, <2>5, <2>6, <2>7 DEF Inv
<1> QED BY <1>2, <1>3, <1>6, <1>7, <1>8

LEMMA DiscardChunkInv ==
  ASSUME Disciplined, Inv, DiscardChunk
  PROVE  Inv'
<1> USE DEF window, chunk
<1>1. /\ pc = "discard" /\ ~torn /\ start = -1 /\ size = 0 /\ area = "none" /\ left > 0
      /\ Placed /\ pos + left = origin + asked /\ origin <= pos
      /\ origin + asked <= StreamSize /\ op = "discard" /\ asked \in Discards
      /\ UNCHANGED <<area, at, size, start, small, origin, dest, op, asked>>
  BY DEF DiscardChunk, Inv, Calls, Consuming, Placed
<1>2. /\ at \in Nat /\ supplied \in Nat /\ pos \in Nat /\ to = supplied
      /\ first \in Nat /\ from \in Nat /\ origin \in Nat /\ asked \in Nat
      /\ first <= from /\ from <= to /\ inputSize \in Nat /\ inputSize = StreamSize - pos
      /\ supplied <= StreamSize /\ StreamSize \in Nat /\ SupplySize = StreamSize
      /\ pos <= supplied /\ left \in Nat /\ Word \in Nat /\ StreamSize < Word
  BY Numbers
<1>3. /\ dest \in Seq(Nat)
      /\ rx \in {"ok", "supplier", "end_of_stream", "buffer_size_exceeded"}
  BY DEF Inv, TypeOK
<1>4. Shown' /\ Delivered'
  <2>1. pc' \in {"idle", "discard", "reset"}
    BY DEF DiscardChunk, Goto, SupplierFails, Return
  <2> QED BY <1>1, <2>1 DEF Inv, Shown, Delivered
<1>5. CASE SupplierFails /\ UNCHANGED <<inputSize, pos, left>>
  <2>1. /\ UNCHANGED <<first, from, to, supplied, torn>> /\ pc' = "idle" /\ rx' = "supplier"
    BY <1>5 DEF SupplierFails, Return
  <2>2. TypeOK'
    BY <1>1, <1>2, <1>3, <1>5, <2>1, ConsumeType
  <2>3. Account' /\ Placed'
    BY <1>1, <1>5, <2>1 DEF Inv, Account, Placed
  <2>4. Calls' /\ EosHonest' /\ RequireDelivers'
    BY <1>1, <2>1 DEF Calls, Consuming, EosHonest, RequireDelivers
  <2> QED BY <1>4, <2>2, <2>3, <2>4 DEF Inv
<1>6. ASSUME NEW s \in Offered, NEW k, k = Lesser(left, Trimmed(s)),
             Acquire(s, k), inputSize' = (inputSize - k) % Word,
             pos' = pos + k, left' = left - k, UNCHANGED torn,
             Goto(IF left' # 0 THEN "discard" ELSE "reset")
      PROVE  Inv'
  <2>1. s \in Nat /\ s > 0 /\ Trimmed(s) = s /\ supplied + s <= StreamSize
    BY OfferedType
  <2>2. k \in Nat /\ k <= s /\ k <= left /\ (k = s \/ k = left)
    BY <1>2, <1>6, <2>1, LesserType
  <2>3. /\ first' = supplied /\ from' = supplied + k /\ to' = supplied + s
        /\ supplied' = supplied + s
    BY <1>6, <2>2, AcquireType
  <2>4. pos = supplied /\ inputSize' = StreamSize - (pos + k)
    BY <1>1, <1>2, <1>6, <2>1, <2>2, TakenOff DEF Placed
  <2>5. /\ pc' = (IF left' # 0 THEN "discard" ELSE "reset") /\ rx' = rx
    BY <1>6 DEF Goto
  <2>6. pc' \in {"discard", "reset"} /\ (pc' = "discard" => k = s /\ left' > 0)
        /\ (pc' = "reset" => left' = 0)
    BY <1>2, <1>6, <2>2, <2>5
  <2>7. TypeOK'
    <3>1. /\ inputSize' \in Nat /\ inputSize' < Word /\ pos' \in Nat /\ left' \in Nat
          /\ first' \in Nat /\ from' \in Nat /\ to' \in Nat /\ supplied' \in Nat
          /\ first' <= from' /\ from' <= to' /\ to' <= supplied' /\ supplied' <= SupplySize
      BY <1>2, <1>6, <2>1, <2>2, <2>3, <2>4
    <3> QED BY <1>1, <1>2, <1>3, <1>6, <2>5, <2>6, <3>1, ConsumeType
  <2>8. Account'
    BY <1>2, <1>6, <2>1, <2>2, <2>3, <2>4 DEF Account
  <2>9. Placed'
    BY <1>1, <1>2, <1>6, <2>1, <2>2, <2>3, <2>4, <2>6 DEF Placed
  <2>10. Calls' /\ EosHonest' /\ RequireDelivers'
    BY <1>1, <1>2, <1>6, <2>2, <2>6 DEF Calls, Consuming, EosHonest, RequireDelivers
  <2> QED BY <1>4, <2>7, <2>8, <2>9, <2>10 DEF Inv
<1> QED BY <1>5, <1>6 DEF DiscardChunk

LEMMA FinishInChunkInv ==
  ASSUME Disciplined, Inv, FinishInChunk
  PROVE  Inv'
<1> USE DEF window, chunk
<1>1. /\ pc = "reset" /\ ~torn /\ start = -1 /\ size = 0 /\ area = "none" /\ left = 0
      /\ Placed /\ op \in {"discard", "bulk"} /\ pos = from /\ first <= pos
      /\ UNCHANGED <<inputSize, start, small, pos, origin, dest, op, asked, left>>
  BY DEF FinishInChunk, Inv, Calls, Consuming, Placed
<1>2. /\ at \in Nat /\ supplied \in Nat /\ pos \in Nat /\ to = supplied
      /\ first \in Nat /\ from \in Nat /\ origin \in Nat /\ asked \in Nat
      /\ first <= from /\ from <= to /\ inputSize \in Nat /\ inputSize < Word
      /\ inputSize = StreamSize - pos
      /\ supplied <= StreamSize /\ StreamSize \in Nat /\ SupplySize = StreamSize
      /\ pos <= supplied /\ left \in Nat /\ Word \in Nat
  BY Numbers
<1>3. dest \in Seq(Nat) /\ op \in {"none", "require", "discard", "bulk"}
  BY DEF Inv, TypeOK
<1>4. CASE from < to /\ UNCHANGED <<chunk, torn>> /\ ShowReadArea /\ Return("ok")
  <2>1. /\ first' = first /\ from' = pos /\ to' = to /\ supplied' = supplied
        /\ area' = "chunk" /\ at' = pos /\ size' = to - pos /\ size' \in Nat
        /\ pc' = "idle" /\ rx' = "ok" /\ torn' = torn
    BY <1>1, <1>2, <1>4 DEF ShowReadArea, Return
  <2>2. TypeOK'
    BY <1>1, <1>2, <1>3, <2>1, ConsumeType
  <2>3. Account' /\ Placed' /\ Shown'
    BY <1>1, <1>2, <2>1 DEF Inv, Account, Placed, Shown
  <2>4. Calls' /\ Delivered' /\ EosHonest' /\ RequireDelivers'
    BY <1>1, <2>1 DEF Inv, Calls, Consuming, Delivered, EosHonest, RequireDelivers
  <2> QED BY <2>2, <2>3, <2>4 DEF Inv
<1>5. CASE from = to /\ SupplierFails /\ UNCHANGED window
  <2>1. /\ UNCHANGED <<area, at, size, first, from, to, supplied, torn>>
        /\ pc' = "idle" /\ rx' = "supplier"
    BY <1>5 DEF SupplierFails, Return
  <2>2. TypeOK'
    BY <1>1, <1>2, <1>3, <2>1, ConsumeType
  <2>3. Account' /\ Placed' /\ Shown'
    BY <1>1, <1>2, <1>5, <2>1 DEF Inv, Account, Placed, Shown
  <2>4. Calls' /\ Delivered' /\ EosHonest' /\ RequireDelivers'
    BY <1>1, <2>1 DEF Inv, Calls, Consuming, Delivered, EosHonest, RequireDelivers
  <2> QED BY <2>2, <2>3, <2>4 DEF Inv
<1>6. ASSUME from = to, NEW s \in Offered, Acquire(s, 0), ShowReadArea, Return("ok"),
             UNCHANGED torn
      PROVE  Inv'
  <2>1. /\ first' = supplied /\ from' = supplied /\ to' = supplied + s
        /\ supplied' = supplied + s /\ supplied' <= StreamSize
        /\ s \in Nat /\ s > 0
    <3>1. 0 \in Nat /\ 0 <= s /\ supplied + 0 = supplied
      BY <1>2, OfferedType
    <3> QED BY <1>6, <3>1, AcquireType
  <2>2. /\ area' = "chunk" /\ at' = supplied /\ size' = s /\ pos = supplied
        /\ pc' = "idle" /\ rx' = "ok" /\ torn' = torn
    BY <1>1, <1>2, <1>6, <2>1 DEF ShowReadArea, Return
  <2>3. TypeOK'
    BY <1>1, <1>2, <1>3, <2>1, <2>2, ConsumeType
  <2>4. Account' /\ Placed' /\ Shown'
    BY <1>1, <1>2, <2>1, <2>2 DEF Inv, Account, Placed, Shown
  <2>5. Calls' /\ Delivered' /\ EosHonest' /\ RequireDelivers'
    BY <1>1, <2>2 DEF Inv, Calls, Consuming, Delivered, EosHonest, RequireDelivers
  <2> QED BY <2>3, <2>4, <2>5 DEF Inv
<1> QED BY <1>4, <1>5, <1>6 DEF FinishInChunk

-----------------------------------------------------------------------------
(* bulk_read()                                                             *)

(* Bytes that are delivered behind those that have been                    *)
LEMMA DeliverHolds ==
  ASSUME Disciplined, Inv, NEW k \in Nat, NEW bytes,
         \A i \in 0 .. k - 1 : bytes[i] = pos + i,
         pos = origin + Len(dest), Deliver(bytes, k)
  PROVE  /\ dest' \in Seq(Nat) /\ Len(dest') = Len(dest) + k
         /\ \A j \in DOMAIN dest' : dest'[j] = origin + j - 1
<1> DEFINE d == [i \in 1 .. k |-> bytes[i - 1]]
<1>1. /\ dest \in Seq(Nat) /\ pos \in Nat /\ origin \in Nat /\ Len(dest) \in Nat
      /\ \A j \in DOMAIN dest : dest[j] = origin + j - 1
  BY Numbers DEF Inv, TypeOK, Delivered
<1>2. ASSUME NEW i \in 1 .. k PROVE d[i] = pos + i - 1 /\ d[i] \in Nat
  <2>1. i - 1 \in 0 .. k - 1 /\ pos + (i - 1) = pos + i - 1 /\ pos + i - 1 \in Nat
    BY <1>1
  <2>2. bytes[i - 1] = pos + (i - 1)
    BY <2>1
  <2> QED BY <2>1, <2>2
<1>3. d \in Seq(Nat) /\ Len(d) = k
  BY <1>2
<1> HIDE DEF d
<1>4. dest' = dest \o d
  BY DEF Deliver, d
<1>5. dest' \in Seq(Nat) /\ Len(dest') = Len(dest) + k
  <2>1. \A a, b \in Seq(Nat) : a \o b \in Seq(Nat) /\ Len(a \o b) = Len(a) + Len(b)
    OBVIOUS
  <2> QED BY <1>1, <1>3, <1>4, <2>1
<1>6. ASSUME NEW j \in DOMAIN dest' PROVE dest'[j] = origin + j - 1
  <2>1. j \in 1 .. Len(dest) + k
    BY <1>5
  <2>2. CASE j <= Len(dest)
    <3>1. j \in DOMAIN dest /\ dest'[j] = dest[j]
      BY <1>1, <1>3, <1>4, <2>1, <2>2
    <3> QED BY <1>1, <3>1
  <2>3. CASE j > Len(dest)
    <3>1. j - Len(dest) \in 1 .. k /\ dest'[j] = d[j - Len(dest)]
      BY <1>1, <1>3, <1>4, <2>1, <2>3
    <3> QED BY <1>1, <1>2, <2>1, <3>1
  <2> QED BY <1>1, <2>1, <2>2, <2>3
<1> QED BY <1>5, <1>6

LEMMA BulkReadInv ==
  ASSUME Disciplined, Inv, NEW n \in Reads, BulkRead(n)
  PROVE  Inv'
<1> USE DEF window, chunk
<1>1. /\ ~torn /\ pc = "idle" /\ Placed
      /\ op' = "bulk" /\ asked' = n /\ origin' = pos
      /\ UNCHANGED <<area, first, from, to, supplied, start, small, torn>>
  BY DEF BulkRead, Ready, Disciplined, Inv
<1>2. /\ at \in Nat /\ size \in Nat /\ supplied \in Nat /\ pos \in Nat /\ to = supplied
      /\ start \in Int /\ start >= -1 /\ start <= SmallSize /\ first \in Nat /\ from \in Nat
      /\ first <= from /\ from <= to /\ inputSize \in Nat /\ inputSize = StreamSize - pos
      /\ SmallSize \in Nat /\ small \in [0 .. SmallSize - 1 -> Nat]
      /\ supplied <= StreamSize /\ StreamSize \in Nat /\ SupplySize = StreamSize
      /\ pos <= supplied /\ left \in Nat /\ Word \in Nat /\ StreamSize < Word
  BY Numbers
<1>3. /\ n \in Nat /\ pos + size <= to
      /\ \A i \in 0 .. size - 1 : View(i) = pos + i
  BY <1>1, InputAssumption, WindowHolds
<1>4. /\ area \in {"chunk", "small", "none"} /\ (area = "small" => at + size <= SmallSize)
      /\ rx \in {"ok", "supplier", "end_of_stream", "buffer_size_exceeded"}
  BY DEF Inv, TypeOK
<1>5. CASE /\ n > inputSize /\ n > 0 /\ Return("end_of_stream") /\ dest' = <<>>
           /\ UNCHANGED <<at, size, inputSize, pos, left>>
  <2>1. pc' = "idle" /\ rx' = "end_of_stream" /\ dest' \in Seq(Nat)
    BY <1>5 DEF Return
  <2>2. TypeOK'
    BY <1>1, <1>2, <1>3, <1>4, <1>5, <2>1, ConsumeType
  <2>3. Account' /\ Placed' /\ Shown'
    BY <1>1, <1>5, <2>1 DEF Inv, Account, Placed, Shown
  <2>4. Calls' /\ Delivered' /\ EosHonest' /\ RequireDelivers'
    BY <1>1, <1>2, <1>3, <1>5, <2>1
    DEF Calls, Consuming, Delivered, EosHonest, RequireDelivers
  <2> QED BY <2>2, <2>3, <2>4 DEF Inv
<1>6. ASSUME NEW k, k = Lesser(size, n), n <= inputSize \/ n = 0,
             dest' = [i \in 1 .. k |-> View(i - 1)],
             at' = at + k, size' = size - k, inputSize' = (inputSize - k) % Word,
             pos' = pos + k, left' = n - k,
             IF n = k THEN Return("ok") ELSE Goto("bulk")
      PROVE  Inv'
  <2>1. /\ at' = at + k /\ size' = size - k /\ inputSize' = (inputSize - k) % Word
        /\ pos' = pos + k /\ left' = n - k
    BY <1>6
  <2>2. k \in Nat /\ k <= size /\ k <= n /\ (k = size \/ k = n)
    <3>1. k = Lesser(size, n)
      BY <1>6
    <3> QED BY <1>2, <1>3, <3>1, LesserType
  <2>3. inputSize' = StreamSize - (pos + k) /\ pos + k <= to /\ pos + n <= StreamSize
    <3>1. pos + k <= to /\ pos + k <= StreamSize
      BY <1>2, <1>3, <2>2
    <3>2. inputSize' = StreamSize - (pos + k)
      BY <2>1, <2>2, <3>1, TakenOff
    <3>3. n <= inputSize \/ n = 0
      BY <1>6
    <3> QED BY <1>2, <1>3, <3>1, <3>2, <3>3
  <2>4. /\ rx' \in {"ok", "supplier", "end_of_stream", "buffer_size_exceeded"}
        /\ \/ pc' = "idle" /\ n = k /\ rx' = "ok"
           \/ pc' = "bulk" /\ n # k
    BY <1>4, <1>6 DEF Return, Goto
  <2>5. pc' = "bulk" => left' > 0 /\ size' = 0
    BY <1>2, <1>3, <2>1, <2>2, <2>4
  <2>6. /\ dest' \in Seq(Nat) /\ Len(dest') = k
        /\ \A j \in DOMAIN dest' : dest'[j] = pos + j - 1
    <3>1. ASSUME NEW i \in 1 .. k PROVE View(i - 1) = pos + i - 1 /\ View(i - 1) \in Nat
      <4>1. i - 1 \in 0 .. size - 1 /\ pos + (i - 1) = pos + i - 1 /\ pos + i - 1 \in Nat
        BY <1>2, <2>2
      <4>2. View(i - 1) = pos + (i - 1)
        BY <1>3, <4>1
      <4> QED BY <4>1, <4>2
    <3>2. dest' \in Seq(Nat) /\ Len(dest') = k /\ DOMAIN dest' = 1 .. k
      BY <1>6, <2>2, <3>1
    <3>3. \A j \in 1 .. k : dest'[j] = View(j - 1)
      BY <1>6
    <3> QED BY <3>1, <3>2, <3>3
  <2>7. TypeOK'
    <3>1. /\ at' \in Nat /\ size' \in Nat /\ inputSize' \in Nat /\ inputSize' < Word
          /\ pos' \in Nat /\ left' \in Nat /\ (area' = "small" => at' + size' <= SmallSize)
      BY <1>1, <1>2, <1>3, <1>4, <2>1, <2>2, <2>3
    <3>2. /\ area' \in {"chunk", "small", "none"} /\ origin' \in Nat /\ asked' \in Nat
          /\ first' \in Nat /\ from' \in Nat /\ to' \in Nat /\ supplied' \in Nat
          /\ first' <= from' /\ from' <= to' /\ to' <= supplied' /\ supplied' <= SupplySize
      BY <1>1, <1>2, <1>3, <1>4
    <3> QED BY <1>1, <1>2, <2>4, <2>6, <3>1, <3>2, ConsumeType
  <2>8. Account'
    BY <1>1, <1>2, <1>3, <2>1, <2>2, <2>3 DEF Account
  <2>9. Placed'
    BY <1>1, <1>2, <1>3, <2>1, <2>2, <2>3, <2>4 DEF Placed
  <2>10. Shown'
    <3>1. ASSUME area = "small", NEW j \in 0 .. size - k - 1
          PROVE  small[at + k + j] = pos + k + j
      <4>1. k + j \in 0 .. size - 1 /\ at + (k + j) = at + k + j /\ pos + (k + j) = pos + k + j
        BY <1>2, <2>2
      <4>2. small[at + (k + j)] = pos + (k + j)
        BY <3>1, <4>1 DEF Inv, Shown
      <4> QED BY <4>1, <4>2
    <3> QED BY <1>1, <2>1, <3>1 DEF Shown
  <2>11. Calls'
    BY <1>1, <1>2, <1>3, <2>1, <2>2, <2>3, <2>4, <2>5 DEF Calls, Consuming
  <2>12. Delivered' /\ EosHonest' /\ RequireDelivers'
    BY <1>1, <2>1, <2>4, <2>6 DEF Delivered, EosHonest, RequireDelivers
  <2> QED BY <2>7, <2>8, <2>9, <2>10, <2>11, <2>12 DEF Inv
<1> QED BY <1>5, <1>6 DEF BulkRead

LEMMA BulkRetireInv ==
  ASSUME Disciplined, Inv, BulkRetire
  PROVE  Inv'
<1>1. /\ ~torn /\ pc = "bulk" /\ start >= 0 /\ size = 0 /\ Placed
      /\ area = "small" /\ from = first /\ from + at = pos + start /\ start <= at + size
      /\ at + size <= start + (to - from)
      /\ UNCHANGED <<inputSize, small, pos, origin, dest, op, asked, left, torn>>
      /\ from' = from + at - start /\ start' = -1 /\ first' = first /\ to' = to
      /\ supplied' = supplied /\ ShowReadArea /\ pc' = "again" /\ rx' = rx
  BY DEF BulkRetire, SwitchToReadArea, Goto, Inv, Calls, Consuming, Placed
<1>2. /\ at \in Nat /\ size \in Nat /\ supplied \in Nat /\ pos \in Nat /\ to = supplied
      /\ start \in Int /\ first \in Nat /\ from \in Nat
      /\ supplied <= StreamSize /\ StreamSize \in Nat /\ SupplySize = StreamSize
  BY Numbers
<1>3. /\ from' = pos /\ pos <= to /\ first <= pos
      /\ area' = "chunk" /\ at' = pos /\ size' = to - pos /\ size' \in Nat
  BY <1>1, <1>2 DEF ShowReadArea
<1>4. TypeOK'
  <2>1. /\ torn' \in BOOLEAN /\ small' \in [0 .. SmallSize - 1 -> Nat]
        /\ inputSize' \in 0 .. Word - 1 /\ pos' \in Nat /\ origin' \in Nat
        /\ dest' \in Seq(Nat) /\ asked' \in Nat /\ left' \in Nat
        /\ op' \in {"none", "require", "discard", "bulk"}
        /\ rx' \in {"ok", "supplier", "end_of_stream", "buffer_size_exceeded"}
    BY <1>1 DEF Inv, TypeOK
  <2>2. start' \in -1 .. SmallSize
    BY <1>1, SmallSizeType
  <2>3. /\ first' <= from' /\ from' <= to' /\ to' <= supplied' /\ supplied' <= SupplySize
        /\ first' \in Nat /\ from' \in Nat /\ to' \in Nat /\ supplied' \in Nat
        /\ at' \in Nat /\ size' \in Nat
    BY <1>1, <1>2, <1>3
  <2> QED BY <1>1, <1>3, <2>1, <2>2, <2>3 DEF TypeOK
<1>5. Account'
  BY <1>1 DEF Inv, Account
<1>6. Placed' /\ Shown'
  BY <1>1, <1>2, <1>3 DEF Placed, Shown
<1>7. Calls' /\ Delivered' /\ EosHonest' /\ RequireDelivers'
  BY <1>1, <1>3 DEF Inv, Calls, Consuming, Delivered, EosHonest, RequireDelivers
<1> QED BY <1>4, <1>5, <1>6, <1>7 DEF Inv

LEMMA BulkAgainInv ==
  ASSUME Disciplined, Inv, BulkAgain
  PROVE  Inv'
<1> USE DEF window, chunk
<1> DEFINE k == Lesser(size, left)
<1>1. /\ ~torn /\ pc = "again" /\ Placed /\ area = "chunk" /\ start = -1 /\ at = pos
      /\ pos + size = to /\ first <= pos
      /\ op = "bulk" /\ asked \in Reads /\ origin <= pos /\ pos + left = origin + asked
      /\ origin + asked <= StreamSize /\ pos = origin + Len(dest)
      /\ UNCHANGED <<area, first, from, to, supplied, start, small, origin, op, asked, torn>>
  BY DEF BulkAgain, Inv, Calls, Consuming, Placed, Delivered
<1>2. /\ at \in Nat /\ size \in Nat /\ supplied \in Nat /\ pos \in Nat /\ to = supplied
      /\ first \in Nat /\ from \in Nat /\ origin \in Nat /\ asked \in Nat
      /\ first <= from /\ from <= to /\ inputSize \in Nat /\ inputSize = StreamSize - pos
      /\ supplied <= StreamSize /\ StreamSize \in Nat /\ SupplySize = StreamSize
      /\ pos <= supplied /\ left \in Nat /\ Word \in Nat /\ StreamSize < Word
  BY Numbers
<1>3. ~(left > inputSize)
  BY <1>1, <1>2
<1>4. /\ Deliver([i \in 0 .. k - 1 |-> View(i)], k)
      /\ at' = at + k /\ size' = size - k /\ inputSize' = (inputSize - k) % Word
      /\ pos' = pos + k /\ left' = left - k
      /\ IF left = k THEN Return("ok") ELSE Goto("bulk")
  BY <1>3 DEF BulkAgain
<1>5. k \in Nat /\ k <= size /\ k <= left /\ (k = size \/ k = left)
  BY <1>2, LesserType
<1> HIDE DEF k
<1>6. inputSize' = StreamSize - (pos + k) /\ pos + k <= to
  BY <1>1, <1>2, <1>4, <1>5, TakenOff
<1>7. /\ rx' \in {"ok", "supplier", "end_of_stream", "buffer_size_exceeded"}
      /\ \/ pc' = "idle" /\ left = k /\ rx' = "ok"
         \/ pc' = "bulk" /\ left # k
  BY <1>4 DEF Return, Goto, Inv, TypeOK
<1>8. pc' = "bulk" => left' > 0 /\ size' = 0
  BY <1>2, <1>4, <1>5, <1>7
<1>9. /\ dest' \in Seq(Nat) /\ Len(dest') = Len(dest) + k
      /\ \A j \in DOMAIN dest' : dest'[j] = origin + j - 1
  <2>1. \A i \in 0 .. k - 1 : [j \in 0 .. k - 1 |-> View(j)][i] = pos + i
    BY <1>1 DEF View
  <2> QED BY <1>1, <1>4, <1>5, <2>1, DeliverHolds
<1>10. TypeOK'
  <2>1. /\ at' \in Nat /\ size' \in Nat /\ inputSize' \in Nat /\ inputSize' < Word
        /\ pos' \in Nat /\ left' \in Nat
    BY <1>1, <1>2, <1>4, <1>5, <1>6
  <2> QED BY <1>1, <1>2, <1>7, <1>9, <2>1, ConsumeType
<1>11. Account'
  BY <1>1, <1>2, <1>4, <1>5, <1>6 DEF Account
<1>12. Placed' /\ Shown'
  <2>1. at' = at + k /\ size' = size - k /\ pos' = pos + k
    BY <1>4
  <2> QED BY <1>1, <1>2, <1>5, <1>6, <1>7, <2>1 DEF Placed, Shown
<1>13. Calls'
  BY <1>1, <1>2, <1>4, <1>5, <1>7, <1>8 DEF Calls, Consuming
<1>14. Delivered' /\ EosHonest' /\ RequireDelivers'
  <2>1. Len(dest) \in Nat
    BY DEF Inv, TypeOK
  <2>2. pos' = origin' + Len(dest')
    BY <1>1, <1>2, <1>4, <1>5, <1>9, <2>1
  <2> QED BY <1>1, <1>7, <1>9, <2>2 DEF Delivered, EosHonest, RequireDelivers
<1> QED BY <1>10, <1>11, <1>12, <1>13, <1>14 DEF Inv

LEMMA BulkChunkInv ==
  ASSUME Disciplined, Inv, BulkChunk
  PROVE  Inv'
<1> USE DEF window, chunk
<1>1. /\ pc = "bulk" /\ ~torn /\ start = -1 /\ size = 0 /\ left > 0
      /\ Placed /\ pos + left = origin + asked /\ origin <= pos
      /\ pos = to /\ pos = origin + Len(dest)
      /\ origin + asked <= StreamSize /\ op = "bulk" /\ asked \in Reads
      /\ UNCHANGED <<start, small, origin, op, asked>>
  BY Numbers DEF BulkChunk, Inv, Calls, Consuming, Placed, Delivered
<1>2. /\ at \in Nat /\ supplied \in Nat /\ pos \in Nat /\ to = supplied
      /\ first \in Nat /\ from \in Nat /\ origin \in Nat /\ asked \in Nat
      /\ first <= from /\ from <= to /\ inputSize \in Nat /\ inputSize = StreamSize - pos
      /\ supplied <= StreamSize /\ StreamSize \in Nat /\ SupplySize = StreamSize
      /\ pos <= supplied /\ left \in Nat /\ Word \in Nat /\ StreamSize < Word
  BY Numbers
<1>3. /\ dest \in Seq(Nat)
      /\ area \in {"chunk", "small", "none"} /\ (area = "small" => at + size <= SmallSize)
      /\ rx \in {"ok", "supplier", "end_of_stream", "buffer_size_exceeded"}
  BY DEF Inv, TypeOK
<1>4. CASE SupplierFails /\ UNCHANGED <<window, inputSize, pos, left, dest>>
  <2>1. /\ UNCHANGED <<area, at, size, inputSize, pos, left, dest, first, from, to, supplied, torn>>
        /\ pc' = "idle" /\ rx' = "supplier"
    BY <1>4 DEF SupplierFails, Return
  <2>2. TypeOK'
    BY <1>1, <1>2, <1>3, <2>1, ConsumeType
  <2>3. Account' /\ Placed' /\ Shown'
    BY <1>1, <2>1 DEF Inv, Account, Placed, Shown
  <2>4. Calls' /\ Delivered' /\ EosHonest' /\ RequireDelivers'
    BY <1>1, <2>1 DEF Inv, Calls, Consuming, Delivered, EosHonest, RequireDelivers
  <2> QED BY <2>2, <2>3, <2>4 DEF Inv
<1>5. ASSUME NEW s \in Offered, NEW k, k = Lesser(left, Trimmed(s)), Acquire(s, k),
             Deliver([i \in 0 .. k - 1 |-> supplied + i], k), ShowNothing,
             inputSize' = (inputSize - k) % Word,
             pos' = pos + k, left' = left - k, UNCHANGED torn,
             Goto(IF left' # 0 THEN "bulk" ELSE "reset")
      PROVE  Inv'
  <2>1. s \in Nat /\ s > 0 /\ Trimmed(s) = s /\ supplied + s <= StreamSize
    BY OfferedType
  <2>2. /\ inputSize' = (inputSize - k) % Word
        /\ pos' = pos + k /\ left' = left - k /\ torn' = torn
    BY <1>5
  <2>3. k \in Nat /\ k <= s /\ k <= left /\ (k = s \/ k = left)
    <3>1. k = Lesser(left, s)
      <4>1. k = Lesser(left, Trimmed(s))
        BY <1>5
      <4> QED BY <2>1, <4>1
    <3> QED BY <1>2, <2>1, <3>1, LesserType
  <2>4. /\ first' = supplied /\ from' = supplied + k /\ to' = supplied + s
        /\ supplied' = supplied + s
    <3>1. Acquire(s, k)
      BY <1>5
    <3> QED BY <2>3, <3>1, AcquireType
  <2>5. pos = supplied /\ inputSize' = StreamSize - (pos + k)
    BY <1>1, <1>2, <2>2, <2>1, <2>3, TakenOff
  <2>6. /\ pc' = (IF left' # 0 THEN "bulk" ELSE "reset") /\ rx' = rx
        /\ area' = "none" /\ at' = 0 /\ size' = 0
    BY <1>5 DEF Goto, ShowNothing
  <2>7. /\ pc' \in {"bulk", "reset"} /\ (pc' = "bulk" => k = s /\ left' > 0)
        /\ (pc' = "reset" => left' = 0)
    BY <1>2, <2>2, <2>3, <2>6
  <2>8. /\ dest' \in Seq(Nat) /\ Len(dest') = Len(dest) + k
        /\ \A j \in DOMAIN dest' : dest'[j] = origin + j - 1
    <3>1. \A i \in 0 .. k - 1 : [j \in 0 .. k - 1 |-> supplied + j][i] = pos + i
      BY <2>5
    <3> QED BY <1>1, <1>5, <2>3, <3>1, DeliverHolds
  <2>9. TypeOK'
    <3>1. /\ inputSize' \in Nat /\ inputSize' < Word /\ pos' \in Nat /\ left' \in Nat
          /\ first' \in Nat /\ from' \in Nat /\ to' \in Nat /\ supplied' \in Nat
          /\ first' <= from' /\ from' <= to' /\ to' <= supplied' /\ supplied' <= SupplySize
      BY <1>2, <2>2, <2>1, <2>3, <2>4, <2>5
    <3> QED BY <1>1, <1>2, <1>3, <2>2, <2>6, <2>7, <2>8, <3>1, ConsumeType
  <2>10. Account'
    BY <1>2, <2>2, <2>1, <2>3, <2>4, <2>5 DEF Account
  <2>11. Placed' /\ Shown'
    BY <1>1, <1>2, <2>2, <2>1, <2>3, <2>4, <2>5, <2>6, <2>7 DEF Placed, Shown
  <2>12. Calls' /\ EosHonest' /\ RequireDelivers'
    BY <1>1, <1>2, <2>2, <2>3, <2>6, <2>7 DEF Calls, Consuming, EosHonest, RequireDelivers
  <2>13. Delivered'
    <3>1. Len(dest) \in Nat
      BY <1>3
    <3>2. pos' = origin' + Len(dest')
      BY <1>1, <1>2, <2>2, <2>3, <2>8, <3>1
    <3> QED BY <1>1, <2>8, <3>2 DEF Delivered
  <2> QED BY <2>9, <2>10, <2>11, <2>12, <2>13 DEF Inv
<1> QED BY <1>4, <1>5 DEF BulkChunk

-----------------------------------------------------------------------------
(* The invariant and what it implies                                       *)

LEMMA InvNext == Disciplined /\ Inv /\ [Next]_vars => Inv'
<1> SUFFICES ASSUME Disciplined, Inv, [Next]_vars PROVE Inv'
  OBVIOUS
<1>1. CASE UNCHANGED vars
  BY <1>1 DEF vars, window, chunk, call, Inv, TypeOK, Account, Placed, Shown, Calls,
     Consuming, Delivered, EosHonest, RequireDelivers
<1>2. CASE \E n \in Requests : RequireInput(n)
  BY <1>2, RequireInputInv
<1>3. CASE \E n \in Discards : DiscardInput(n)
  BY <1>3, DiscardInputInv
<1>4. CASE \E n \in Reads : BulkRead(n)
  BY <1>4, BulkReadInv
<1>5. CASE Require
  BY <1>5, RequireAtSplitInv, RequireFuseInv, RequireSwitchBackInv, RequireRefillInv
  DEF Require
<1>6. CASE DiscardChunk \/ FinishInChunk
  BY <1>6, DiscardChunkInv, FinishInChunkInv
<1>7. CASE Bulk
  BY <1>7, BulkRetireInv, BulkAgainInv, BulkChunkInv DEF Bulk
<1> QED BY <1>1, <1>2, <1>3, <1>4, <1>5, <1>6, <1>7 DEF Next

LEMMA InvInOrder == ASSUME Disciplined, Inv PROVE InOrder
<1>1. \A i \in 0 .. size - 1 : View(i) = pos + i
  <2>1. CASE torn
    BY <2>1 DEF Inv, Calls, Shown, View
  <2>2. CASE ~torn /\ pc = "reset"
    BY <2>2 DEF Inv, Calls
  <2>3. CASE ~torn /\ pc # "reset"
    BY <2>3, WindowHolds DEF Inv
  <2> QED BY <2>1, <2>2, <2>3
<1>2. \A i \in DOMAIN dest : dest[i] = origin + i - 1
  BY DEF Inv, Delivered
<1>3. pc # "undefined"
  BY DEF Inv, Calls
<1> QED BY <1>1, <1>2, <1>3 DEF InOrder

LEMMA InvReadArea == ASSUME Disciplined, Inv PROVE ReadAreaUnread
<1> SUFFICES ASSUME ~torn, pc = "idle"
             PROVE  ReadAreaBegin = IF pos < first THEN first ELSE pos
  BY DEF ReadAreaUnread
<1>1. /\ at \in Nat /\ size \in Nat /\ pos \in Nat /\ first \in Nat /\ from \in Nat
      /\ to \in Nat /\ start \in Int
  BY Numbers
<1>2. CASE start < 0
  <2>1. pos + size = to /\ first <= pos
    BY <1>2 DEF Inv, Placed
  <2> QED BY <1>1, <1>2, <2>1 DEF ReadAreaBegin
<1>3. CASE start >= 0
  <2>1. from = first /\ from + at = pos + start
    BY <1>3 DEF Inv, Placed
  <2> QED BY <1>1, <1>3, <2>1 DEF ReadAreaBegin
<1> QED BY <1>1, <1>2, <1>3

(* What a step is to a caller who only sees calls begin and return         *)
Amounts == Requests \union Discards \union Reads
Base == IF pc = "idle" THEN pos ELSE origin

Begins ==
  /\ pc = "idle" /\ pc' # "idle" /\ origin' = pos
  /\ op' \in {"require", "discard", "bulk"} /\ asked' \in Amounts

Continues == pc # "idle" /\ pc' # "idle" /\ UNCHANGED <<op, asked, origin>>

Answers ==
  /\ pc' = "idle" /\ op' \in {"require", "discard", "bulk"} /\ asked' \in Amounts
  /\ pc # "idle" => UNCHANGED <<op, asked>>
  /\ pos' - Base \in Source!Consumed(op', asked', rx')

LEMMA RequireVisible ==
  ASSUME Disciplined, Inv, Require
  PROVE  Continues \/ Answers
<1>1. /\ pc = "require" /\ op = "require" /\ asked \in Requests /\ origin = pos
      /\ UNCHANGED <<pos, origin, op, asked>>
  BY DEF Require, RequireAtSplit, RequireFuse, RequireSwitchBack, RequireRefill, Inv, Calls
<1>2. pos' - Base = 0
  BY <1>1, Numbers DEF Base
<1> QED BY <1>1, <1>2 DEF Continues, Answers, Amounts, Source!Consumed

LEMMA CallVisible ==
  ASSUME Disciplined, Inv, Inv',
         \/ \E n \in Requests : RequireInput(n)
         \/ \E n \in Discards : DiscardInput(n)
         \/ \E n \in Reads : BulkRead(n)
  PROVE  Begins \/ Answers
<1>1. pc = "idle" /\ Base = pos /\ pos \in Nat /\ size \in Nat
  BY Numbers DEF RequireInput, DiscardInput, BulkRead, Ready, Base
<1>2. ASSUME NEW n \in Requests, RequireInput(n) PROVE Begins \/ Answers
  <2>1. pos' - Base = 0 /\ op' = "require" /\ asked' = n /\ origin' = pos
    BY <1>1, <1>2 DEF RequireInput
  <2> QED BY <1>1, <2>1 DEF Begins, Answers, Amounts, Source!Consumed
<1>3. ASSUME NEW n \in Discards, DiscardInput(n) PROVE Begins \/ Answers
  <2>1. /\ op' = "discard" /\ asked' = n /\ origin' = pos /\ n \in Nat
        /\ \/ pc' = "idle" /\ rx' = "ok" /\ pos' = pos + n
           \/ pc' = "idle" /\ rx' = "end_of_stream" /\ pos' = pos
           \/ pc' # "idle"
    BY <1>3, InputAssumption DEF DiscardInput, Return, Goto
  <2>2. \/ rx' = "ok" /\ pos' - Base = n
        \/ rx' = "end_of_stream" /\ pos' - Base = 0
        \/ pc' # "idle"
    BY <1>1, <2>1
  <2> QED BY <1>1, <2>1, <2>2 DEF Begins, Answers, Amounts, Source!Consumed
<1>4. ASSUME NEW n \in Reads, BulkRead(n) PROVE Begins \/ Answers
  <2>1. /\ op' = "bulk" /\ asked' = n /\ origin' = pos /\ n \in Nat
        /\ \/ pc' = "idle" /\ rx' = "ok" /\ pos' = pos + n
           \/ pc' = "idle" /\ rx' = "end_of_stream" /\ pos' = pos
           \/ pc' # "idle"
    BY <1>4, InputAssumption DEF BulkRead, Return, Goto
  <2>2. \/ rx' = "ok" /\ pos' - Base = n
        \/ rx' = "end_of_stream" /\ pos' - Base = 0
        \/ pc' # "idle"
    BY <1>1, <2>1
  <2> QED BY <1>1, <2>1, <2>2 DEF Begins, Answers, Amounts, Source!Consumed
<1> QED BY <1>2, <1>3, <1>4

LEMMA ConsumeVisible ==
  ASSUME Disciplined, Inv, Inv', DiscardChunk \/ FinishInChunk \/ Bulk
  PROVE  Continues \/ Answers
<1>1. /\ Consuming /\ origin <= pos /\ pos + left = origin + asked
      /\ op \in {"discard", "bulk"} /\ asked \in Amounts
      /\ UNCHANGED <<origin, op, asked>>
  BY DEF DiscardChunk, FinishInChunk, Bulk, BulkRetire, BulkAgain, BulkChunk, Inv, Calls,
         Consuming, Amounts
<1>2. /\ pos \in Nat /\ origin \in Nat /\ left \in Nat /\ asked \in Nat /\ size \in Nat
      /\ pc # "idle" /\ Base = origin /\ left <= inputSize
  <2>1. /\ pos \in Nat /\ origin \in Nat /\ left \in Nat /\ asked \in Nat /\ size \in Nat
        /\ inputSize = StreamSize - pos /\ StreamSize \in Nat
    BY Numbers
  <2>2. pc # "idle" /\ Base = origin
    BY <1>1 DEF Consuming, Base
  <2>3. origin + asked <= StreamSize
    BY <1>1 DEF Inv, Calls
  <2> QED BY <1>1, <2>1, <2>2, <2>3
<1>3. ASSUME pc' = "idle"
      PROVE  \/ rx' = "ok" /\ pos' = pos + left
             \/ rx' = "supplier" /\ pos' = pos
  <2>1. CASE DiscardChunk
    BY <1>3, <2>1 DEF DiscardChunk, SupplierFails, Return, Goto
  <2>2. CASE FinishInChunk
    BY <1>2, <1>3, <2>2 DEF FinishInChunk, SupplierFails, Return, Inv, Calls
  <2>3. CASE BulkRetire
    BY <1>3, <2>3 DEF BulkRetire, Goto
  <2>4. CASE BulkAgain
    <3>1. ~(left > inputSize)
      BY <1>2, Numbers
    <3> QED BY <1>3, <2>4, <3>1 DEF BulkAgain, Return, Goto
  <2>5. CASE BulkChunk
    BY <1>3, <2>5 DEF BulkChunk, SupplierFails, Return, Goto
  <2> QED BY <2>1, <2>2, <2>3, <2>4, <2>5 DEF Bulk
<1>4. CASE pc' = "idle"
  <2>1. \/ rx' = "ok" /\ pos' - Base = asked
        \/ rx' = "supplier" /\ pos' - Base \in 0 .. asked
    BY <1>1, <1>2, <1>3, <1>4
  <2> QED BY <1>1, <1>2, <1>4, <2>1 DEF Answers, Source!Consumed
<1> QED BY <1>1, <1>2, <1>4 DEF Continues

LEMMA SourceInit == Init => Source!Init
BY DEF Init, Source!Init

LEMMA SourceNext ==
  Disciplined /\ Inv /\ Inv' /\ [Next]_vars => [Source!Next]_(Source!vars)
<1> SUFFICES ASSUME Disciplined, Inv, Inv', [Next]_vars
             PROVE  [Source!Next]_(Source!vars)
  OBVIOUS
<1>1. \/ UNCHANGED vars \/ Begins \/ Continues \/ Answers
  BY CallVisible, RequireVisible, ConsumeVisible DEF Next
<1>2. CASE UNCHANGED vars
  BY <1>2 DEF vars, call, Source!vars
<1>3. CASE Continues
  BY <1>3 DEF Continues, Source!vars
<1>4. rx # "running" /\ rx' \in {"ok", "supplier", "end_of_stream", "buffer_size_exceeded"}
  BY DEF Inv, TypeOK
<1>5. CASE Begins
  <2>1. Source!Start(op', asked')
    BY <1>4, <1>5 DEF Begins, Source!Start
  <2> QED BY <1>5, <2>1 DEF Begins, Source!Next, Amounts
<1>6. CASE Answers
  <2>1. Base \in Nat /\ pos' \in Nat /\ pos' <= StreamSize
    <3>1. Base \in Nat
      BY Numbers DEF Base
    <3>2. pos' \in Nat /\ supplied' \in Nat /\ supplied' <= SupplySize /\ pos' <= supplied'
      BY DEF Inv, TypeOK, Account
    <3>3. SupplySize = StreamSize /\ StreamSize \in Nat
      BY Numbers
    <3> QED BY <3>1, <3>2, <3>3
  <2>2. Base + (pos' - Base) = pos'
    <3>1. \A a, b \in Nat : a + (b - a) = b
      OBVIOUS
    <3> QED BY <2>1, <3>1
  <2>3. Source!Return(op', asked', rx')
    BY <1>4, <1>6, <2>1, <2>2 DEF Answers, Base, Source!Return
  <2> QED BY <1>4, <1>6, <2>3 DEF Answers, Source!Next, Amounts
<1> QED BY <1>1, <1>2, <1>3, <1>5, <1>6

-----------------------------------------------------------------------------
(* The theorems, for every stream and every choice of chunks, under what   *)
(* Disciplined asks of the caller and the supplier                         *)

(* Every pointer stays in its buffer, every count in its range.            *)
THEOREM TypeCorrect == ASSUME Disciplined PROVE Spec => []TypeOK
<1>1. Init => Inv
  BY InvInit
<1>2. Inv /\ [Next]_vars => Inv'
  BY InvNext
<1>3. Inv => TypeOK
  BY DEF Inv
<1> QED BY <1>1, <1>2, <1>3, PTL DEF Spec

(* A disciplined caller sees the stream's bytes, all of them and in their  *)
(* order, through every fusion of chunks, every failure and every call     *)
(* after it, and reaches no undefined behaviour.                           *)
THEOREM BytesInOrder == ASSUME Disciplined PROVE Spec => []InOrder
<1>1. Init => Inv
  BY InvInit
<1>2. Inv /\ [Next]_vars => Inv'
  BY InvNext
<1>3. Inv => InOrder
  BY InvInOrder
<1> QED BY <1>1, <1>2, <1>3, PTL DEF Spec

(* end_of_stream is reported only when the stream is too short.            *)
THEOREM EndOfStreamIsHonest == ASSUME Disciplined PROVE Spec => []EosHonest
<1>1. Init => Inv
  BY InvInit
<1>2. Inv /\ [Next]_vars => Inv'
  BY InvNext
<1>3. Inv => EosHonest
  BY DEF Inv
<1> QED BY <1>1, <1>2, <1>3, PTL DEF Spec

(* A require_input() that succeeds makes the bytes available.              *)
THEOREM RequiredIsThere == ASSUME Disciplined PROVE Spec => []RequireDelivers
<1>1. Init => Inv
  BY InvInit
<1>2. Inv /\ [Next]_vars => Inv'
  BY InvNext
<1>3. Inv => RequireDelivers
  BY DEF Inv
<1> QED BY <1>1, <1>2, <1>3, PTL DEF Spec

(* current_read_area() begins with the first byte not consumed yet.        *)
THEOREM ReadAreaIsUnread == ASSUME Disciplined PROVE Spec => []ReadAreaUnread
<1>1. Init => Inv
  BY InvInit
<1>2. Inv /\ [Next]_vars => Inv'
  BY InvNext
<1>3. Inv => ReadAreaUnread
  BY InvReadArea
<1> QED BY <1>1, <1>2, <1>3, PTL DEF Spec

(* For a disciplined caller the chunked stream implements the abstract     *)
(* source: calls consume what they say, whichever buffers answer them.     *)
THEOREM InputIsAByteSource == ASSUME Disciplined PROVE Spec => ImplementsByteSource
<1>1. Init => Inv
  BY InvInit
<1>2. Inv /\ [Next]_vars => Inv'
  BY InvNext
<1>3. Inv /\ Inv' /\ [Next]_vars => [Source!Next]_(Source!vars)
  BY SourceNext
<1> QED
  BY <1>1, <1>2, <1>3, SourceInit, PTL DEF Spec, ImplementsByteSource, Source!Spec
=============================================================================
