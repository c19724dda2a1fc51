--------------------------- MODULE MemoryStreams ----------------------------
(***************************************************************************)
(* The streams that keep their bytes in memory.  Outputs: one over a given *)
(* span (memory_output_stream), one that grows (dynamic_memory_output_     *)
(* stream), one that only counts (void_stream) and the one over a legacy   *)
(* memory_buffer; inputs: memory_input_stream, the one over a legacy       *)
(* buffer, and "stream", an input whose supplier shows any part of what is *)
(* left and may fail.  Each is a record, each call yields the set of its   *)
(* outcomes.  An output's data() is mem after its first `at' bytes, its    *)
(* size() is `room'.                                                       *)
(***************************************************************************)
EXTENDS Integers, Sequences

CONSTANTS
  PageSize,  \* page_size of dynamic_memory_output_stream (4096)
  VoidSize,  \* void_buffer_size of void_stream (4000)
  Junk       \* a byte nobody wrote

ASSUME StreamAssumption ==
  /\ PageSize \in {2^n : n \in 1 .. 12}
  /\ VoidSize \in Nat /\ VoidSize >= 9

Lesser(a, b) == IF a < b THEN a ELSE b

(* mem with the bytes from position `at' on replaced                       *)
Overwrite(mem, at, bytes) ==
  [k \in DOMAIN mem |-> IF k - at \in DOMAIN bytes THEN bytes[k - at] ELSE mem[k]]

(* What resize() makes of a vector of bytes: it keeps what fits.           *)
Resized(mem, n, fill) ==
  [k \in 1 .. n |-> IF k <= Len(mem) THEN mem[k] ELSE fill]

-----------------------------------------------------------------------------
(* basic_memory_buffer: a window at the end of an allocation               *)

WholeBuffer(n) == [begin |-> 0, size |-> n, alloc |-> n]

ConsumedSize(b) == b.alloc - b.size

(* Mutant of MoveConsumer: the window keeps its size.                      *)
MoveConsumerOnly(b, n) == [b EXCEPT !.begin = @ + n]

MoveConsumer(b, n) == [b EXCEPT !.begin = @ + n, !.size = @ - n]

MoveConsumerTo(b, offset) ==
  LET size == b.alloc - offset IN
  [b EXCEPT !.begin = @ + b.size - size, !.size = size]

ResetBuffer(b) == [b EXCEPT !.begin = @ + b.size - b.alloc, !.size = b.alloc]

-----------------------------------------------------------------------------
(* Output streams                                                          *)

(* The constructors; a dynamic stream may start with a buffer of its own.  *)
Output(kind, n) ==
  LET size == IF kind = "void" THEN VoidSize ELSE n IN
  [kind |-> kind, mem |-> [k \in 1 .. size |-> Junk], at |-> 0, room |-> size,
   total |-> 0, buf |-> WholeBuffer(IF kind = "legacy" THEN n ELSE 0)]

(* get_output_buffer: a legacy buffer is written through a stream that is  *)
(* made for the call, any other stream is used as it is.                   *)
OpenOutput(out) ==
  IF out.kind = "legacy" THEN [out EXCEPT !.at = out.buf.begin, !.room = out.buf.size]
  ELSE out

Wrote(out, rx) == {[out |-> out, rx |-> rx]}

(* buffer_size_for: whole pages, half as much again until it is enough     *)
RoundUp(n) == ((n + PageSize - 1) \div PageSize) * PageSize

BufferSizeFor(required) ==
  LET f[acc \in Nat \ {0}] == IF acc >= required THEN acc ELSE f[RoundUp((acc * 3) \div 2)]
  IN  f[PageSize]

(* Mutant of GrowDynamic: the new buffer is written from its beginning.    *)
GrowDynamicFromStart(out, n) ==
  LET size == BufferSizeFor(Len(out.mem) + n) IN
  Wrote([out EXCEPT !.mem = Resized(out.mem, size, 0), !.at = 0, !.room = size], "ok")

(* dynamic_memory_output_stream::do_grow                                   *)
GrowDynamic(out, n) ==
  LET size == BufferSizeFor(Len(out.mem) + n) IN
  Wrote([out EXCEPT !.mem = Resized(out.mem, size, 0), !.room = size - out.at], "ok")
    \union Wrote(out, "not_enough_memory")

(* void_stream::do_grow                                                    *)
GrowVoid(out, n) ==
  IF n > VoidSize THEN Wrote(out, "end_of_stream")
  ELSE Wrote([out EXCEPT !.total = @ + VoidSize - out.room,
                         !.at = 0, !.room = VoidSize], "ok")

(* do_grow                                                                 *)
Grow(out, n) ==
  IF out.kind = "dynamic" THEN GrowDynamic(out, n)
  ELSE IF out.kind = "void" THEN GrowVoid(out, n)
  ELSE Wrote(out, "end_of_stream")

EnsureSize(out, n) == IF out.room < n THEN Grow(out, n) ELSE Wrote(out, "ok")

(* A store of bytes at data(), of which the first n are committed: beyond  *)
(* size() it is undefined behaviour.                                       *)
Put(out, bytes, n) ==
  IF Len(bytes) > out.room THEN Wrote(out, "undefined")
  ELSE Wrote([out EXCEPT !.mem = Overwrite(@, out.at, bytes),
                         !.at = @ + n, !.room = @ - n], "ok")

(* do_bulk_write: the window is used up when it is called.                 *)
DoBulkWrite(out, bytes) ==
  IF out.kind = "dynamic"
  THEN UNION {IF r.rx = "ok" THEN Put(r.out, bytes, Len(bytes)) ELSE {r}
                : r \in GrowDynamic(out, Len(bytes))}
  ELSE IF out.kind = "void"
  THEN Wrote([out EXCEPT !.total = @ + VoidSize + Len(bytes),
                         !.at = 0, !.room = VoidSize], "ok")
  ELSE Wrote(out, "end_of_stream")

(* bulk_write: what fits goes to the window.                               *)
BulkWrite(out, bytes) ==
  LET n == Lesser(Len(bytes), out.room) IN
  UNION {IF n = Len(bytes) THEN {r} ELSE DoBulkWrite(r.out, SubSeq(bytes, n + 1, Len(bytes)))
           : r \in Put(out, SubSeq(bytes, 1, n), n)}

(* sync_output: only a legacy buffer is told how far the stream came.      *)
SyncOutput(out) ==
  IF out.kind = "legacy"
  THEN [out EXCEPT !.buf = MoveConsumer(@, out.at - @.begin)]
  ELSE out

(* written(); of a legacy buffer, what is consumed                         *)
Written(out) ==
  IF out.kind = "legacy" THEN SubSeq(out.mem, 1, ConsumedSize(out.buf))
  ELSE SubSeq(out.mem, 1, Len(out.mem) - out.room)

(* total_written()                                                         *)
TotalWritten(out) == out.total + VoidSize - out.room

-----------------------------------------------------------------------------
(* Input buffers.  `asked' records the largest number of elements a        *)
(* container was asked to make room for.                                   *)

(* How much of the n bytes that are left is buffered                       *)
Windows(kind, n) == IF kind = "stream" THEN 0 .. n ELSE {n}

Input(kind, bytes, window) ==
  [kind |-> kind, bytes |-> bytes, at |-> 0, window |-> window, asked |-> 0,
   buf |-> WholeBuffer(IF kind = "legacy" THEN Len(bytes) ELSE 0)]

(* get_input_buffer                                                        *)
OpenInput(in) ==
  IF in.kind = "legacy" THEN [in EXCEPT !.at = in.buf.begin, !.window = in.buf.size]
  ELSE in

InputSize(in) == Len(in.bytes) - in.at

Buffered(in, n) == SubSeq(in.bytes, in.at + 1, in.at + n)   \* n bytes from data() on

DiscardBuffered(in, n) == [in EXCEPT !.at = @ + n, !.window = @ - n]

(* The result of a call on an input: the value is what it read, or what    *)
(* the destination holds afterwards, n a count it returns.                 *)
Result(in, rx, value, n) == [in |-> in, rx |-> rx, value |-> value, n |-> n]
Ok(in, value) == {Result(in, "ok", value, 0)}
Fail(in, rx, value) == {Result(in, rx, value, 0)}

(* DPLX_TRY: go on unless it failed; Try: what failed had nothing to do    *)
(* with the destination, which holds `value'.                              *)
Then(results, Op(_)) == UNION {IF r.rx = "ok" THEN Op(r) ELSE {r} : r \in results}

Try(results, value, Op(_)) ==
  UNION {IF r.rx = "ok" THEN Op(r) ELSE Fail(r.in, r.rx, value) : r \in results}

(* require_input                                                           *)
RequireInput(in, n) ==
  IF n > InputSize(in) THEN Fail(in, "end_of_stream", <<>>)
  ELSE IF n <= in.window THEN Ok(in, <<>>)
  ELSE Fail(in, "bad", <<>>)
         \union UNION {Ok([in EXCEPT !.window = w], <<>>) : w \in n .. InputSize(in)}

(* do_bulk_read of a "stream": it may fail after any byte.                 *)
DoBulkRead(in, n) ==
  LET left == InputSize(in) - n IN
  (UNION {Ok([in EXCEPT !.at = @ + n, !.window = w], Buffered(in, n)) : w \in 0 .. left})
    \union (UNION {Fail([in EXCEPT !.at = @ + m, !.window = 0], "bad", Buffered(in, m))
                     : m \in in.window .. n - 1})

(* bulk_read: the value is what was read, even if it fails.                *)
BulkRead(in, n) ==
  IF n = 0 THEN Ok(in, <<>>)
  ELSE IF n > InputSize(in) THEN Fail(in, "end_of_stream", <<>>)
  ELSE IF n <= in.window THEN Ok(DiscardBuffered(in, n), Buffered(in, n))
  ELSE DoBulkRead(in, n)

(* sync_input                                                              *)
SyncInput(in) ==
  IF in.kind = "legacy" THEN [in EXCEPT !.buf = MoveConsumer(@, in.at - @.begin)]
  ELSE in
=============================================================================
