------------------------------ MODULE ItemWalk ------------------------------
(***************************************************************************)
(* skip_item() and copy_item_to(): they walk over one encoded CBOR item of *)
(* any nesting with an explicit stack of item heads.  Both have the same   *)
(* structure; skip_item parses (consumes) a head before it looks at it,    *)
(* copy_item_to peeks at it and copies it when it pushes it.               *)
(*                                                                         *)
(* The input is a sequence of units, an item head or one byte of a string. *)
(* It is chosen unit by unit while the walk reads it; it may end at any    *)
(* unit, and the stream it comes from may fail in the middle of a string.  *)
(***************************************************************************)
EXTENDS Integers, Sequences

CONSTANTS
  Heads,     \* the item heads the input may contain
  Word,      \* 2^64, the modulus of the amount of a chunk that is copied
  MaxUnits,  \* bound on the length of the input
  MaxDepth   \* bound on the stack: push_back may throw std::bad_alloc

Types == {"posint", "negint", "binary", "text", "array", "map", "tag", "special"}

(* A unit that is part of a string                                         *)
Byte == [type |-> "byte", ind |-> FALSE, value |-> 0, encoded_length |-> 1]

(* What is taken of a head when it is not taken as a whole                 *)
Torn == [type |-> "torn", ind |-> FALSE, value |-> 0, encoded_length |-> 1]

(* What the input is made of, as the walk takes it                         *)
Units == Heads \union {Byte, Torn}

(* The value of a head is any 64 bit number.                               *)
ASSUME WalkAssumption ==
  /\ Heads \subseteq [type : Types, ind : BOOLEAN, value : 0 .. Word - 1,
                      encoded_length : 1 .. Word - 1]
  /\ \A h \in Heads : h.ind => h.value # 0   \* make_indefinite() leaves the 31
  /\ Word \in Nat \ {0} /\ MaxUnits \in Nat /\ MaxDepth \in Nat

VARIABLES
  mode,      \* which of the two functions runs
  consumed,  \* the units taken from the input
  out,       \* the units written to the output (copy_item_to)
  stack,     \* the item heads; their flags also tell a map's key from value
  bytes,     \* what is left of the string that is being skipped or copied
  within,    \* the string is a chunk of an indefinite one
  pc, rx

vars == <<mode, consumed, out, stack, bytes, within, pc, rx>>

Top == stack[Len(stack)]
Popped == SubSeq(stack, 1, Len(stack) - 1)

(* item_head with the bit that tracks whether a map's value comes next     *)
Item(h) == [type |-> h.type, ind |-> h.ind, value |-> h.value, second |-> FALSE]

IsBreak(h) == h.type = "special" /\ h.ind

Init ==
  /\ mode \in {"skip", "copy"}
  /\ consumed = <<>> /\ out = <<>> /\ stack = <<>>
  /\ bytes = 0 /\ within = FALSE
  /\ pc = "first" /\ rx = "ok"

-----------------------------------------------------------------------------
(* Building blocks                                                         *)

Fail(e) ==
  /\ pc' = "done" /\ rx' = e
  /\ UNCHANGED <<mode, bytes, within>>

(* Any read may find the end of the input, and has to at the bound, or the *)
(* stream fails before it has given anything.                              *)
InputEnds ==
  /\ \E e \in {"end_of_stream", "input"} : Fail(e)
  /\ UNCHANGED <<consumed, out, stack>>

Bytes(n) == [k \in 1 .. n |-> Byte]

(* The stream fails when it has given the first of the n bytes it was      *)
(* asked for, behind the units of front.  They are gone: copy_item_to has  *)
(* not committed them to the output.                                       *)
InputFails(front, n) ==
  /\ n > 0
  /\ \E m \in 0 .. n :
       /\ Len(consumed) + Len(front) + m <= MaxUnits
       /\ consumed' = consumed \o (front \o Bytes(m))
  /\ Fail("input")
  /\ UNCHANGED <<out, stack>>

(* The heads that may come next                                            *)
Upcoming == IF Len(consumed) < MaxUnits THEN Heads ELSE {}

(* The head is taken from the input and, by copy_item_to, written          *)
(* (small_buffer_copy, copy_special_break_to).                             *)
Pass(h) ==
  /\ consumed' = Append(consumed, h)
  /\ out' = IF mode = "copy" THEN Append(out, h) ELSE out

(* copy_item_to: ensure_size() fails; the head is still in the input.      *)
OutputFails ==
  /\ mode = "copy"
  /\ Fail("output")
  /\ UNCHANGED <<consumed, out, stack>>

(* A head that is refused: skip_item has consumed it, copy_item_to has not.*)
Refuse(h, e) ==
  /\ Fail(e)
  /\ consumed' = IF mode = "skip" THEN Append(consumed, h) ELSE consumed
  /\ UNCHANGED <<out, stack>>

(* Mutant of Continue: the loop goes on with an empty stack.               *)
ContinueForever(s) ==
  /\ stack' = s
  /\ pc' = "walk"
  /\ UNCHANGED <<mode, bytes, within, rx>>

(* The loop goes on until the stack is empty.                              *)
Continue(s) ==
  /\ stack' = s
  /\ pc' = IF s = <<>> THEN "done" ELSE "walk"
  /\ UNCHANGED <<mode, bytes, within, rx>>

(* stack.push_back(h) on the stack s                                       *)
Push(s, h) ==
  /\ Pass(h)
  /\ IF Len(s) < MaxDepth
     THEN Continue(Append(s, Item(h)))
     ELSE Fail("not_enough_memory") /\ stack' = s

(* pushItemHead of copy_item_to may run into a full output.                *)
PushHead(s, h) == Push(s, h) \/ OutputFails

(* The special break ends the item on top of the stack; when ensure_size() *)
(* fails copy_special_break_to has consumed it already.                    *)
PopAtBreak(h) ==
  \/ Pass(h) /\ Continue(Popped)
  \/ /\ mode = "copy"
     /\ Fail("output")
     /\ consumed' = Append(consumed, h)
     /\ UNCHANGED <<out, stack>>

-----------------------------------------------------------------------------
(* The first head                                                          *)
First ==
  /\ pc = "first"
  /\ InputEnds \/ \E h \in Upcoming : PushHead(<<>>, h)

(* Mutant of Scalar: the item stays on the stack.                          *)
ScalarKept ==
  /\ pc = "walk"
  /\ Top.type \in {"posint", "negint", "special"} /\ ~IsBreak(Top)
  /\ UNCHANGED vars

(* posint, negint, special: nothing follows the head.                      *)
Scalar ==
  /\ pc = "walk"
  /\ Top.type \in {"posint", "negint", "special"} /\ ~IsBreak(Top)
  /\ Continue(Popped)
  /\ UNCHANGED <<consumed, out>>

(* special break has no business being here.                               *)
StrayBreak ==
  /\ pc = "walk" /\ IsBreak(Top)
  /\ Fail("item_type_mismatch")
  /\ UNCHANGED <<consumed, out, stack>>

(* An array or a map whose elements are complete                           *)
Complete ==
  /\ pc = "walk" /\ Top.type \in {"array", "map"} /\ Top.value = 0
  /\ Continue(Popped)
  /\ UNCHANGED <<consumed, out>>

(* The next element of an array                                            *)
ArrayNext ==
  /\ pc = "walk" /\ Top.type = "array" /\ Top.value # 0
  /\ \/ InputEnds
     \/ \E h \in Upcoming :
          IF Top.ind /\ IsBreak(h) THEN PopAtBreak(h)
          ELSE PushHead([stack EXCEPT ![Len(stack)].value =
                           IF Top.ind THEN @ ELSE @ - 1], h)

(* Mutant of MapNext: a break is accepted where a value is expected.       *)
MapNextOddBreak ==
  /\ pc = "walk" /\ Top.type = "map" /\ Top.value # 0
  /\ \/ InputEnds
     \/ \E h \in Upcoming :
          IF Top.ind /\ IsBreak(h) THEN PopAtBreak(h)
          ELSE PushHead([stack EXCEPT
                           ![Len(stack)].second = ~@,
                           ![Len(stack)].value =
                              IF Top.second /\ ~Top.ind THEN @ - 1 ELSE @], h)

(* The next key or value of a map; the pairs are counted by their values.  *)
MapNext ==
  /\ pc = "walk" /\ Top.type = "map" /\ Top.value # 0
  /\ \/ InputEnds
     \/ \E h \in Upcoming :
          IF Top.ind /\ IsBreak(h)
          THEN IF Top.second THEN Refuse(h, "item_type_mismatch") ELSE PopAtBreak(h)
          ELSE PushHead([stack EXCEPT
                           ![Len(stack)].second = ~@,
                           ![Len(stack)].value =
                              IF Top.second /\ ~Top.ind THEN @ - 1 ELSE @], h)

(* The tagged item takes the place of its tag.                             *)
Tag ==
  /\ pc = "walk" /\ Top.type = "tag"
  /\ \/ InputEnds
     \/ \E h \in Upcoming :
          \/ Pass(h) /\ Continue(Append(Popped, Item(h)))
          \/ OutputFails

(* A string: its bytes follow, or its chunks.                              *)
String ==
  /\ pc = "walk" /\ Top.type \in {"binary", "text"}
  /\ pc' = IF Top.ind THEN "chunk" ELSE "bytes"
  /\ bytes' = IF Top.ind THEN 0 ELSE Top.value
  /\ within' = FALSE
  /\ UNCHANGED <<mode, consumed, out, stack, rx>>

(* copy_item_to copies a chunk's head together with its bytes.  How much   *)
(* that is it computes in 64 bits.                                         *)
Amount(h) == (h.encoded_length + h.value) % Word

(* A chunk: its bytes follow.  copy_item_to goes by the amount: if that    *)
(* has wrapped it copies a part of the head and looks for the next chunk   *)
(* in what is left of it, here anything that may follow; of a zero amount  *)
(* it copies nothing and peeks at the same head again and again.           *)
ChunkOf(h) ==
  CASE mode = "skip" \/ Amount(h) >= h.encoded_length ->
         /\ Pass(h)
         /\ bytes' = h.value /\ within' = TRUE
         /\ pc' = "bytes"
         /\ UNCHANGED <<mode, stack, rx>>
    [] mode = "copy" /\ Amount(h) \in 1 .. h.encoded_length - 1 ->
         /\ Pass(Torn)
         /\ UNCHANGED <<mode, stack, bytes, within, pc, rx>>
    [] mode = "copy" /\ Amount(h) = 0 ->
         /\ pc' = "spin"
         /\ UNCHANGED <<mode, consumed, out, stack, bytes, within, rx>>

(* Mutant of Chunk: the type is checked before the break.                  *)
ChunkBreakLast ==
  /\ pc = "chunk"
  /\ \/ InputEnds
     \/ \E h \in Upcoming :
          IF h.type # Top.type \/ h.ind
          THEN Refuse(h, "invalid_indefinite_subitem")
          ELSE ChunkOf(h)

(* The chunks of an indefinite string: definite strings of the same type.  *)
Chunk ==
  /\ pc = "chunk"
  /\ \/ InputEnds
     \/ \E h \in Upcoming :
          CASE IsBreak(h) -> PopAtBreak(h)
            [] ~IsBreak(h) /\ (h.type # Top.type \/ h.ind) ->
                 Refuse(h, "invalid_indefinite_subitem")
            [] OTHER ->
                 \/ ChunkOf(h)
                 \/ OutputFails
                 \/ mode = "copy" /\ Amount(h) >= h.encoded_length
                    /\ InputFails(<<h>>, h.value)

EndOfString ==
  IF within
  THEN pc' = "chunk" /\ UNCHANGED <<mode, stack, bytes, within, rx>>
  ELSE Continue(Popped)

(* discard_input() of a string: all of its bytes, or none because it says  *)
(* that the stream ends before, or some of them until the stream fails.    *)
SkipBytes ==
  /\ pc = "bytes" /\ mode = "skip"
  /\ \/ bytes > 0 /\ InputEnds
     \/ InputFails(<<>>, bytes)
     \/ /\ Len(consumed) + bytes <= MaxUnits
        /\ consumed' = consumed \o Bytes(bytes)
        /\ UNCHANGED out
        /\ EndOfString

(* Mutant of CopyBytes: the whole string is read, whatever size() is.      *)
CopyBytesUnbounded ==
  /\ pc = "bytes" /\ mode = "copy"
  /\ \/ InputEnds
     \/ \E n \in 0 .. bytes :
          /\ Len(consumed) + bytes <= MaxUnits
          /\ consumed' = consumed \o Bytes(bytes)
          /\ out' = out \o Bytes(n)
          /\ EndOfString

(* One iteration of bulk_copy(): as much as the output buffer holds, at    *)
(* least one byte if any are left.                                         *)
CopyBytes ==
  /\ pc = "bytes" /\ mode = "copy"
  /\ \/ bytes > 0 /\ InputEnds
     \/ InputFails(<<>>, bytes)
     \/ bytes > 0 /\ Fail("output") /\ UNCHANGED <<consumed, out, stack>>
     \/ \E n \in 0 .. bytes :
          /\ n = 0 <=> bytes = 0
          /\ Len(consumed) + n <= MaxUnits
          /\ consumed' = consumed \o Bytes(n)
          /\ out' = out \o Bytes(n)
          /\ IF n = bytes THEN EndOfString
             ELSE bytes' = bytes - n /\ UNCHANGED <<mode, stack, within, pc, rx>>

-----------------------------------------------------------------------------
Next ==
  \/ First
  \/ Scalar \/ StrayBreak
  \/ Complete \/ ArrayNext \/ MapNext
  \/ Tag
  \/ String \/ Chunk \/ SkipBytes \/ CopyBytes

(* The function runs until it returns.                                     *)
Spec == Init /\ [][Next]_vars /\ WF_vars(Next)

-----------------------------------------------------------------------------
(* Properties                                                              *)

TypeOK ==
  /\ mode \in {"skip", "copy"}
  /\ consumed \in Seq(Units) /\ out \in Seq(Units)
  /\ stack \in Seq([type : Types, ind : BOOLEAN, value : Nat, second : BOOLEAN])
  /\ bytes \in Nat /\ within \in BOOLEAN
  /\ pc \in {"first", "walk", "chunk", "bytes", "spin", "done"}
  /\ rx \in {"ok", "end_of_stream", "input", "output", "item_type_mismatch",
             "invalid_indefinite_subitem", "not_enough_memory"}
  /\ pc # "done" => (rx = "ok" /\ (pc = "first" <=> stack = <<>>))

(* copy_item_to writes what it reads: at any time, and when it succeeds in *)
(* particular, the output holds exactly what was taken from the input.     *)
(* What a failure loses is the break at which the output failed, or bytes  *)
(* of the string that the input failed in, with the head of a chunk if     *)
(* that was to be written with them; never anything in front of them.      *)
CopyIsExact ==
  mode = "copy" =>
    /\ Len(out) <= Len(consumed) /\ out = SubSeq(consumed, 1, Len(out))
    /\ LET lost == Len(out) + 1 .. Len(consumed) IN
       CASE rx = "output" -> \A k \in lost : k = Len(out) + 1 /\ IsBreak(consumed[k])
         [] rx = "input"  -> \A k \in lost : k = Len(out) + 1 \/ consumed[k] = Byte
         [] OTHER         -> lost = {}

(* The walk ends on every finite input.                                    *)
WalkEnds == <>(pc = "done")
=============================================================================
