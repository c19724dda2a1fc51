--------------------------- MODULE ItemWalkProofs ---------------------------
(***************************************************************************)
(* Proofs about skip_item and copy_item_to, for every set of heads, every  *)
(* length of input and every depth of nesting: their stacks are right and  *)
(* their copies exact, they end where an encoded item ends and refuse      *)
(* nothing but what is malformed.                                          *)
(***************************************************************************)
EXTENDS WellFormedItem, Recursion, SequenceTheorems


Items == [type : Types, ind : BOOLEAN, value : Nat, second : BOOLEAN]

(* The invariant is inductive as it stands: a walk that goes on has not    *)
(* failed, so what it has lost at a full output it has lost for good.      *)
Inv == TypeOK /\ CopyIsExact

Errors ==
  {"end_of_stream", "input", "output", "item_type_mismatch", "invalid_indefinite_subitem",
   "not_enough_memory"}

-----------------------------------------------------------------------------
(* The stack                                                               *)

LEMMA HeadType ==
  ASSUME NEW h \in Heads
  PROVE  h \in Units /\ h.value \in Nat /\ Item(h) \in Items
BY WalkAssumption DEF Item, Items, Units

LEMMA TopType ==
  ASSUME stack \in Seq(Items), stack # <<>>
  PROVE  /\ Len(stack) \in Nat \ {0} /\ Top \in Items /\ Popped \in Seq(Items)
         /\ \A v \in Nat : [stack EXCEPT ![Len(stack)].value = v] \in Seq(Items)
         /\ \A v \in Nat, b \in BOOLEAN :
              [stack EXCEPT ![Len(stack)].second = b, ![Len(stack)].value = v] \in Seq(Items)
<1>1. Len(stack) \in Nat \ {0} /\ Top \in Items
  BY DEF Top
<1>2. Popped \in Seq(Items)
  BY <1>1 DEF Popped
<1>3. ASSUME NEW x \in Items PROVE [stack EXCEPT ![Len(stack)] = x] \in Seq(Items)
  BY <1>1
<1>4. \A v \in Nat : [Top EXCEPT !.value = v] \in Items
  BY <1>1 DEF Items
<1>5. \A v \in Nat, b \in BOOLEAN : [[Top EXCEPT !.second = b] EXCEPT !.value = v] \in Items
  BY <1>1 DEF Items
<1> QED
  BY <1>1, <1>2, <1>3, <1>4, <1>5 DEF Top

(* The heads and bytes that are read and written                           *)
LEMMA StreamTypes ==
  ASSUME TypeOK
  PROVE  /\ \A u \in Units : /\ Append(consumed, u) \in Seq(Units)
                             /\ Append(out, u) \in Seq(Units)
         /\ \A n \in Nat : /\ Bytes(n) \in Seq(Units)
                           /\ consumed \o Bytes(n) \in Seq(Units)
                           /\ out \o Bytes(n) \in Seq(Units)
<1>1. \A n \in Nat : Bytes(n) \in Seq(Units)
  BY DEF Units, Bytes
<1> QED
  BY <1>1 DEF TypeOK, Units

-----------------------------------------------------------------------------
(* The building blocks                                                     *)

(* What CopyIsExact says of what is read, c, and what is written, o        *)
Faithful(o, c, r) ==
  /\ Len(o) <= Len(c) /\ o = SubSeq(c, 1, Len(o))
  /\ LET lost == Len(o) + 1 .. Len(c) IN
     CASE r = "output" -> \A k \in lost : k = Len(o) + 1 /\ IsBreak(c[k])
       [] r = "input"  -> \A k \in lost : k = Len(o) + 1 \/ c[k] = Byte
       [] OTHER        -> lost = {}

LEMMA ExactIsFaithful == CopyIsExact <=> (mode = "copy" => Faithful(out, consumed, rx))
BY DEF CopyIsExact, Faithful

(* Nothing is lost, ...                                                    *)
LEMMA AllWritten ==
  ASSUME NEW c \in Seq(Units), NEW r
  PROVE  Faithful(c, c, r)
<1>1. Len(c) \in Nat /\ c = SubSeq(c, 1, Len(c))
  OBVIOUS
<1> QED
  BY <1>1 DEF Faithful

(* ... or x is, that was read last.                                        *)
LEMMA LastLost ==
  ASSUME NEW o \in Seq(Units), NEW x \in Seq(Units), NEW r \in {"input", "output"},
         r = "output" => Len(x) = 1 /\ IsBreak(x[1]),
         r = "input" => \A k \in 2 .. Len(x) : x[k] = Byte
  PROVE  Faithful(o, o \o x, r)
<1> DEFINE c == o \o x
<1>1. /\ Len(o) \in Nat /\ Len(x) \in Nat /\ Len(c) = Len(o) + Len(x) /\ c \in Seq(Units)
      /\ o = SubSeq(c, 1, Len(o))
      /\ \A k \in 1 .. Len(x) : c[Len(o) + k] = x[k]
  OBVIOUS
<1>2. ASSUME NEW k \in Len(o) + 1 .. Len(c)
      PROVE  k - Len(o) \in 1 .. Len(x) /\ c[k] = x[k - Len(o)]
  <2>1. k - Len(o) \in 1 .. Len(x) /\ Len(o) + (k - Len(o)) = k
    BY <1>1
  <2> QED
    BY <1>1, <2>1
<1> HIDE DEF c
<1>3. CASE r = "output"
  <2>1. ASSUME NEW k \in Len(o) + 1 .. Len(c) PROVE k = Len(o) + 1 /\ IsBreak(c[k])
    <3>1. k - Len(o) \in 1 .. Len(x) /\ k \in Int
      BY <1>1, <1>2
    <3>2. k - Len(o) \in 1 .. 1
      BY <1>3, <3>1
    <3>3. k - Len(o) = 1 /\ k = Len(o) + 1
      BY <1>1, <3>1, <3>2
    <3> QED
      BY <1>2, <1>3, <3>3
  <2> QED
    BY <1>1, <1>3, <2>1 DEF Faithful, c
<1>4. CASE r = "input"
  <2>1. ASSUME NEW k \in Len(o) + 1 .. Len(c) PROVE k = Len(o) + 1 \/ c[k] = Byte
    BY <1>1, <1>2, <1>4
  <2> QED
    BY <1>1, <1>4, <2>1 DEF Faithful, c
<1> QED
  BY <1>3, <1>4

LEMMA FailInv ==
  ASSUME Inv, pc # "done", NEW e \in Errors, Fail(e), UNCHANGED out,
         consumed' \in Seq(Units), stack' \in Seq(Items),
         mode = "copy" => Faithful(out, consumed', e)
  PROVE  Inv'
<1>1. TypeOK'
  BY DEF Inv, TypeOK, Fail, Errors, Items, Units
<1>2. mode' = mode /\ rx' = e
  BY DEF Fail
<1>3. CopyIsExact'
  BY <1>2 DEF CopyIsExact, Faithful
<1> QED
  BY <1>1, <1>3 DEF Inv

(* A walk that goes on has lost nothing.                                   *)
LEMMA NothingLost ==
  ASSUME Inv, rx = "ok"
  PROVE  mode = "copy" => out = consumed
<1>1. out \in Seq(Units) /\ consumed \in Seq(Units)
  BY DEF Inv, TypeOK
<1>2. ASSUME mode = "copy" PROVE out = consumed
  <2>1. /\ Len(out) <= Len(consumed) /\ out = SubSeq(consumed, 1, Len(out))
        /\ Len(out) + 1 .. Len(consumed) = {}
    BY <1>2 DEF Inv, CopyIsExact
  <2>2. Len(consumed) \notin Len(out) + 1 .. Len(consumed)
    BY <2>1
  <2>3. Len(out) = Len(consumed)
    BY <1>1, <2>1, <2>2
  <2> QED
    BY <1>1, <2>1, <2>3
<1> QED
  BY <1>2

LEMMA StopsInv ==
  ASSUME Inv, pc # "done", NEW e \in Errors, Fail(e), UNCHANGED <<consumed, out>>,
         stack' \in Seq(Items)
  PROVE  Inv'
<1>1. consumed' \in Seq(Units) /\ rx = "ok"
  BY DEF Inv, TypeOK
<1>2. mode = "copy" => Faithful(out, consumed', e)
  BY <1>1, AllWritten, NothingLost
<1> QED
  BY <1>1, <1>2, FailInv

LEMMA GoesOnInv ==
  ASSUME TypeOK', mode' = "copy" => out' = consumed'
  PROVE  Inv'
<1>1. consumed' \in Seq(Units)
  BY DEF TypeOK, Units
<1>2. Faithful(consumed', consumed', rx')
  BY <1>1, AllWritten
<1>3. CopyIsExact'
  BY <1>2 DEF CopyIsExact, Faithful
<1> QED
  BY <1>3 DEF Inv

LEMMA PassTypes ==
  ASSUME Inv, rx = "ok", NEW h \in Heads, Pass(h)
  PROVE  /\ consumed' \in Seq(Units) /\ out' \in Seq(Units)
         /\ mode = "copy" => out' = consumed'
BY HeadType, StreamTypes, NothingLost DEF Inv, TypeOK, Pass, Units

LEMMA ContinueInv ==
  ASSUME Inv, pc # "done", NEW s \in Seq(Items), Continue(s),
         consumed' \in Seq(Units), out' \in Seq(Units),
         mode = "copy" => out' = consumed'
  PROVE  Inv'
<1>1. TypeOK'
  BY DEF Inv, TypeOK, Continue, Items, Units
<1> QED
  BY <1>1, GoesOnInv DEF Continue

LEMMA PushHeadInv ==
  ASSUME Inv, pc # "done", NEW s \in Seq(Items), NEW h \in Heads, PushHead(s, h)
  PROVE  Inv'
<1>1. rx = "ok" /\ stack \in Seq(Items)
  BY DEF Inv, TypeOK, Items
<1>2. CASE OutputFails
  BY <1>1, <1>2, StopsInv DEF OutputFails, Errors
<1>3. CASE Push(s, h)
  <2>1. /\ consumed' \in Seq(Units) /\ out' \in Seq(Units)
        /\ mode = "copy" => out' = consumed'
    BY <1>1, <1>3, PassTypes DEF Push
  <2>2. CASE Len(s) < MaxDepth
    <3>1. Append(s, Item(h)) \in Seq(Items)
      BY HeadType
    <3> QED
      BY <1>3, <2>1, <2>2, <3>1, ContinueInv DEF Push
  <2>3. CASE ~(Len(s) < MaxDepth)
    <3>1. Fail("not_enough_memory") /\ stack' = s
      BY <1>3, <2>3 DEF Push
    <3>2. TypeOK'
      BY <2>1, <3>1 DEF Inv, TypeOK, Fail, Items, Units
    <3> QED
      BY <2>1, <3>1, <3>2, GoesOnInv DEF Fail
  <2> QED
    BY <2>2, <2>3
<1> QED
  BY <1>2, <1>3 DEF PushHead

LEMMA PopAtBreakInv ==
  ASSUME Inv, pc # "done", stack # <<>>, NEW h \in Heads, IsBreak(h), PopAtBreak(h)
  PROVE  Inv'
<1>1. rx = "ok" /\ stack \in Seq(Items)
  BY DEF Inv, TypeOK, Items
<1>2. CASE Pass(h) /\ Continue(Popped)
  BY <1>1, <1>2, TopType, PassTypes, ContinueInv
<1>3. CASE /\ mode = "copy"
           /\ Fail("output")
           /\ consumed' = Append(consumed, h)
           /\ UNCHANGED <<out, stack>>
  <2>1. out = consumed /\ out \in Seq(Units) /\ <<h>> \in Seq(Units) /\ "output" \in Errors
    BY <1>1, <1>3, HeadType, NothingLost DEF Inv, TypeOK, Errors
  <2>2. consumed' = out \o <<h>> /\ consumed' \in Seq(Units) /\ UNCHANGED out /\ stack' \in Seq(Items)
    BY <1>1, <1>3, <2>1
  <2>3. Len(<<h>>) = 1 /\ IsBreak(<<h>>[1])
    OBVIOUS
  <2>4. Faithful(out, out \o <<h>>, "output")
    BY <2>1, <2>3, LastLost
  <2> QED
    BY <1>3, <2>1, <2>2, <2>4, FailInv
<1> QED
  BY <1>2, <1>3 DEF PopAtBreak

LEMMA InputEndsInv ==
  ASSUME Inv, pc # "done", InputEnds
  PROVE  Inv'
<1>1. stack' \in Seq(Items)
  BY DEF Inv, TypeOK, Items, InputEnds
<1> QED
  BY <1>1, StopsInv DEF InputEnds, Errors

(* The bytes that have been given, with what is in front of them, are lost.*)
LEMMA InputFailsInv ==
  ASSUME Inv, pc # "done", NEW front \in Seq(Units), Len(front) <= 1, NEW n \in Nat,
         InputFails(front, n)
  PROVE  Inv'
<1>0. Len(front) \in {0, 1}
  <2>1. Len(front) \in Nat
    OBVIOUS
  <2> QED
    BY <2>1
<1>1. PICK m \in 0 .. n : consumed' = consumed \o (front \o Bytes(m))
  BY DEF InputFails
<1> DEFINE x == front \o Bytes(m)
<1>2. /\ m \in Nat /\ consumed \in Seq(Units) /\ Bytes(m) \in Seq(Units) /\ rx = "ok"
      /\ Fail("input") /\ UNCHANGED <<out, stack>> /\ stack' \in Seq(Items)
      /\ "input" \in Errors
  BY StreamTypes DEF Inv, TypeOK, InputFails, Errors, Items
<1>3. Len(Bytes(m)) = m /\ \A k \in 1 .. m : Bytes(m)[k] = Byte
  BY <1>2 DEF Bytes
<1>4. /\ x \in Seq(Units) /\ Len(x) = Len(front) + m
      /\ \A k \in 1 .. Len(x) : x[k] = IF k <= Len(front) THEN front[k]
                                      ELSE Bytes(m)[k - Len(front)]
  BY <1>2, <1>3, ConcatProperties
<1> HIDE DEF x
<1>5. consumed' = consumed \o x /\ consumed' \in Seq(Units)
  BY <1>1, <1>2, <1>4 DEF x
<1>7. ASSUME NEW k \in 2 .. Len(x) PROVE x[k] = Byte
  <2>1. Len(front) \in {0, 1} /\ Len(x) = Len(front) + m
    BY <1>0, <1>4
  <2>2. k - Len(front) \in 1 .. m /\ k \in 1 .. Len(x) /\ ~(k <= Len(front))
    BY <1>2, <2>1
  <2> QED
    BY <1>3, <1>4, <2>2
<1>6. mode = "copy" => Faithful(out, consumed', "input")
  BY <1>2, <1>4, <1>5, <1>7, LastLost, NothingLost
<1> QED
  BY <1>2, <1>5, <1>6, FailInv

LEMMA OutputFailsInv ==
  ASSUME Inv, pc # "done", OutputFails
  PROVE  Inv'
<1>1. stack' \in Seq(Items)
  BY DEF Inv, TypeOK, Items, OutputFails
<1> QED
  BY <1>1, StopsInv DEF OutputFails, Errors

LEMMA RefuseInv ==
  ASSUME Inv, pc # "done", NEW h \in Heads, NEW e \in Errors, Refuse(h, e)
  PROVE  Inv'
<1>1. /\ stack' \in Seq(Items) /\ mode \in {"skip", "copy"} /\ Fail(e)
      /\ UNCHANGED <<out, stack>>
  BY DEF Inv, TypeOK, Items, Refuse
<1>2. CASE mode = "skip"
  <2>1. consumed' \in Seq(Units)
    BY <1>2, HeadType DEF Refuse, Inv, TypeOK
  <2> QED
    BY <1>1, <1>2, <2>1, FailInv
<1>3. CASE mode = "copy"
  BY <1>1, <1>3, StopsInv DEF Refuse
<1> QED
  BY <1>1, <1>2, <1>3

-----------------------------------------------------------------------------
(* The steps of the walk                                                   *)

LEMMA UpcomingType == \A h \in Upcoming : h \in Heads
BY DEF Upcoming

(* Within the walk there is an item on the stack.                          *)
LEMMA Walking ==
  ASSUME Inv, pc \in {"walk", "chunk", "bytes", "spin"}
  PROVE  /\ pc # "done" /\ rx = "ok" /\ stack \in Seq(Items) /\ stack # <<>>
         /\ Top \in Items /\ Popped \in Seq(Items)
         /\ mode = "copy" => out = consumed
<1>1. stack \in Seq(Items) /\ stack # <<>> /\ rx = "ok"
  BY DEF Inv, TypeOK, Items
<1> QED
  BY <1>1, TopType, NothingLost

LEMMA FirstInv == ASSUME Inv, First PROVE Inv'
<1>1. <<>> \in Seq(Items)
  OBVIOUS
<1> QED
  BY <1>1, InputEndsInv, PushHeadInv, UpcomingType DEF First

(* An item of which nothing is left                                        *)
LEMMA PoppedInv ==
  ASSUME Inv, pc = "walk", Continue(Popped), UNCHANGED <<consumed, out>>
  PROVE  Inv'
<1>1. consumed' \in Seq(Units) /\ out' \in Seq(Units)
  BY DEF Inv, TypeOK, Units
<1> QED
  BY <1>1, Walking, ContinueInv

LEMMA StrayBreakInv == ASSUME Inv, StrayBreak PROVE Inv'
BY Walking, StopsInv DEF StrayBreak, Errors

LEMMA ArrayNextInv == ASSUME Inv, ArrayNext PROVE Inv'
<1> USE DEF ArrayNext
<1>1. /\ pc # "done" /\ stack # <<>> /\ stack \in Seq(Items)
      /\ Top.value \in Nat \ {0}
  BY Walking DEF Items
<1>2. [stack EXCEPT ![Len(stack)].value = IF Top.ind THEN @ ELSE @ - 1] \in Seq(Items)
  <2>1. (IF Top.ind THEN Top.value ELSE Top.value - 1) \in Nat
    BY <1>1
  <2> QED
    BY <1>1, <2>1, TopType DEF Top
<1> QED
  BY <1>1, <1>2, InputEndsInv, PopAtBreakInv, PushHeadInv, UpcomingType

LEMMA MapNextInv == ASSUME Inv, MapNext PROVE Inv'
<1> USE DEF MapNext
<1>1. /\ pc # "done" /\ stack # <<>> /\ stack \in Seq(Items)
      /\ Top.value \in Nat \ {0} /\ Top.second \in BOOLEAN
  BY Walking DEF Items
<1>2. [stack EXCEPT ![Len(stack)].second = ~@,
                    ![Len(stack)].value =
                       IF Top.second /\ ~Top.ind THEN @ - 1 ELSE @] \in Seq(Items)
  <2>1. (IF Top.second /\ ~Top.ind THEN Top.value - 1 ELSE Top.value) \in Nat
    BY <1>1
  <2> QED
    BY <1>1, <2>1, TopType DEF Top, Items
<1>3. "item_type_mismatch" \in Errors
  BY DEF Errors
<1> QED
  BY <1>1, <1>2, <1>3, InputEndsInv, PopAtBreakInv, RefuseInv, PushHeadInv, UpcomingType

LEMMA TagInv == ASSUME Inv, Tag PROVE Inv'
<1>1. /\ pc # "done" /\ rx = "ok" /\ Popped \in Seq(Items)
  BY Walking DEF Tag
<1>2. ASSUME NEW h \in Heads, Pass(h), Continue(Append(Popped, Item(h)))
      PROVE  Inv'
  <2>1. Append(Popped, Item(h)) \in Seq(Items)
    BY <1>1, HeadType
  <2> QED
    BY <1>1, <1>2, <2>1, PassTypes, ContinueInv
<1> QED
  BY <1>1, <1>2, InputEndsInv, OutputFailsInv, UpcomingType DEF Tag

LEMMA StringInv == ASSUME Inv, String PROVE Inv'
<1>1. Top.value \in Nat /\ stack # <<>> /\ rx = "ok"
  BY Walking DEF String, Items
<1>2. TypeOK'
  BY <1>1 DEF Inv, TypeOK, String
<1> QED
  BY <1>1, <1>2, NothingLost, GoesOnInv DEF String

(* A chunk is taken with its head, or in part, or not at all.              *)
LEMMA ChunkGoes ==
  ASSUME TypeOK, NEW h \in Heads, ChunkOf(h)
  PROVE  \/ /\ Pass(h)
            /\ bytes' = h.value /\ within' = TRUE
            /\ pc' = "bytes"
            /\ UNCHANGED <<mode, stack, rx>>
         \/ mode = "copy" /\ Pass(Torn) /\ UNCHANGED <<mode, stack, bytes, within, pc, rx>>
         \/ pc' = "spin" /\ UNCHANGED <<mode, consumed, out, stack, bytes, within, rx>>
<1>1. Amount(h) \in Nat /\ h.encoded_length \in Nat \ {0}
  BY WalkAssumption DEF Amount
<1>2. \/ mode = "skip" \/ Amount(h) >= h.encoded_length
      \/ mode = "copy" /\ Amount(h) \in 1 .. h.encoded_length - 1
      \/ mode = "copy" /\ Amount(h) = 0
  BY <1>1 DEF TypeOK
<1> QED
  BY <1>1, <1>2 DEF ChunkOf

LEMMA ChunkInv == ASSUME Inv, Chunk PROVE Inv'
<1>1. pc # "done" /\ stack # <<>> /\ rx = "ok"
  BY Walking DEF Chunk
<1>2. ASSUME NEW h \in Heads, ChunkOf(h) PROVE Inv'
  <2>1. h.value \in Nat /\ h.encoded_length \in Nat
    BY WalkAssumption
  <2>2. CASE /\ Pass(h)
             /\ bytes' = h.value /\ within' = TRUE
             /\ pc' = "bytes"
             /\ UNCHANGED <<mode, stack, rx>>
    <3>1. /\ consumed' \in Seq(Units) /\ out' \in Seq(Units)
          /\ mode = "copy" => out' = consumed'
      BY <1>1, <2>2, PassTypes
    <3>2. TypeOK'
      BY <1>1, <2>1, <2>2, <3>1 DEF Inv, TypeOK, Units
    <3> QED
      BY <2>2, <3>1, <3>2, GoesOnInv
  <2>3. CASE Pass(Torn) /\ UNCHANGED <<mode, stack, bytes, within, pc, rx>>
    <3>1. /\ consumed' \in Seq(Units) /\ out' \in Seq(Units)
          /\ mode = "copy" => out' = consumed'
      BY <1>1, <2>3, StreamTypes, NothingLost DEF Pass, Inv, TypeOK, Units
    <3>2. TypeOK'
      BY <2>3, <3>1 DEF Inv, TypeOK, Units
    <3> QED
      BY <2>3, <3>1, <3>2, GoesOnInv
  <2>4. CASE /\ pc' = "spin"
             /\ UNCHANGED <<mode, consumed, out, stack, bytes, within, rx>>
    <3>1. TypeOK'
      BY <1>1, <2>4 DEF Inv, TypeOK, Units
    <3> QED
      BY <1>1, <2>4, <3>1, NothingLost, GoesOnInv
  <2>5. TypeOK
    BY DEF Inv
  <2> QED
    BY <1>2, <2>2, <2>3, <2>4, <2>5, ChunkGoes
<1>3. "invalid_indefinite_subitem" \in Errors
  BY DEF Errors
<1>4. ASSUME NEW h \in Heads, InputFails(<<h>>, h.value) PROVE Inv'
  <2>1. <<h>> \in Seq(Units) /\ Len(<<h>>) <= 1 /\ h.value \in Nat
    BY HeadType
  <2> QED
    BY <1>1, <1>4, <2>1, InputFailsInv
<1> QED
  BY <1>1, <1>2, <1>3, <1>4, InputEndsInv, PopAtBreakInv, RefuseInv, OutputFailsInv, UpcomingType
     DEF Chunk

(* Bytes of a string: all units that are read are written when copying.    *)
LEMMA EndOfStringInv ==
  ASSUME Inv, pc = "bytes", EndOfString,
         consumed' \in Seq(Units), out' \in Seq(Units),
         mode = "copy" => out' = consumed'
  PROVE  Inv'
<1>1. CASE within
  <2>1. TypeOK'
    BY <1>1, Walking DEF Inv, TypeOK, EndOfString, Units
  <2> QED
    BY <1>1, <2>1, GoesOnInv DEF EndOfString
<1>2. CASE ~within
  BY <1>2, Walking, ContinueInv DEF EndOfString
<1> QED
  BY <1>1, <1>2

LEMMA StringFailsInv ==
  ASSUME Inv, pc = "bytes", InputFails(<<>>, bytes)
  PROVE  Inv'
<1>1. <<>> \in Seq(Units) /\ Len(<<>>) <= 1 /\ bytes \in Nat
  BY DEF Inv, TypeOK
<1> QED
  BY <1>1, InputFailsInv

LEMMA SkipBytesInv == ASSUME Inv, SkipBytes PROVE Inv'
<1>1. CASE InputEnds
  BY <1>1, InputEndsInv DEF SkipBytes
<1>2. CASE /\ consumed' = consumed \o Bytes(bytes)
           /\ UNCHANGED out
           /\ EndOfString
  <2>1. consumed' \in Seq(Units) /\ out' \in Seq(Units)
    BY <1>2, StreamTypes DEF Inv, TypeOK, Units
  <2> QED
    BY <1>2, <2>1, EndOfStringInv DEF SkipBytes
<1>3. CASE InputFails(<<>>, bytes)
  BY <1>3, StringFailsInv DEF SkipBytes
<1> QED
  BY <1>1, <1>2, <1>3 DEF SkipBytes

LEMMA CopyBytesInv == ASSUME Inv, CopyBytes PROVE Inv'
<1> USE DEF CopyBytes
<1>1. CASE InputEnds
  BY <1>1, InputEndsInv
<1>2. CASE Fail("output") /\ UNCHANGED <<consumed, out, stack>>
  BY <1>2, Walking, StopsInv DEF Errors
<1>3. ASSUME NEW n \in 0 .. bytes,
             consumed' = consumed \o Bytes(n),
             out' = out \o Bytes(n),
             IF n = bytes THEN EndOfString
             ELSE bytes' = bytes - n /\ UNCHANGED <<mode, stack, within, pc, rx>>
      PROVE  Inv'
  <2>1. n \in Nat /\ bytes \in Nat /\ bytes - n \in Nat
    BY DEF Inv, TypeOK
  <2>2. /\ consumed' \in Seq(Units) /\ out' \in Seq(Units)
        /\ mode = "copy" => out' = consumed'
    BY <1>3, <2>1, StreamTypes, Walking DEF Inv
  <2>3. CASE n = bytes
    BY <1>3, <2>2, <2>3, EndOfStringInv
  <2>4. CASE n # bytes
    <3>1. TypeOK'
      BY <1>3, <2>1, <2>2, <2>4 DEF Inv, TypeOK, Units
    <3> QED
      BY <1>3, <2>2, <2>4, <3>1, GoesOnInv
  <2> QED
    BY <2>3, <2>4
<1>4. CASE InputFails(<<>>, bytes)
  BY <1>4, StringFailsInv
<1> QED
  BY <1>1, <1>2, <1>3, <1>4

-----------------------------------------------------------------------------
(* The specification                                                       *)

LEMMA InitInv == Init => Inv
<1> SUFFICES ASSUME Init PROVE Inv
  OBVIOUS
<1>1. \A S : <<>> \in Seq(S)
  OBVIOUS
<1>2. TypeOK
  BY <1>1 DEF Init, TypeOK
<1> QED
  BY <1>2 DEF Init, Inv, CopyIsExact

LEMMA NextInv == Inv /\ [Next]_vars => Inv'
<1> SUFFICES ASSUME Inv, [Next]_vars PROVE Inv'
  OBVIOUS
<1>1. CASE First
  BY <1>1, FirstInv
<1>2. CASE Scalar
  BY <1>2, PoppedInv DEF Scalar
<1>3. CASE StrayBreak
  BY <1>3, StrayBreakInv
<1>4. CASE Complete
  BY <1>4, PoppedInv DEF Complete
<1>5. CASE ArrayNext
  BY <1>5, ArrayNextInv
<1>6. CASE MapNext
  BY <1>6, MapNextInv
<1>7. CASE Tag
  BY <1>7, TagInv
<1>8. CASE String
  BY <1>8, StringInv
<1>9. CASE Chunk
  BY <1>9, ChunkInv
<1>10. CASE SkipBytes
  BY <1>10, SkipBytesInv
<1>11. CASE CopyBytes
  BY <1>11, CopyBytesInv
<1>12. CASE UNCHANGED vars
  BY <1>12 DEF Inv, TypeOK, CopyIsExact, vars
<1> QED
  BY <1>1, <1>2, <1>3, <1>4, <1>5, <1>6, <1>7, <1>8, <1>9, <1>10, <1>11, <1>12 DEF Next

LEMMA Invariance == Spec => []Inv
BY InitInv, NextInv, PTL DEF Spec

(* The walk keeps to its types in every reachable state: in particular the *)
(* stack holds an item whenever the loop looks at its top, and counts of   *)
(* elements never go below zero (skip_item.cpp, copy_item.cpp).            *)
THEOREM TypeCorrect == Spec => []TypeOK
<1>1. Inv => TypeOK
  BY DEF Inv
<1> QED
  BY <1>1, Invariance, PTL

(* copy_item_to writes exactly what it reads, at every point of the walk,  *)
(* for items of any size and nesting and heads of any value.  Wherever the *)
(* input or the output fails, no more is lost than a break that meets a    *)
(* full output, or what the failing read of a string had taken.            *)
THEOREM CopiesExactly == Spec => []CopyIsExact
<1>1. Inv => CopyIsExact
  BY DEF Inv
<1> QED
  BY <1>1, Invariance, PTL

-----------------------------------------------------------------------------
(* The reference definition is well defined                                *)

Rank(goal) ==
  CASE goal \in {"elements", "pairs"} -> 2
    [] goal = "items" -> 1
    [] OTHER -> 0

(* What the recursion gets smaller in: what is left of s, then the goal    *)
Measure(s) ==
  [x \in Expectations(s) |-> 3 * (Len(s) + 1 - x[2]) + Rank(x[1])]

(* A position behind i, or none                                            *)
Beyond(s, i) == Failures \union (i + 1 .. Len(s) + 1)

(* The ends that an expectation may have                                   *)
EndRange(s) ==
  [x \in Expectations(s) |->
     IF x[1] = "items" /\ x[3] = 0 THEN {x[2]} ELSE Beyond(s, x[2])]

(* f and g agree on what is smaller than x, and are within range there     *)
Agree(s, f, g, x) ==
  \A y \in Expectations(s) :
    Measure(s)[y] < Measure(s)[x] => f[y] = g[y] /\ f[y] \in EndRange(s)[y]

LEMMA UnitType ==
  ASSUME NEW s \in Seq(Units), NEW i \in 1 .. Len(s)
  PROVE  /\ s[i].type \in Types \union {"byte", "torn"}
         /\ s[i].value \in Nat /\ s[i].ind \in BOOLEAN
<1>1. s[i] \in Units
  OBVIOUS
<1>2. CASE s[i] \in Heads
  BY <1>2, WalkAssumption
<1>3. CASE s[i] = Byte
  BY <1>3 DEF Byte
<1>4. CASE s[i] = Torn
  BY <1>4 DEF Torn
<1> QED
  BY <1>1, <1>2, <1>3, <1>4 DEF Units

LEMMA SmallerAgree ==
  ASSUME NEW s \in Seq(Units), NEW f, NEW g,
         NEW goal \in Goals, NEW i \in 1 .. Len(s) + 1, NEW n \in Nat,
         Agree(s, f, g, <<goal, i, n>>)
  PROVE  \A goal2 \in Goals, j \in i .. Len(s) + 1, k \in Nat :
           (j = i => Rank(goal2) < Rank(goal))
             => /\ f[<<goal2, j, k>>] = g[<<goal2, j, k>>]
                /\ f[<<goal2, j, k>>] \in
                     IF goal2 = "items" /\ k = 0 THEN {j} ELSE Beyond(s, j)
<1> SUFFICES ASSUME NEW goal2 \in Goals, NEW j \in i .. Len(s) + 1, NEW k \in Nat,
                    j = i => Rank(goal2) < Rank(goal)
             PROVE  /\ f[<<goal2, j, k>>] = g[<<goal2, j, k>>]
                    /\ f[<<goal2, j, k>>] \in
                         IF goal2 = "items" /\ k = 0 THEN {j} ELSE Beyond(s, j)
  OBVIOUS
<1> DEFINE x == <<goal, i, n>>
           y == <<goal2, j, k>>
<1>1. Rank(goal) \in 0 .. 2 /\ Rank(goal2) \in 0 .. 2 /\ Len(s) \in Nat
  BY DEF Rank
<1>2. x \in Expectations(s) /\ y \in Expectations(s)
  BY <1>1 DEF Expectations
<1>3. /\ Measure(s)[x] = 3 * (Len(s) + 1 - i) + Rank(goal)
      /\ Measure(s)[y] = 3 * (Len(s) + 1 - j) + Rank(goal2)
  BY <1>2 DEF Measure
<1>4. Measure(s)[y] < Measure(s)[x]
  BY <1>1, <1>3
<1>5. EndRange(s)[y] = IF goal2 = "items" /\ k = 0 THEN {j} ELSE Beyond(s, j)
  BY <1>2 DEF EndRange
<1> HIDE DEF x, y
<1>6. f[y] = g[y] /\ f[y] \in EndRange(s)[y]
  BY <1>2, <1>4 DEF Agree, x
<1> QED
  BY <1>5, <1>6 DEF y

(* What is expected behind i, f and g see alike                            *)
LEMMA ThenAgrees ==
  ASSUME NEW s \in Seq(Units), NEW f, NEW g,
         NEW goal \in Goals, NEW i \in 1 .. Len(s) + 1, NEW n \in Nat,
         Agree(s, f, g, <<goal, i, n>>),
         NEW e \in Beyond(s, i), NEW goal2 \in Goals, NEW k \in Nat
  PROVE  /\ Then(f, e, goal2, k) = Then(g, e, goal2, k)
         /\ Then(f, e, goal2, k) \in Beyond(s, i)
<1>1. CASE e \in Failures
  BY <1>1 DEF Then, Beyond
<1>2. CASE e \notin Failures
  <2>1. e \in i + 1 .. Len(s) + 1 /\ e \in i .. Len(s) + 1 /\ e # i
    BY <1>2 DEF Beyond
  <2>2. /\ f[<<goal2, e, k>>] = g[<<goal2, e, k>>]
        /\ f[<<goal2, e, k>>] \in IF goal2 = "items" /\ k = 0 THEN {e} ELSE Beyond(s, e)
    <3>1. \A h \in Goals, j \in i .. Len(s) + 1, m \in Nat :
            (j = i => Rank(h) < Rank(goal))
              => /\ f[<<h, j, m>>] = g[<<h, j, m>>]
                 /\ f[<<h, j, m>>] \in IF h = "items" /\ m = 0 THEN {j} ELSE Beyond(s, j)
      BY SmallerAgree
    <3> QED
      BY <2>1, <3>1
  <2>3. {e} \subseteq Beyond(s, i) /\ Beyond(s, e) \subseteq Beyond(s, i)
    BY <2>1 DEF Beyond
  <2> QED
    BY <1>2, <2>2, <2>3 DEF Then
<1> QED
  BY <1>1, <1>2

LEMMA BytesEndBeyond ==
  ASSUME NEW s \in Seq(Units), NEW i \in 1 .. Len(s), NEW n \in Nat
  PROVE  BytesEnd(s, i + 1, n) \in Beyond(s, i)
BY DEF BytesEnd, Beyond, Failures

LEMMA DescendAgrees ==
  ASSUME NEW s \in Seq(Units), NEW f, NEW g, NEW x \in Expectations(s),
         Agree(s, f, g, x)
  PROVE  Descend(s, f, x) = Descend(s, g, x) /\ Descend(s, f, x) \in EndRange(s)[x]
<1>1. PICK goal \in Goals, i \in 1 .. Len(s) + 1, n \in Nat : x = <<goal, i, n>>
  BY DEF Expectations
<1> DEFINE R == IF goal = "items" /\ n = 0 THEN {i} ELSE Beyond(s, i)
<1>2. x[1] = goal /\ x[2] = i /\ x[3] = n /\ EndRange(s)[x] = R
  BY <1>1 DEF EndRange
<1>3. Agree(s, f, g, <<goal, i, n>>)
  BY <1>1
<1> HIDE DEF R
<1>4. \A h \in Goals, j \in i .. Len(s) + 1, m \in Nat :
        (j = i => Rank(h) < Rank(goal))
          => /\ f[<<h, j, m>>] = g[<<h, j, m>>]
             /\ f[<<h, j, m>>] \in IF h = "items" /\ m = 0 THEN {j} ELSE Beyond(s, j)
  BY <1>3, SmallerAgree
<1>5. \A e \in Beyond(s, i), h \in Goals, m \in Nat :
        /\ Then(f, e, h, m) = Then(g, e, h, m)
        /\ Then(f, e, h, m) \in Beyond(s, i)
  BY <1>3, ThenAgrees
<1>6. CASE goal = "items"
  <2>1. CASE n = 0
    BY <1>2, <1>6, <2>1 DEF Descend, R
  <2>2. CASE n # 0
    <3> DEFINE e == f[<<"item", i, 0>>]
    <3>1. e = g[<<"item", i, 0>>] /\ e \in Beyond(s, i)
      <4>1. Rank("item") < Rank(goal) /\ "item" \in Goals /\ i \in i .. Len(s) + 1
        BY <1>6 DEF Rank, Goals
      <4> QED
        BY <1>4, <4>1
    <3>2. /\ Then(f, e, "items", n - 1) = Then(g, e, "items", n - 1)
          /\ Then(f, e, "items", n - 1) \in Beyond(s, i)
      <4>1. n - 1 \in Nat /\ "items" \in Goals
        BY <2>2 DEF Goals
      <4> HIDE DEF e
      <4> QED
        BY <1>5, <3>1, <4>1
    <3>3. /\ Descend(s, f, x) = Then(f, e, "items", n - 1)
          /\ Descend(s, g, x) = Then(g, e, "items", n - 1)
      BY <1>2, <1>6, <2>2, <3>1 DEF Descend
    <3> QED
      BY <1>2, <2>2, <3>2, <3>3 DEF R
  <2> QED
    BY <2>1, <2>2
<1>7. CASE goal # "items" /\ i > Len(s)
  BY <1>2, <1>7 DEF Descend, Beyond, Failures, R
<1>8. ASSUME goal # "items", i \in 1 .. Len(s)
      PROVE  /\ Descend(s, f, x) = Descend(s, g, x)
             /\ Descend(s, f, x) \in Beyond(s, i)
  <2>1. ~(i > Len(s)) /\ i + 1 \in i .. Len(s) + 1 /\ i + 1 # i /\ i + 1 \in Beyond(s, i)
    BY <1>8 DEF Beyond
  <2>2. Malformed \in Beyond(s, i)
    BY DEF Beyond, Failures
  <2>3. CASE goal = "item"
    <3>1. \A goal2 \in Goals, k \in Nat :
            /\ f[<<goal2, i + 1, k>>] = g[<<goal2, i + 1, k>>]
            /\ f[<<goal2, i + 1, k>>] \in Beyond(s, i)
      <4> TAKE goal2 \in Goals, k \in Nat
      <4>1. {i + 1} \subseteq Beyond(s, i) /\ Beyond(s, i + 1) \subseteq Beyond(s, i)
        BY <2>1 DEF Beyond
      <4>2. /\ f[<<goal2, i + 1, k>>] = g[<<goal2, i + 1, k>>]
            /\ f[<<goal2, i + 1, k>>] \in
                 IF goal2 = "items" /\ k = 0 THEN {i + 1} ELSE Beyond(s, i + 1)
        BY <1>4, <2>1
      <4> QED
        BY <4>1, <4>2
    <3>2. AfterHead(s, f, i) = AfterHead(s, g, i) /\ AfterHead(s, f, i) \in Beyond(s, i)
      <4>1. /\ s[i].type \in Types \union {"byte", "torn"}
            /\ s[i].value \in Nat /\ 2 * s[i].value \in Nat /\ s[i].ind \in BOOLEAN
        BY <1>8, UnitType
      <4>2. BytesEnd(s, i + 1, s[i].value) \in Beyond(s, i)
        BY <1>8, <4>1, BytesEndBeyond
      <4>3. /\ "item" \in Goals /\ "items" \in Goals /\ "elements" \in Goals
            /\ "pairs" \in Goals /\ "binary" \in Goals /\ "text" \in Goals
        BY DEF Goals
      <4>4. CASE IsBreak(s[i])
        BY <2>2, <4>4 DEF AfterHead, IsBreak
      <4>5. CASE ~IsBreak(s[i]) /\ s[i].type \in {"posint", "negint", "special"}
        BY <2>1, <4>5 DEF AfterHead
      <4>6. CASE s[i].type \in {"binary", "text"}
        BY <3>1, <4>1, <4>2, <4>3, <4>6 DEF AfterHead, IsBreak
      <4>7. CASE s[i].type = "array"
        BY <3>1, <4>1, <4>3, <4>7 DEF AfterHead, IsBreak
      <4>8. CASE s[i].type = "map"
        BY <3>1, <4>1, <4>3, <4>8 DEF AfterHead, IsBreak
      <4>9. CASE s[i].type = "tag"
        BY <3>1, <4>3, <4>9 DEF AfterHead, IsBreak
      <4>10. CASE s[i].type \in {"byte", "torn"}
        BY <2>2, <4>10 DEF AfterHead, IsBreak
      <4> QED
        BY <4>1, <4>4, <4>5, <4>6, <4>7, <4>8, <4>9, <4>10 DEF Types
    <3> QED
      BY <1>2, <1>8, <2>1, <2>3, <3>2 DEF Descend
  <2>4. CASE goal # "item" /\ IsBreak(s[i])
    BY <1>2, <1>8, <2>1, <2>4 DEF Descend
  <2>5. CASE goal \in {"elements", "pairs"} /\ ~IsBreak(s[i])
    <3> DEFINE k == IF goal = "pairs" THEN 2 ELSE 1
               e == f[<<"items", i, k>>]
    <3>1. e = g[<<"items", i, k>>] /\ e \in Beyond(s, i)
      <4>1. Rank("items") < Rank(goal) /\ "items" \in Goals /\ i \in i .. Len(s) + 1
        BY <2>5 DEF Rank, Goals
      <4>2. k \in Nat /\ k # 0
        OBVIOUS
      <4> HIDE DEF k
      <4> QED
        BY <1>4, <4>1, <4>2
    <3>2. /\ Then(f, e, goal, 0) = Then(g, e, goal, 0)
          /\ Then(f, e, goal, 0) \in Beyond(s, i)
      <4> HIDE DEF e
      <4> QED
        BY <1>5, <3>1
    <3>3. /\ Descend(s, f, x) = Then(f, e, goal, 0)
          /\ Descend(s, g, x) = Then(g, e, goal, 0)
      BY <1>2, <1>8, <2>1, <2>5, <3>1 DEF Descend
    <3> QED
      BY <3>2, <3>3
  <2>6. CASE goal \in {"binary", "text"} /\ ~IsBreak(s[i])
    <3> DEFINE e == BytesEnd(s, i + 1, s[i].value)
    <3>1. e \in Beyond(s, i)
      BY <1>8, UnitType, BytesEndBeyond
    <3>2. /\ Then(f, e, goal, 0) = Then(g, e, goal, 0)
          /\ Then(f, e, goal, 0) \in Beyond(s, i)
      <4> HIDE DEF e
      <4> QED
        BY <1>5, <3>1
    <3> QED
      BY <1>2, <1>8, <2>1, <2>2, <2>6, <3>2 DEF Descend
  <2> QED
    BY <1>8, <2>3, <2>4, <2>5, <2>6 DEF Goals
<1>9. i > Len(s) \/ i \in 1 .. Len(s)
  OBVIOUS
<1> QED
  BY <1>2, <1>6, <1>7, <1>8, <1>9 DEF R

LEMMA MeasureType ==
  ASSUME NEW s \in Seq(Units)
  PROVE  Measure(s) \in [Expectations(s) -> Nat]
<1> SUFFICES ASSUME NEW x \in Expectations(s)
             PROVE  3 * (Len(s) + 1 - x[2]) + Rank(x[1]) \in Nat
  BY DEF Measure
<1>1. Len(s) \in Nat /\ x[2] \in 1 .. Len(s) + 1
  BY DEF Expectations
<1>2. Rank(x[1]) \in Nat
  BY DEF Rank
<1> QED
  BY <1>1, <1>2

(* The recursion of Ends has a solution, so that it is one.                *)
THEOREM EndsDefined ==
  ASSUME NEW s \in Seq(Units)
  PROVE  Ends(s) = [x \in Expectations(s) |-> Descend(s, Ends(s), x)]
<1> DEFINE D == Expectations(s)
           W == Failures \union (1 .. Len(s) + 1)
           G == {g \in [D -> W] : \A x \in D : g[x] \in EndRange(s)[x]}
           F == [x \in D |-> [g \in G |-> Descend(s, g, x)]]
           P(f) == f = [x \in D |-> Descend(s, f, x)]
<1>1. \A x \in D : EndRange(s)[x] \in SUBSET W
  BY DEF EndRange, Beyond, Expectations
<1>2. EndRange(s) \in [D -> SUBSET W]
  BY <1>1 DEF EndRange
<1>3. G # {}
  <2> DEFINE g == [x \in D |-> IF x[1] = "items" /\ x[3] = 0 THEN x[2] ELSE Incomplete]
  <2>1. \A x \in D : g[x] \in EndRange(s)[x]
    BY DEF EndRange, Beyond, Failures
  <2> HIDE DEF g
  <2>2. \A x \in D : g[x] \in W
    BY <1>1, <2>1
  <2>3. g \in [D -> W]
    BY <2>2 DEF g
  <2> QED
    BY <2>1, <2>3
<1>4. \A x \in D, g \in G, h \in G :
        (\A y \in D : Measure(s)[y] < Measure(s)[x] => g[y] = h[y])
          => /\ Descend(s, g, x) = Descend(s, h, x)
             /\ Descend(s, g, x) \in EndRange(s)[x]
  BY DescendAgrees DEF Agree
<1>5. \A x \in D, g \in G : Descend(s, g, x) \in EndRange(s)[x] /\ Descend(s, g, x) \in W
  BY <1>1, <1>4
<1>6. F \in [D -> [G -> W]] /\ \A x \in D, g \in G : F[x][g] = Descend(s, g, x)
  BY <1>5
<1>7. IsBody(D, Measure(s), W, EndRange(s), G, F)
  <2>1. Measure(s) \in [D -> Nat]
    BY MeasureType
  <2> QED
    BY <1>2, <1>3, <1>4, <1>5, <1>6, <2>1 DEF IsBody
<1>8. \E f : P(f)
  <2>1. G \subseteq [D -> W]
    OBVIOUS
  <2> HIDE DEF D, W, G, F
  <2>2. \E f \in G : \A x \in D : f[x] = F[x][f]
    BY <1>7, MeasureRecursion
  <2>3. PICK f \in G : \A x \in D : f[x] = Descend(s, f, x)
    BY <1>6, <2>2
  <2> QED
    BY <2>1, <2>3
<1>9. Ends(s) = CHOOSE f : P(f)
  BY Zenon DEF Ends
<1> HIDE DEF P
<1>10. P(CHOOSE f : P(f))
  BY <1>8, Zenon
<1> QED
  BY <1>9, <1>10, Zenon DEF P

LEMMA EndsRange ==
  ASSUME NEW s \in Seq(Units)
  PROVE  \A x \in Expectations(s) : Ends(s)[x] \in EndRange(s)[x]
<1> DEFINE D == Expectations(s)
           T == {x \in D : Ends(s)[x] \in EndRange(s)[x]}
<1>1. ASSUME NEW x \in D,
             \A y \in D : Measure(s)[y] < Measure(s)[x] => y \in T
      PROVE  x \in T
  <2>1. Descend(s, Ends(s), x) \in EndRange(s)[x]
    BY <1>1, DescendAgrees DEF Agree
  <2>2. Ends(s)[x] = Descend(s, Ends(s), x)
    BY EndsDefined
  <2> QED
    BY <2>1, <2>2
<1>2. Measure(s) \in [D -> Nat]
  BY MeasureType
<1> HIDE DEF T, D
<1>3. \A x \in D : x \in T
  BY <1>1, <1>2, MeasureInduction
<1> QED
  BY <1>3 DEF T, D

-----------------------------------------------------------------------------
(* What the reference definition says of each goal                         *)

End(s, goal, i, n) == Ends(s)[<<goal, i, n>>]

After(s, e, goal, n) == Then(Ends(s), e, goal, n)

(* The positions of s, the one behind it included, and what is none        *)
Places(s) == Failures \union (1 .. Len(s) + 1)

LEMMA EndIs ==
  ASSUME NEW s \in Seq(Units),
         NEW goal \in Goals, NEW i \in 1 .. Len(s) + 1, NEW n \in Nat
  PROVE  /\ End(s, goal, i, n) = Descend(s, Ends(s), <<goal, i, n>>)
         /\ End(s, goal, i, n) \in
              IF goal = "items" /\ n = 0 THEN {i} ELSE Beyond(s, i)
<1> DEFINE x == <<goal, i, n>>
<1>1. x \in Expectations(s)
  BY DEF Expectations
<1>2. EndRange(s)[x] = IF goal = "items" /\ n = 0 THEN {i} ELSE Beyond(s, i)
  BY <1>1 DEF EndRange
<1> HIDE DEF x
<1>3. Ends(s)[x] = Descend(s, Ends(s), x) /\ Ends(s)[x] \in EndRange(s)[x]
  BY <1>1, EndsDefined, EndsRange
<1> QED
  BY <1>2, <1>3 DEF End, x

LEMMA ItemsEnd ==
  ASSUME NEW s \in Seq(Units), NEW i \in 1 .. Len(s) + 1, NEW n \in Nat
  PROVE  End(s, "items", i, n) =
           IF n = 0 THEN i ELSE After(s, End(s, "item", i, 0), "items", n - 1)
<1>1. End(s, "items", i, n) = Descend(s, Ends(s), <<"items", i, n>>)
  BY EndIs DEF Goals
<1> QED
  BY <1>1 DEF Descend, After, End

LEMMA GroupsEnd ==
  ASSUME NEW s \in Seq(Units), NEW i \in 1 .. Len(s), NEW goal \in {"elements", "pairs"}
  PROVE  End(s, goal, i, 0) =
           IF IsBreak(s[i]) THEN i + 1
           ELSE After(s, End(s, "items", i, IF goal = "pairs" THEN 2 ELSE 1), goal, 0)
<1>1. End(s, goal, i, 0) = Descend(s, Ends(s), <<goal, i, 0>>)
  <2>1. goal \in Goals /\ i \in 1 .. Len(s) + 1
    BY DEF Goals
  <2> QED
    BY <2>1, EndIs
<1>2. ~(i > Len(s))
  OBVIOUS
<1> QED
  BY <1>1, <1>2 DEF Descend, After, End

LEMMA ChunksEnd ==
  ASSUME NEW s \in Seq(Units), NEW i \in 1 .. Len(s), NEW type \in {"binary", "text"}
  PROVE  End(s, type, i, 0) =
           IF IsBreak(s[i]) THEN i + 1
           ELSE IF s[i].type # type \/ s[i].ind THEN Malformed
           ELSE After(s, BytesEnd(s, i + 1, s[i].value), type, 0)
<1>1. End(s, type, i, 0) = Descend(s, Ends(s), <<type, i, 0>>)
  <2>1. type \in Goals /\ i \in 1 .. Len(s) + 1
    BY DEF Goals
  <2> QED
    BY <2>1, EndIs
<1>2. ~(i > Len(s))
  OBVIOUS
<1> QED
  BY <1>1, <1>2 DEF Descend, After, End

(* Nothing but no items at all is at the end of s.                         *)
LEMMA NothingThere ==
  ASSUME NEW s \in Seq(Units), NEW goal \in Goals, NEW n \in Nat,
         goal = "items" => n # 0
  PROVE  End(s, goal, Len(s) + 1, n) = Incomplete
<1> DEFINE i == Len(s) + 1
<1>1. i \in 1 .. Len(s) + 1 /\ i > Len(s)
  OBVIOUS
<1>2. ASSUME NEW h \in Goals, NEW k \in Nat, h # "items" PROVE End(s, h, i, k) = Incomplete
  <2>1. End(s, h, i, k) = Descend(s, Ends(s), <<h, i, k>>)
    BY <1>1, EndIs
  <2> QED
    BY <1>1, <1>2, <2>1 DEF Descend
<1>3. CASE goal = "items"
  <2>1. End(s, "item", i, 0) = Incomplete
    BY <1>2 DEF Goals
  <2>2. End(s, goal, i, n) = After(s, Incomplete, "items", n - 1)
    BY <1>1, <1>3, <2>1, ItemsEnd
  <2> QED
    BY <2>2 DEF After, Then, Failures
<1> QED
  BY <1>2, <1>3

LEMMA AfterPlace ==
  ASSUME NEW s \in Seq(Units), NEW i \in 1 .. Len(s) + 1,
         NEW e \in Failures \union (i .. Len(s) + 1), NEW goal \in Goals, NEW n \in Nat
  PROVE  After(s, e, goal, n) \in Failures \union (i .. Len(s) + 1)
<1>1. CASE e \in Failures
  BY <1>1 DEF After, Then
<1>2. CASE e \notin Failures
  <2>1. e \in 1 .. Len(s) + 1 /\ e \in i .. Len(s) + 1
    BY <1>2
  <2>2. End(s, goal, e, n) \in {e} \union Beyond(s, e)
    BY <2>1, EndIs
  <2> QED
    BY <1>2, <2>1, <2>2 DEF After, Then, End, Beyond
<1> QED
  BY <1>1, <1>2

-----------------------------------------------------------------------------
(* What is left of the items on the stack                                  *)

(* The items that the stack may hold: only an indefinite item is without a *)
(* count, and a map of which the value comes next has a pair to complete.  *)
Frames ==
  {h \in Items : /\ h.ind => h.value # 0
                 /\ h.second => h.type = "map" /\ h.value # 0}

(* The item h, of which the walk has seen what is before position i, ends. *)
Rest(s, h, i) ==
  CASE h.type = "array" ->
         IF h.ind THEN End(s, "elements", i, 0) ELSE End(s, "items", i, h.value)
    [] h.type = "map" ->
         IF ~h.ind THEN End(s, "items", i, 2 * h.value - (IF h.second THEN 1 ELSE 0))
         ELSE IF h.second THEN After(s, End(s, "items", i, 1), "pairs", 0)
         ELSE End(s, "pairs", i, 0)
    [] h.type = "tag" -> End(s, "item", i, 0)
    [] h.type \in {"binary", "text"} ->
         IF h.ind THEN End(s, h.type, i, 0) ELSE BytesEnd(s, i, h.value)
    [] h.type \in {"posint", "negint", "special"} -> IF IsBreak(h) THEN Malformed ELSE i

(* The same when the element that the walk is in ends at e.                *)
Close(s, h, e) == IF e \in Failures THEN e ELSE Rest(s, h, e)

LEMMA FrameCount ==
  ASSUME NEW h \in Frames
  PROVE  /\ h.value \in Nat /\ h.ind \in BOOLEAN /\ h.second \in BOOLEAN /\ h.type \in Types
         /\ 2 * h.value - (IF h.second THEN 1 ELSE 0) \in Nat
BY DEF Frames, Items

LEMMA RestPlace ==
  ASSUME NEW s \in Seq(Units), NEW h \in Frames, NEW i \in 1 .. Len(s) + 1
  PROVE  Rest(s, h, i) \in Failures \union (i .. Len(s) + 1)
<1>1. \A goal \in Goals, n \in Nat : End(s, goal, i, n) \in Failures \union (i .. Len(s) + 1)
  <2> TAKE goal \in Goals, n \in Nat
  <2>1. End(s, goal, i, n) \in {i} \union Beyond(s, i)
    BY EndIs
  <2> QED
    BY <2>1 DEF Beyond
<1>2. BytesEnd(s, i, h.value) \in Failures \union (i .. Len(s) + 1)
  BY FrameCount DEF BytesEnd, Failures
<1>3. After(s, End(s, "items", i, 1), "pairs", 0) \in Failures \union (i .. Len(s) + 1)
  <2>1. "items" \in Goals /\ "pairs" \in Goals
    BY DEF Goals
  <2> QED
    BY <1>1, <2>1, AfterPlace
<1>4. Malformed \in Failures
  BY DEF Failures
<1> QED
  BY <1>1, <1>2, <1>3, <1>4, FrameCount DEF Rest, Goals, Types

LEMMA ClosePlace ==
  ASSUME NEW s \in Seq(Units), NEW h \in Frames, NEW e \in Places(s)
  PROVE  /\ Close(s, h, e) \in Places(s)
         /\ e = Len(s) + 1 => Close(s, h, e) \in Failures \union {Len(s) + 1}
<1>1. CASE e \in Failures
  BY <1>1 DEF Close, Places
<1>2. CASE e \notin Failures
  <2>1. e \in 1 .. Len(s) + 1
    BY <1>2 DEF Places
  <2>2. Rest(s, h, e) \in Failures \union (e .. Len(s) + 1)
    BY <2>1, RestPlace
  <2> QED
    BY <1>2, <2>1, <2>2 DEF Close, Places
<1> QED
  BY <1>1, <1>2

-----------------------------------------------------------------------------
(* What the next head does to the item on top                              *)

LEMMA ItemIsRest ==
  ASSUME NEW s \in Seq(Units), NEW i \in 1 .. Len(s), s[i] \in Heads
  PROVE  /\ End(s, "item", i, 0) = Rest(s, Item(s[i]), i + 1)
         /\ Item(s[i]) \in Frames
         /\ Rest(s, Item(s[i]), i + 1) \in Beyond(s, i)
<1> DEFINE u == s[i]
           h == Item(u)
<1>1. u.type \in Types /\ u.ind \in BOOLEAN /\ u.value \in Nat /\ (u.ind => u.value # 0)
  BY WalkAssumption
<1>2. h.type = u.type /\ h.ind = u.ind /\ h.value = u.value /\ h.second = FALSE
  BY DEF Item
<1>3. h \in Frames
  BY <1>1 DEF Item, Frames, Items
<1>4. IsBreak(h) <=> IsBreak(u)
  BY <1>2 DEF IsBreak
<1>5. i \in 1 .. Len(s) + 1 /\ ~(i > Len(s))
  OBVIOUS
<1>6. End(s, "item", i, 0) = AfterHead(s, Ends(s), i)
  <2>1. End(s, "item", i, 0) = Descend(s, Ends(s), <<"item", i, 0>>)
    BY <1>5, EndIs DEF Goals
  <2> QED
    BY <1>5, <2>1 DEF Descend
<1>7. AfterHead(s, Ends(s), i) = Rest(s, h, i + 1)
  <2> HIDE DEF h
  <2>1. CASE IsBreak(u)
    BY <1>2, <1>4, <2>1 DEF AfterHead, Rest, IsBreak
  <2>2. CASE ~IsBreak(u)
    <3>1. 2 * h.value - (IF h.second THEN 1 ELSE 0) = 2 * u.value
      BY <1>1, <1>2
    <3> QED
      BY <1>1, <1>2, <1>4, <2>2, <3>1 DEF AfterHead, Rest, End, Types
  <2> QED
    BY <2>1, <2>2
<1>8. End(s, "item", i, 0) \in Beyond(s, i)
  BY <1>5, EndIs DEF Goals
<1> QED
  BY <1>3, <1>6, <1>7, <1>8

(* n items, of which the first is the one at i                             *)
LEMMA ItemsNext ==
  ASSUME NEW s \in Seq(Units), NEW i \in 1 .. Len(s), s[i] \in Heads
  PROVE  /\ \A n \in Nat \ {0} :
              End(s, "items", i, n) = After(s, Rest(s, Item(s[i]), i + 1), "items", n - 1)
         /\ End(s, "items", i, 1) = Rest(s, Item(s[i]), i + 1)
<1> DEFINE e == Rest(s, Item(s[i]), i + 1)
<1>1. \A n \in Nat \ {0} : End(s, "items", i, n) = After(s, e, "items", n - 1)
  BY ItemIsRest, ItemsEnd
<1>2. After(s, e, "items", 0) = e
  <2>1. CASE e \in Failures
    BY <2>1 DEF After, Then
  <2>2. CASE e \notin Failures
    <3>1. e \in 1 .. Len(s) + 1
      BY <2>2, ItemIsRest DEF Beyond
    <3> HIDE DEF e
    <3>2. End(s, "items", e, 0) = e
      BY <3>1, ItemsEnd
    <3> QED
      BY <2>2, <3>2 DEF After, Then, End
  <2> QED
    BY <2>1, <2>2
<1> QED
  BY <1>1, <1>2

(* The head at i is that of an element of h, which leaves the rest to k.   *)
Goes(s, h, i, k) ==
  /\ k \in Frames
  /\ Rest(s, h, i) = Close(s, k, Rest(s, Item(s[i]), i + 1))

LEMMA ArrayGoes ==
  ASSUME NEW s \in Seq(Units), NEW i \in 1 .. Len(s), s[i] \in Heads,
         NEW h \in Frames, h.type = "array", h.value # 0, ~(h.ind /\ IsBreak(s[i]))
  PROVE  Goes(s, h, i, [h EXCEPT !.value = IF h.ind THEN @ ELSE @ - 1])
<1> DEFINE e == Rest(s, Item(s[i]), i + 1)
           k == [h EXCEPT !.value = IF h.ind THEN @ ELSE @ - 1]
<1> SUFFICES Goes(s, h, i, k)
  OBVIOUS
<1>1. /\ k.type = "array" /\ k.ind = h.ind
      /\ ~h.ind => k.value = h.value - 1 /\ h.value \in Nat \ {0}
      /\ k \in Frames
  BY DEF Frames, Items
<1> HIDE DEF k
<1>2. CASE h.ind
  <2>1. Rest(s, h, i) = After(s, e, "elements", 0)
    <3>1. End(s, "elements", i, 0) = After(s, End(s, "items", i, 1), "elements", 0)
      BY <1>2, GroupsEnd
    <3> QED
      BY <1>2, <3>1, ItemsNext DEF Rest
  <2> QED
    BY <1>1, <1>2, <2>1 DEF Goes, Close, Rest, After, Then, End
<1>3. CASE ~h.ind
  <2>1. Rest(s, h, i) = After(s, e, "items", h.value - 1)
    BY <1>1, <1>3, ItemsNext DEF Rest
  <2> QED
    BY <1>1, <1>3, <2>1 DEF Goes, Close, Rest, After, Then, End
<1> QED
  BY <1>2, <1>3

LEMMA MapGoes ==
  ASSUME NEW s \in Seq(Units), NEW i \in 1 .. Len(s), s[i] \in Heads,
         NEW h \in Frames, h.type = "map", h.value # 0, ~(h.ind /\ IsBreak(s[i]))
  PROVE  Goes(s, h, i, [h EXCEPT !.second = ~@,
                                 !.value = IF h.second /\ ~h.ind THEN @ - 1 ELSE @])
<1> DEFINE e == Rest(s, Item(s[i]), i + 1)
           k == [h EXCEPT !.second = ~@,
                          !.value = IF h.second /\ ~h.ind THEN @ - 1 ELSE @]
           m == 2 * h.value - (IF h.second THEN 1 ELSE 0)
<1> SUFFICES Goes(s, h, i, k)
  OBVIOUS
<1>1. h.value \in Nat \ {0} /\ h.second \in BOOLEAN /\ h.ind \in BOOLEAN
  BY FrameCount
<1>2. /\ k.type = "map" /\ k.ind = h.ind /\ k.second = ~h.second
      /\ k.value = IF h.second /\ ~h.ind THEN h.value - 1 ELSE h.value
  BY DEF Frames, Items
<1>3. k \in Frames
  <2>1. k.value \in Nat /\ k.second \in BOOLEAN
    BY <1>1, <1>2
  <2>2. k \in Items
    <3>1. (~h.second) \in BOOLEAN
      OBVIOUS
    <3>2. (IF h.second /\ ~h.ind THEN h.value - 1 ELSE h.value) \in Nat
      BY <1>1
    <3>3. \A b \in BOOLEAN, v \in Nat : [h EXCEPT !.second = b, !.value = v] \in Items
      BY DEF Frames, Items
    <3> QED
      BY <3>1, <3>2, <3>3
  <2>3. h.second => ~k.second
    BY <1>2
  <2>4. k.ind => k.value # 0
    BY <1>1, <1>2
  <2>5. k.second => k.value # 0
    BY <1>1, <1>2
  <2> HIDE DEF k
  <2> QED
    BY <1>2, <2>2, <2>4, <2>5 DEF Frames
<1> HIDE DEF k
<1>4. CASE h.ind /\ h.second
  <2>1. Rest(s, h, i) = After(s, e, "pairs", 0)
    BY <1>4, ItemsNext DEF Rest
  <2> QED
    BY <1>2, <1>3, <1>4, <2>1 DEF Goes, Close, Rest, After, Then, End
<1>5. CASE h.ind /\ ~h.second
  <2>1. Rest(s, h, i) = After(s, After(s, e, "items", 1), "pairs", 0)
    <3>1. End(s, "pairs", i, 0) = After(s, End(s, "items", i, 2), "pairs", 0)
      BY <1>5, GroupsEnd
    <3>2. End(s, "items", i, 2) = After(s, e, "items", 1)
      BY ItemsNext
    <3> QED
      BY <1>5, <3>1, <3>2 DEF Rest
  <2> HIDE DEF e
  <2>2. CASE e \in Failures
    BY <1>3, <2>1, <2>2 DEF Goes, Close, After, Then, e
  <2>3. CASE e \notin Failures
    <3>1. After(s, e, "items", 1) = End(s, "items", e, 1)
      BY <2>3 DEF After, Then, End
    <3>2. Rest(s, k, e) = After(s, End(s, "items", e, 1), "pairs", 0)
      BY <1>2, <1>5 DEF Rest
    <3> QED
      BY <1>3, <2>1, <2>3, <3>1, <3>2 DEF Goes, Close, e
  <2> QED
    BY <2>2, <2>3
<1>6. CASE ~h.ind
  <2>1. m \in Nat \ {0} /\ 2 * k.value - (IF k.second THEN 1 ELSE 0) = m - 1
    <3>1. CASE h.second
      BY <1>1, <1>2, <1>6, <3>1
    <3>2. CASE ~h.second
      <4>1. k.second
        BY <1>2, <3>2
      <4>2. k.value = h.value /\ h.value \in Nat \ {0}
        BY <1>1, <1>2, <3>2
      <4>3. m = 2 * h.value
        BY <3>2, <4>2
      <4>4. 2 * k.value - (IF k.second THEN 1 ELSE 0) = 2 * h.value - 1
        BY <4>1, <4>2
      <4> HIDE DEF m
      <4> QED
        BY <4>2, <4>3, <4>4
    <3> HIDE DEF m
    <3> QED
      BY <3>1, <3>2
  <2>2. Rest(s, h, i) = After(s, e, "items", m - 1)
    <3>1. Rest(s, h, i) = End(s, "items", i, m)
      BY <1>6 DEF Rest
    <3> HIDE DEF m
    <3> QED
      BY <2>1, <3>1, ItemsNext
  <2>3. Close(s, k, e) = After(s, e, "items", m - 1)
    <3> HIDE DEF m, e
    <3> QED
      BY <1>2, <1>6, <2>1 DEF Close, Rest, After, Then, End
  <2> QED
    BY <1>3, <2>2, <2>3 DEF Goes
<1> QED
  BY <1>1, <1>4, <1>5, <1>6

(* A break behind the elements of h, or where a value is expected          *)
LEMMA BreakEnds ==
  ASSUME NEW s \in Seq(Units), NEW i \in 1 .. Len(s), s[i] \in Heads, IsBreak(s[i]),
         NEW h \in Frames, h.type \in {"array", "map"}, h.ind
  PROVE  Rest(s, h, i) = IF h.second THEN Malformed ELSE i + 1
<1>1. h.second => h.type = "map"
  BY DEF Frames
<1>2. CASE ~h.second
  BY <1>2, GroupsEnd DEF Rest
<1>3. CASE h.second
  <2>1. Rest(s, Item(s[i]), i + 1) = Malformed
    BY DEF Rest, Item, IsBreak
  <2>2. End(s, "items", i, 1) = Malformed
    BY <2>1, ItemsNext
  <2> QED
    BY <1>1, <1>3, <2>2 DEF Rest, After, Then, Failures
<1> QED
  BY <1>2, <1>3, FrameCount

-----------------------------------------------------------------------------
(* The items on the stack lie within each other                            *)

(* Where the item on top of the frames ends if what the walk is in ends at *)
(* e, and so on: the outermost ends where the whole item does.             *)
Chain(s, frames, e) ==
  \E c \in [0 .. Len(frames) -> Places(s)] :
    /\ c[Len(frames)] = e /\ c[0] = ItemEnd(s)
    /\ \A k \in 1 .. Len(frames) : c[k - 1] = Close(s, frames[k], c[k])

LEMMA ChainPush ==
  ASSUME NEW s \in Seq(Units), NEW frames \in Seq(Frames), NEW h \in Frames,
         NEW e \in Places(s), Chain(s, frames, Close(s, h, e))
  PROVE  Chain(s, Append(frames, h), e)
<1> DEFINE n == Len(frames)
           more == Append(frames, h)
<1>1. PICK c \in [0 .. n -> Places(s)] :
        /\ c[n] = Close(s, h, e) /\ c[0] = ItemEnd(s)
        /\ \A k \in 1 .. n : c[k - 1] = Close(s, frames[k], c[k])
  BY DEF Chain
<1> DEFINE d == [k \in 0 .. n + 1 |-> IF k = n + 1 THEN e ELSE c[k]]
<1>2. n \in Nat /\ Len(more) = n + 1 /\ more[n + 1] = h /\ \A k \in 1 .. n : more[k] = frames[k]
  OBVIOUS
<1>3. d \in [0 .. n + 1 -> Places(s)] /\ d[n + 1] = e /\ d[0] = ItemEnd(s)
  BY <1>1, <1>2
<1>4. ASSUME NEW k \in 1 .. n + 1 PROVE d[k - 1] = Close(s, more[k], d[k])
  <2>1. CASE k = n + 1
    BY <1>1, <1>2, <2>1
  <2>2. CASE k # n + 1
    <3>1. k \in 1 .. n /\ k - 1 \in 0 .. n + 1 /\ k \in 0 .. n + 1 /\ k - 1 # n + 1
      BY <1>2, <2>2
    <3> QED
      BY <1>1, <1>2, <3>1, <2>2
  <2> QED
    BY <2>1, <2>2
<1> HIDE DEF d, more, n
<1> QED
  BY <1>2, <1>3, <1>4 DEF Chain, more

LEMMA ChainPop ==
  ASSUME NEW s \in Seq(Units), NEW frames \in Seq(Frames), NEW h \in Frames,
         NEW e, Chain(s, Append(frames, h), e)
  PROVE  e \in Places(s) /\ Chain(s, frames, Close(s, h, e))
<1> DEFINE n == Len(frames)
           more == Append(frames, h)
<1>1. n \in Nat /\ Len(more) = n + 1 /\ more[n + 1] = h /\ \A k \in 1 .. n : more[k] = frames[k]
  OBVIOUS
<1> HIDE DEF more
<1>2. PICK c \in [0 .. n + 1 -> Places(s)] :
        /\ c[n + 1] = e /\ c[0] = ItemEnd(s)
        /\ \A k \in 1 .. n + 1 : c[k - 1] = Close(s, more[k], c[k])
  BY <1>1 DEF Chain, more
<1> DEFINE d == [k \in 0 .. n |-> c[k]]
<1>3. d \in [0 .. n -> Places(s)] /\ d[0] = ItemEnd(s)
  BY <1>1, <1>2
<1>4. d[n] = Close(s, h, e)
  <2>1. n + 1 \in 1 .. n + 1 /\ (n + 1) - 1 = n
    BY <1>1
  <2> QED
    BY <1>1, <1>2, <2>1
<1>5. ASSUME NEW k \in 1 .. n PROVE d[k - 1] = Close(s, frames[k], d[k])
  <2>1. k \in 1 .. n + 1 /\ k - 1 \in 0 .. n /\ k \in 0 .. n
    BY <1>1
  <2> QED
    BY <1>1, <1>2, <2>1
<1>6. e \in Places(s)
  BY <1>1, <1>2
<1> HIDE DEF d
<1> QED
  BY <1>3, <1>4, <1>5, <1>6 DEF Chain

LEMMA ChainEmpty ==
  ASSUME NEW s \in Seq(Units), NEW e
  PROVE  /\ Chain(s, <<>>, e) => e = ItemEnd(s)
         /\ e = ItemEnd(s) /\ e \in Places(s) => Chain(s, <<>>, e)
<1>1. ASSUME Chain(s, <<>>, e) PROVE e = ItemEnd(s)
  BY <1>1 DEF Chain
<1>2. ASSUME e = ItemEnd(s), e \in Places(s) PROVE Chain(s, <<>>, e)
  <2> DEFINE c == [k \in 0 .. 0 |-> e]
  <2>1. c \in [0 .. Len(<<>>) -> Places(s)] /\ c[0] = e
    BY <1>2
  <2>2. \A k \in 1 .. Len(<<>>) : FALSE
    OBVIOUS
  <2> HIDE DEF c
  <2> QED
    BY <1>2, <2>1, <2>2 DEF Chain
<1> QED
  BY <1>1, <1>2

(* No more input, and the item on top needs some                           *)
LEMMA NothingRest ==
  ASSUME NEW s \in Seq(Units), NEW h \in Frames,
         h.type = "tag" \/ (h.type \in {"array", "map"} /\ h.value # 0)
  PROVE  Rest(s, h, Len(s) + 1) = Incomplete
<1>1. \A goal \in Goals, n \in Nat :
        (goal = "items" => n # 0) => End(s, goal, Len(s) + 1, n) = Incomplete
  BY NothingThere
<1>2. After(s, Incomplete, "pairs", 0) = Incomplete
  BY DEF After, Then, Failures
<1>3. h.value \in Nat /\ h.second \in BOOLEAN /\ 2 * h.value - (IF h.second THEN 1 ELSE 0) \in Nat
  BY FrameCount
<1>4. h.value # 0 => 2 * h.value - (IF h.second THEN 1 ELSE 0) # 0
  BY <1>3
<1>5. CASE h.type = "tag"
  BY <1>1, <1>5 DEF Rest, Goals
<1>6. CASE h.type = "array" /\ h.value # 0
  BY <1>1, <1>3, <1>6 DEF Rest, Goals
<1>7. CASE h.type = "map" /\ h.value # 0
  <2>1. End(s, "items", Len(s) + 1, 1) = Incomplete /\ End(s, "pairs", Len(s) + 1, 0) = Incomplete
    BY <1>1 DEF Goals
  <2>2. End(s, "items", Len(s) + 1, 2 * h.value - (IF h.second THEN 1 ELSE 0)) = Incomplete
    BY <1>1, <1>3, <1>4, <1>7 DEF Goals
  <2> QED
    BY <1>2, <1>7, <2>1, <2>2 DEF Rest
<1> QED
  BY <1>5, <1>6, <1>7

(* What every frame keeps holds of the whole item.                         *)
LEMMA ChainKeeps ==
  ASSUME NEW s \in Seq(Units), NEW frames \in Seq(Frames), NEW e, Chain(s, frames, e),
         NEW P \in SUBSET Places(s), e \in P,
         \A k \in 1 .. Len(frames), p \in P : Close(s, frames[k], p) \in P
  PROVE  ItemEnd(s) \in P
<1> DEFINE n == Len(frames)
<1>1. n \in Nat
  OBVIOUS
<1>2. PICK c \in [0 .. n -> Places(s)] :
        /\ c[n] = e /\ c[0] = ItemEnd(s)
        /\ \A k \in 1 .. n : c[k - 1] = Close(s, frames[k], c[k])
  BY DEF Chain
<1> DEFINE T == {k \in Nat : k <= n => c[n - k] \in P}
<1>3. 0 \in T
  BY <1>1, <1>2
<1>4. ASSUME NEW k \in Nat, k \in T PROVE k + 1 \in T
  <2> SUFFICES ASSUME k + 1 <= n PROVE c[n - (k + 1)] \in P
    BY <1>1
  <2>1. c[n - k] \in P
    BY <1>1, <1>4
  <2>2. n - k \in 1 .. n /\ n - (k + 1) = (n - k) - 1
    BY <1>1
  <2> QED
    BY <1>2, <2>1, <2>2
<1> HIDE DEF T
<1>5. n \in T
  BY <1>1, <1>3, <1>4, NumberInduction
<1>6. c[n - n] \in P
  BY <1>1, <1>5 DEF T
<1> QED
  BY <1>1, <1>2, <1>6

LEMMA ChainFailure ==
  ASSUME NEW s \in Seq(Units), NEW frames \in Seq(Frames),
         NEW e \in Failures, Chain(s, frames, e)
  PROVE  ItemEnd(s) = e
<1>1. /\ {e} \in SUBSET Places(s)
      /\ \A k \in 1 .. Len(frames), p \in {e} : Close(s, frames[k], p) \in {e}
  BY DEF Close, Places
<1>2. ItemEnd(s) \in {e}
  BY <1>1, ChainKeeps
<1> QED
  BY <1>2

LEMMA ChainAtEnd ==
  ASSUME NEW s \in Seq(Units), NEW frames \in Seq(Frames),
         NEW e \in Failures \union {Len(s) + 1}, Chain(s, frames, e)
  PROVE  ItemEnd(s) \in Failures \union {Len(s) + 1}
<1> DEFINE P == Failures \union {Len(s) + 1}
<1>1. P \in SUBSET Places(s)
  BY DEF Places
<1>2. ASSUME NEW h \in Frames, NEW p \in P PROVE Close(s, h, p) \in P
  <2>1. CASE p \in Failures
    BY <2>1 DEF Close
  <2>2. CASE p = Len(s) + 1
    BY <1>1, <2>2, ClosePlace
  <2> QED
    BY <2>1, <2>2
<1> HIDE DEF P
<1>3. e \in P
  BY DEF P
<1>4. \A k \in 1 .. Len(frames), p \in P : Close(s, frames[k], p) \in P
  BY <1>2
<1>5. ItemEnd(s) \in P
  BY <1>1, <1>3, <1>4, ChainKeeps
<1> QED
  BY <1>5 DEF P

(* Nothing is malformed yet if all that is open are arrays and maps.       *)
LEMMA ChainOpen ==
  ASSUME NEW s \in Seq(Units), NEW frames \in Seq(Frames),
         \A k \in 1 .. Len(frames) : frames[k].type \in {"array", "map"},
         NEW e \in {Incomplete, Len(s) + 1}, Chain(s, frames, e)
  PROVE  ItemEnd(s) \in {Incomplete, Len(s) + 1}
<1> DEFINE P == {Incomplete, Len(s) + 1}
<1>1. P \in SUBSET Places(s)
  BY DEF Places, Failures
<1>2. ASSUME NEW h \in Frames, h.type \in {"array", "map"}, NEW p \in P
      PROVE  Close(s, h, p) \in P
  <2>1. CASE p = Incomplete
    BY <2>1 DEF Close, Failures
  <2>2. CASE p = Len(s) + 1
    <3>1. CASE h.value # 0
      BY <1>2, <2>2, <3>1, NothingRest DEF Close, Failures, Malformed, Incomplete
    <3>2. CASE h.value = 0
      <4>1. ~h.ind /\ ~h.second
        BY <3>2 DEF Frames, Items
      <4>2. End(s, "items", Len(s) + 1, 0) = Len(s) + 1
        <5>1. Len(s) + 1 \in 1 .. Len(s) + 1 /\ 0 \in Nat
          OBVIOUS
        <5> QED
          BY <5>1, ItemsEnd
      <4>3. Rest(s, h, Len(s) + 1) = Len(s) + 1
        BY <1>2, <3>2, <4>1, <4>2 DEF Rest
      <4> QED
        BY <2>2, <4>3 DEF Close
    <3> QED
      BY <3>1, <3>2
  <2> QED
    BY <2>1, <2>2
<1> HIDE DEF P
<1>3. e \in P
  BY DEF P
<1>4. \A k \in 1 .. Len(frames), p \in P : Close(s, frames[k], p) \in P
  BY <1>2
<1>5. ItemEnd(s) \in P
  BY <1>1, <1>3, <1>4, ChainKeeps
<1> QED
  BY <1>5 DEF P

-----------------------------------------------------------------------------
(* The invariant                                                           *)

(* No head has been torn.                                                  *)
Whole == \A k \in 1 .. Len(consumed) : consumed[k] # Torn

(* The position of the next unit                                           *)
Here == Len(consumed) + 1

(* The inputs that begin with t                                            *)
Extensions(t) ==
  {s \in Seq(Units) : Len(t) <= Len(s) /\ \A k \in 1 .. Len(t) : s[k] = t[k]}

(* The string that is being skipped or copied ends, or the chunks it is of.*)
StringEnd(s) ==
  IF within THEN After(s, BytesEnd(s, Here, bytes), Top.type, 0)
  ELSE BytesEnd(s, Here, bytes)

Refusals == {"item_type_mismatch", "invalid_indefinite_subitem"}

(* Whatever s the input goes on to be: the walk is where its frames say,   *)
(* and what it has decided is right.                                       *)
Pending(s) ==
  /\ pc = "walk" => Chain(s, stack, Here)
  /\ pc \in {"chunk", "spin"} => Chain(s, Popped, End(s, Top.type, Here, 0))
  /\ pc = "bytes" => Chain(s, Popped, StringEnd(s))
  /\ pc = "done" /\ rx = "ok" => ItemEnd(s) = Here
  /\ pc = "done" /\ mode = "skip" /\ rx \in Refusals => ItemEnd(s) = Malformed

EndInv ==
  /\ stack \in Seq(Frames)
  /\ pc = "first" => consumed = <<>>
  /\ pc \in {"chunk", "bytes", "spin"} => Top.type \in {"binary", "text"}
  /\ \A s \in Extensions(consumed) : Pending(s)
  /\ pc = "done" /\ rx # "ok" => ItemEnd(consumed) \in Failures \union {Here}
  /\ pc = "done" /\ mode = "skip" /\ rx = "end_of_stream" => ItemEnd(consumed) = Incomplete
  /\ pc = "done" /\ mode = "skip" /\ rx = "input" => ItemEnd(consumed) \in {Incomplete, Here}

LEMMA Itself ==
  ASSUME NEW t \in Seq(Units)
  PROVE  t \in Extensions(t)
BY DEF Extensions

LEMMA ExtendByHead ==
  ASSUME NEW t \in Seq(Units), NEW u \in Units
  PROVE  /\ Append(t, u) \in Seq(Units) /\ Len(Append(t, u)) = Len(t) + 1
         /\ \A s \in Extensions(Append(t, u)) :
              s \in Extensions(t) /\ Len(t) + 1 \in 1 .. Len(s) /\ s[Len(t) + 1] = u
<1> DEFINE v == Append(t, u)
<1>1. /\ v \in Seq(Units) /\ Len(v) = Len(t) + 1 /\ Len(t) \in Nat
      /\ v[Len(t) + 1] = u /\ \A k \in 1 .. Len(t) : v[k] = t[k]
  OBVIOUS
<1> HIDE DEF v
<1>2. ASSUME NEW s \in Extensions(v)
      PROVE  s \in Extensions(t) /\ Len(t) + 1 \in 1 .. Len(s) /\ s[Len(t) + 1] = u
  <2>1. s \in Seq(Units) /\ Len(s) \in Nat /\ Len(v) <= Len(s) /\ \A k \in 1 .. Len(v) : s[k] = v[k]
    BY DEF Extensions
  <2>2. Len(t) <= Len(s) /\ \A k \in 1 .. Len(t) : s[k] = t[k]
    BY <1>1, <2>1
  <2> QED
    BY <1>1, <2>1, <2>2 DEF Extensions
<1> QED
  BY <1>1, <1>2 DEF v

LEMMA ExtendByBytes ==
  ASSUME NEW t \in Seq(Units), NEW n \in Nat
  PROVE  LET v == t \o Bytes(n) IN
         /\ v \in Seq(Units) /\ Len(v) = Len(t) + n
         /\ \A s \in Extensions(v) : s \in Extensions(t) /\ Len(t) + n <= Len(s)
<1> DEFINE b == Bytes(n)
           v == t \o b
<1>1. b \in Seq(Units) /\ Len(b) = n
  BY DEF Units, Bytes
<1> HIDE DEF b
<1>2. /\ v \in Seq(Units) /\ Len(v) = Len(t) + n /\ Len(t) \in Nat
      /\ \A k \in 1 .. Len(t) : v[k] = t[k]
  BY <1>1
<1> HIDE DEF v
<1>3. ASSUME NEW s \in Extensions(v) PROVE s \in Extensions(t) /\ Len(t) + n <= Len(s)
  <2>1. s \in Seq(Units) /\ Len(s) \in Nat /\ Len(v) <= Len(s) /\ \A k \in 1 .. Len(v) : s[k] = v[k]
    BY DEF Extensions
  <2>2. Len(t) <= Len(s) /\ \A k \in 1 .. Len(t) : s[k] = t[k]
    BY <1>2, <2>1
  <2> QED
    BY <1>2, <2>1, <2>2 DEF Extensions
<1> QED
  BY <1>2, <1>3 DEF v, b

(* The stack and what lies below its top                                   *)
LEMMA Below ==
  ASSUME stack \in Seq(Frames), stack # <<>>
  PROVE  /\ Popped \in Seq(Frames) /\ Top \in Frames /\ stack = Append(Popped, Top)
         /\ \A h \in Frames : [stack EXCEPT ![Len(stack)] = h] = Append(Popped, h)
<1> DEFINE n == Len(stack)
<1>1. n \in Nat \ {0} /\ Top \in Frames
  BY DEF Top
<1>2. Popped \in Seq(Frames) /\ Len(Popped) = n - 1 /\ \A k \in 1 .. n - 1 : Popped[k] = stack[k]
  <2>1. Popped = SubSeq(stack, 1, n - 1)
    BY DEF Popped
  <2>2. n \in Nat \ {0} /\ \A k \in 1 .. n - 1 : stack[k] \in Frames
    BY <1>1
  <2> HIDE DEF n
  <2>3. n - 1 \in Int /\ 1 \in Int
    BY <2>2
  <2>4. /\ SubSeq(stack, 1, n - 1) \in Seq(Frames)
        /\ Len(SubSeq(stack, 1, n - 1)) = IF 1 <= n - 1 THEN (n - 1) - 1 + 1 ELSE 0
        /\ \A k \in 1 .. (n - 1) - 1 + 1 : SubSeq(stack, 1, n - 1)[k] = stack[1 + k - 1]
    BY <2>2, <2>3, SubSeqProperties
  <2> QED
    BY <2>1, <2>2, <2>4
<1>3. ASSUME NEW h \in Frames PROVE [stack EXCEPT ![n] = h] = Append(Popped, h)
  <2> DEFINE a == [stack EXCEPT ![n] = h]
             b == Append(Popped, h)
  <2>1. a \in Seq(Frames) /\ Len(a) = n /\ a[n] = h /\ \A k \in 1 .. n - 1 : a[k] = stack[k]
    BY <1>1
  <2>2. b \in Seq(Frames) /\ Len(b) = n /\ b[n] = h /\ \A k \in 1 .. n - 1 : b[k] = stack[k]
    BY <1>1, <1>2
  <2> HIDE DEF a, b
  <2>3. ASSUME NEW k \in 1 .. n PROVE a[k] = b[k]
    <3>1. k = n \/ k \in 1 .. n - 1
      BY <1>1
    <3> QED
      BY <2>1, <2>2, <3>1
  <2>4. a = [k \in 1 .. n |-> a[k]] /\ b = [k \in 1 .. n |-> b[k]]
    BY <2>1, <2>2
  <2>5. a = b
    BY <2>3, <2>4
  <2> QED
    BY <2>5 DEF a, b
<1>4. [stack EXCEPT ![n] = Top] = stack
  BY <1>1 DEF Top
<1> QED
  BY <1>1, <1>2, <1>3, <1>4

-----------------------------------------------------------------------------
(* What is open on the stack                                               *)

Open(frames) == \A k \in 1 .. Len(frames) : frames[k].type \in {"array", "map"}

(* The items that others lie in are arrays and maps: a tag has given way   *)
(* to what it is on, and within a string no item is pushed.                *)
Nested == \A k \in 1 .. Len(stack) - 1 : stack[k].type \in {"array", "map"}

LEMMA PoppedParts ==
  ASSUME NEW S, stack \in Seq(S), stack # <<>>
  PROVE  Len(Popped) = Len(stack) - 1 /\ \A k \in 1 .. Len(stack) - 1 : Popped[k] = stack[k]
<1> DEFINE n == Len(stack)
<1>1. n \in Nat \ {0} /\ \A k \in 1 .. n - 1 : stack[k] \in S
  OBVIOUS
<1>2. Popped = SubSeq(stack, 1, n - 1)
  BY DEF Popped
<1> HIDE DEF n
<1>3. n - 1 \in Int /\ 1 \in Int
  BY <1>1
<1>4. /\ SubSeq(stack, 1, n - 1) \in Seq(S)
      /\ Len(SubSeq(stack, 1, n - 1)) = IF 1 <= n - 1 THEN (n - 1) - 1 + 1 ELSE 0
      /\ \A k \in 1 .. (n - 1) - 1 + 1 : SubSeq(stack, 1, n - 1)[k] = stack[1 + k - 1]
  BY <1>1, <1>3, SubSeqProperties
<1>5. Len(Popped) = n - 1 /\ \A k \in 1 .. n - 1 : Popped[k] = stack[k]
  BY <1>1, <1>2, <1>4
<1> QED
  BY <1>5 DEF n

LEMMA NestedBelow ==
  ASSUME Nested, stack \in Seq(Frames), stack # <<>>
  PROVE  Open(Popped)
BY PoppedParts DEF Nested, Open

LEMMA OpenPopped ==
  ASSUME Inv, Nested, pc \in {"walk", "chunk", "bytes"}
  PROVE  Popped \in Seq(Items) /\ Open(Popped)
<1>1. Len(stack) \in Nat \ {0} /\ stack \in Seq(Items) /\ Popped \in Seq(Items)
  BY Walking
<1>2. Len(Popped) = Len(stack) - 1 /\ \A k \in 1 .. Len(stack) - 1 : Popped[k] = stack[k]
  BY <1>1, PoppedParts
<1> QED
  BY <1>1, <1>2 DEF Nested, Open

LEMMA OpenTop ==
  ASSUME Inv, Nested, pc = "walk", Top.type \in {"array", "map"}, NEW x \in Items,
         x.type = Top.type
  PROVE  LET s == [stack EXCEPT ![Len(stack)] = x] IN s \in Seq(Items) /\ Open(s)
<1> DEFINE s == [stack EXCEPT ![Len(stack)] = x]
           n == Len(stack)
<1>1. n \in Nat \ {0} /\ stack \in Seq(Items) /\ DOMAIN stack = 1 .. n
  BY Walking
<1>2. s \in Seq(Items) /\ Len(s) = n /\ s[n] = x
  BY <1>1
<1>3. \A k \in 1 .. n : k # n => s[k] = stack[k]
  BY <1>1
<1>4. \A k \in 1 .. n - 1 : stack[k].type \in {"array", "map"}
  BY DEF Nested
<1> HIDE DEF s, n
<1>5. ASSUME NEW k \in 1 .. n PROVE s[k].type \in {"array", "map"}
  <2>1. k = n \/ (k # n /\ k \in 1 .. n - 1)
    BY <1>1
  <2> QED
    BY <1>2, <1>3, <1>4, <2>1
<1>6. s \in Seq(Items) /\ Open(s)
  BY <1>2, <1>5 DEF Open
<1> QED
  BY <1>6 DEF s

LEMMA StaysNested ==
  ASSUME NEW s \in Seq(Items), Open(s),
         stack' = s \/ \E x \in Items : stack' = Append(s, x)
  PROVE  Nested'
<1>1. Len(s) \in Nat
  OBVIOUS
<1>2. CASE stack' = s
  BY <1>1, <1>2 DEF Nested, Open
<1>3. ASSUME NEW x \in Items, stack' = Append(s, x) PROVE Nested'
  <2>1. Len(stack') = Len(s) + 1 /\ \A k \in 1 .. Len(s) : stack'[k] = s[k]
    BY <1>3
  <2> QED
    BY <1>1, <2>1 DEF Nested, Open
<1> QED
  BY <1>2, <1>3

LEMMA PushNested ==
  ASSUME Nested, NEW s \in Seq(Items), Open(s), NEW h \in Heads, PushHead(s, h)
  PROVE  Nested'
<1>1. Item(h) \in Items
  BY HeadType
<1>2. stack' = s \/ stack' = Append(s, Item(h)) \/ stack' = stack
  BY DEF PushHead, Push, Continue, OutputFails
<1>3. CASE stack' = stack
  BY <1>3 DEF Nested
<1> QED
  BY <1>1, <1>2, <1>3, StaysNested

LEMMA NestedInv ==
  ASSUME Inv, Nested, [Next]_vars
  PROVE  Nested'
<1>1. CASE stack' = stack
  BY <1>1 DEF Nested
<1>2. ASSUME pc \in {"walk", "chunk", "bytes"}, stack' = Popped PROVE Nested'
  BY <1>2, OpenPopped, StaysNested
<1>3. CASE First
  <2>1. <<>> \in Seq(Items) /\ Open(<<>>)
    BY DEF Open
  <2>2. ASSUME NEW h \in Heads, PushHead(<<>>, h) PROVE Nested'
    BY <2>1, <2>2, PushNested
  <2> QED
    BY <1>1, <1>3, <2>2, UpcomingType DEF First, InputEnds
<1>4. CASE Scalar \/ Complete
  BY <1>2, <1>4 DEF Scalar, Complete, Continue
<1>5. CASE ArrayNext
  <2>1. pc = "walk" /\ Top \in Items /\ Top.type = "array" /\ Top.value \in Nat \ {0}
    BY <1>5, Walking DEF ArrayNext, Items
  <2> DEFINE x == [Top EXCEPT !.value = IF Top.ind THEN @ ELSE @ - 1]
             s == [stack EXCEPT ![Len(stack)].value = IF Top.ind THEN @ ELSE @ - 1]
  <2>2. x \in Items /\ x.type = Top.type
    BY <2>1 DEF Items
  <2>3. s = [stack EXCEPT ![Len(stack)] = x]
    BY DEF Top
  <2>4. s \in Seq(Items) /\ Open(s)
    BY <2>1, <2>2, <2>3, OpenTop
  <2> HIDE DEF x
  <2>5. ASSUME NEW h \in Heads,
               IF Top.ind /\ IsBreak(h) THEN PopAtBreak(h) ELSE PushHead(s, h)
        PROVE  Nested'
    <3>1. CASE PopAtBreak(h)
      BY <1>1, <1>2, <2>1, <3>1 DEF PopAtBreak, Continue
    <3>2. CASE PushHead(s, h)
      BY <2>4, <3>2, PushNested
    <3> QED
      BY <2>5, <3>1, <3>2
  <2> QED
    BY <1>1, <1>5, <2>5, UpcomingType DEF ArrayNext, InputEnds
<1>6. CASE MapNext
  <2>1. /\ pc = "walk" /\ Top \in Items /\ Top.type = "map" /\ Top.value \in Nat \ {0}
        /\ Top.second \in BOOLEAN
    BY <1>6, Walking DEF MapNext, Items
  <2> DEFINE v == IF Top.second /\ ~Top.ind THEN Top.value - 1 ELSE Top.value
             x == [Top EXCEPT !.second = ~@, !.value = v]
             s == [stack EXCEPT ![Len(stack)].second = ~@,
                                ![Len(stack)].value =
                                   IF Top.second /\ ~Top.ind THEN @ - 1 ELSE @]
  <2>0. v \in Nat
    BY <2>1
  <2>2. x \in Items /\ x.type = Top.type
    <3> HIDE DEF v
    <3> QED
      BY <2>0, <2>1 DEF Items
  <2>3. s = [stack EXCEPT ![Len(stack)] = x]
    <3>1. Len(stack) \in DOMAIN stack
      BY <2>1, Walking
    <3> QED
      BY <3>1 DEF Top
  <2>4. s \in Seq(Items) /\ Open(s)
    BY <2>1, <2>2, <2>3, OpenTop
  <2> HIDE DEF x
  <2>5. ASSUME NEW h \in Heads,
               IF Top.ind /\ IsBreak(h)
               THEN IF Top.second THEN Refuse(h, "item_type_mismatch") ELSE PopAtBreak(h)
               ELSE PushHead(s, h)
        PROVE  Nested'
    <3>1. CASE PopAtBreak(h)
      BY <1>1, <1>2, <2>1, <3>1 DEF PopAtBreak, Continue
    <3>2. CASE PushHead(s, h)
      BY <2>4, <3>2, PushNested
    <3> QED
      BY <1>1, <2>5, <3>1, <3>2 DEF Refuse
  <2> QED
    BY <1>1, <1>6, <2>5, UpcomingType DEF MapNext, InputEnds
<1>7. CASE Tag
  <2>1. pc = "walk"
    BY <1>7 DEF Tag
  <2>2. ASSUME NEW h \in Heads, Continue(Append(Popped, Item(h))) PROVE Nested'
    <3>1. stack' = Append(Popped, Item(h)) /\ Item(h) \in Items
      BY <2>2, HeadType DEF Continue
    <3> QED
      BY <2>1, <3>1, OpenPopped, StaysNested
  <2> QED
    BY <1>1, <1>7, <2>2, UpcomingType DEF Tag, InputEnds, OutputFails
<1>8. CASE StrayBreak \/ String
  BY <1>1, <1>8 DEF StrayBreak, String
<1>9. CASE Chunk
  <2>1. ASSUME NEW h \in Heads, PopAtBreak(h) PROVE Nested'
    BY <1>1, <1>2, <1>9, <2>1 DEF PopAtBreak, Continue, Chunk
  <2>2. ASSUME NEW h \in Heads, ChunkOf(h) PROVE stack' = stack
    <3>1. TypeOK
      BY DEF Inv
    <3> QED
      BY <2>2, <3>1, ChunkGoes
  <2> QED
    BY <1>1, <1>9, <2>1, <2>2, UpcomingType DEF Chunk, InputEnds, Refuse, OutputFails, InputFails
<1>10. CASE SkipBytes
  BY <1>1, <1>2, <1>10 DEF SkipBytes, InputEnds, InputFails, EndOfString, Continue
<1>11. CASE CopyBytes
  BY <1>1, <1>2, <1>11 DEF CopyBytes, InputEnds, InputFails, EndOfString, Continue
<1>12. CASE UNCHANGED vars
  BY <1>1, <1>12 DEF vars
<1> QED
  BY <1>3, <1>4, <1>5, <1>6, <1>7, <1>8, <1>9, <1>10, <1>11, <1>12 DEF Next

(* A walk that has not ended is within the item or at its end.             *)
LEMMA AtEnd ==
  ASSUME Inv, EndInv, pc # "done"
  PROVE  ItemEnd(consumed) \in Failures \union {Here}
<1> DEFINE s == consumed
<1>1. s \in Seq(Units) /\ s \in Extensions(consumed) /\ Here = Len(s) + 1 /\ Here \in 1 .. Len(s) + 1
  BY Itself DEF Inv, TypeOK, Here
<1>2. Incomplete \in Failures
  BY DEF Failures
<1>3. CASE pc = "first"
  <2>1. ItemEnd(s) = End(s, "item", Len(s) + 1, 0)
    BY <1>1, <1>3 DEF EndInv, ItemEnd, End
  <2> QED
    BY <1>1, <1>2, <2>1, NothingThere DEF Goals
<1>4. CASE pc = "walk"
  BY <1>1, <1>4, ChainAtEnd DEF EndInv, Pending
<1>5. CASE pc \in {"chunk", "bytes", "spin"}
  <2>1. Popped \in Seq(Frames) /\ Top.type \in {"binary", "text"} /\ bytes \in Nat
    BY <1>5, Walking, Below DEF EndInv, Inv, TypeOK
  <2>2. End(s, Top.type, Here, 0) = Incomplete
    BY <1>1, <2>1, NothingThere DEF Goals
  <2>3. BytesEnd(s, Here, bytes) \in Failures \union {Here}
    BY <1>1, <1>2, <2>1 DEF BytesEnd, Here
  <2>4. StringEnd(s) \in Failures \union {Here}
    BY <1>2, <2>2, <2>3 DEF StringEnd, After, Then, End
  <2>5. PICK e \in Failures \union {Here} : Chain(s, Popped, e)
    BY <1>1, <1>2, <1>5, <2>2, <2>4 DEF EndInv, Pending
  <2> QED
    BY <1>1, <2>1, <2>5, ChainAtEnd
<1> QED
  BY <1>3, <1>4, <1>5 DEF Inv, TypeOK

-----------------------------------------------------------------------------
(* The building blocks of the walk                                         *)

LEMMA FailKeeps ==
  ASSUME Inv, EndInv, NEW e \in Errors, Fail(e), stack' \in Seq(Frames),
         ItemEnd(consumed') \in Failures \union {Here'},
         mode = "skip" /\ e = "end_of_stream" => ItemEnd(consumed') = Incomplete,
         mode = "skip" /\ e = "input" => ItemEnd(consumed') \in {Incomplete, Here'},
         mode = "skip" /\ e \in Refusals =>
           \A s \in Extensions(consumed') : ItemEnd(s) = Malformed
  PROVE  EndInv'
<1>1. pc' = "done" /\ rx' = e /\ mode' = mode /\ e # "ok"
  BY DEF Fail, Errors
<1>2. \A s \in Extensions(consumed') : Pending(s)'
  BY <1>1 DEF Pending
<1> QED
  BY <1>1, <1>2 DEF EndInv

LEMMA ContinueKeeps ==
  ASSUME Inv, EndInv, pc # "done", NEW frames \in Seq(Frames), Continue(frames),
         \A s \in Extensions(consumed') : Chain(s, frames, Here')
  PROVE  EndInv'
<1>1. /\ stack' = frames /\ rx' = "ok" /\ mode' = mode
      /\ pc' = IF frames = <<>> THEN "done" ELSE "walk"
  BY DEF Continue, Inv, TypeOK
<1>2. ASSUME NEW s \in Extensions(consumed') PROVE Pending(s)'
  <2>1. Chain(s, frames, Here') /\ s \in Seq(Units)
    BY DEF Extensions
  <2>2. CASE frames = <<>>
    <3>1. Here' = ItemEnd(s)
      BY <2>1, <2>2, ChainEmpty
    <3> QED
      BY <1>1, <2>2, <3>1 DEF Pending, Refusals
  <2>3. CASE frames # <<>>
    BY <1>1, <2>1, <2>3 DEF Pending
  <2> QED
    BY <2>2, <2>3
<1> QED
  BY <1>1, <1>2 DEF EndInv

LEMMA InputEndsKeeps ==
  ASSUME Inv, EndInv, InputEnds, ItemEnd(consumed) = Incomplete
  PROVE  EndInv'
<1>1. PICK e \in {"end_of_stream", "input"} : Fail(e)
  BY DEF InputEnds
<1>2. /\ stack' \in Seq(Frames) /\ consumed' = consumed
      /\ Incomplete \in Failures /\ e \in Errors /\ e \notin Refusals
  BY DEF InputEnds, EndInv, Failures, Errors, Refusals
<1> QED
  BY <1>1, <1>2, FailKeeps

(* The output is full, and nothing has changed.                            *)
LEMMA OutputKeeps ==
  ASSUME Inv, EndInv, pc # "done", Fail("output"), UNCHANGED <<consumed, stack>>
  PROVE  EndInv'
<1>1. ItemEnd(consumed') \in Failures \union {Here'}
  BY AtEnd DEF Here
<1>2. "output" \in Errors /\ "output" \notin Refusals /\ stack' \in Seq(Frames)
  BY DEF Errors, Refusals, EndInv
<1> QED
  BY <1>1, <1>2, FailKeeps

(* A head is taken after which the walk is within frames.                  *)
LEMMA TakenAtEnd ==
  ASSUME Inv, NEW h \in Heads, consumed' = Append(consumed, h),
         NEW frames \in Seq(Frames),
         \A s \in Extensions(Append(consumed, h)) : Chain(s, frames, Here + 1)
  PROVE  /\ Here' = Here + 1
         /\ ItemEnd(consumed') \in Failures \union {Here'}
<1> DEFINE s == Append(consumed, h)
<1>1. s \in Seq(Units) /\ s \in Extensions(s) /\ Len(s) + 1 = Here + 1
  BY ExtendByHead, Itself DEF Inv, TypeOK, Here, Units
<1>2. Here' = Here + 1
  BY <1>1 DEF Here
<1>3. Chain(s, frames, Len(s) + 1)
  BY <1>1
<1> HIDE DEF s
<1>4. ItemEnd(s) \in Failures \union {Len(s) + 1}
  BY <1>1, <1>3, ChainAtEnd
<1> QED
  BY <1>1, <1>2, <1>4 DEF s

LEMMA PushKeeps ==
  ASSUME Inv, EndInv, pc # "done", NEW frames \in Seq(Frames), NEW h \in Heads,
         PushHead(frames, h), Item(h) \in Frames,
         \A s \in Extensions(Append(consumed, h)) : Chain(s, Append(frames, Item(h)), Here + 1)
  PROVE  EndInv'
<1>1. CASE OutputFails
  BY <1>1, OutputKeeps DEF OutputFails
<1>2. CASE Push(frames, h)
  <2>1. consumed' = Append(consumed, h) /\ Append(frames, Item(h)) \in Seq(Frames)
    BY <1>2 DEF Push, Pass
  <2>2. Here' = Here + 1 /\ ItemEnd(consumed') \in Failures \union {Here'}
    BY <2>1, TakenAtEnd
  <2>3. CASE Len(frames) < MaxDepth
    <3>1. Continue(Append(frames, Item(h)))
      BY <1>2, <2>3 DEF Push
    <3> QED
      BY <2>1, <2>2, <3>1, ContinueKeeps
  <2>4. CASE ~(Len(frames) < MaxDepth)
    <3>1. Fail("not_enough_memory") /\ stack' = frames
      BY <1>2, <2>4 DEF Push
    <3>2. "not_enough_memory" \in Errors /\ "not_enough_memory" \notin Refusals
      BY DEF Errors, Refusals
    <3> QED
      BY <2>2, <3>1, <3>2, FailKeeps
  <2> QED
    BY <2>3, <2>4
<1> QED
  BY <1>1, <1>2 DEF PushHead

LEMMA PopAtBreakKeeps ==
  ASSUME Inv, EndInv, pc # "done", stack # <<>>, NEW h \in Heads, PopAtBreak(h),
         \A s \in Extensions(Append(consumed, h)) : Chain(s, Popped, Here + 1)
  PROVE  EndInv'
<1>1. consumed' = Append(consumed, h) /\ Popped \in Seq(Frames)
  BY Below DEF PopAtBreak, Pass, EndInv
<1>2. Here' = Here + 1 /\ ItemEnd(consumed') \in Failures \union {Here'}
  BY <1>1, TakenAtEnd
<1>3. CASE Continue(Popped)
  BY <1>1, <1>2, <1>3, ContinueKeeps
<1>4. CASE mode = "copy" /\ Fail("output") /\ UNCHANGED <<out, stack>>
  <2>1. "output" \in Errors /\ "output" \notin Refusals /\ stack' \in Seq(Frames)
    BY <1>4 DEF Errors, Refusals, EndInv
  <2> QED
    BY <1>2, <1>4, <2>1, FailKeeps
<1> QED
  BY <1>3, <1>4 DEF PopAtBreak

(* A head is refused: whatever follows it, the item is malformed.          *)
LEMMA RefuseKeeps ==
  ASSUME Inv, EndInv, pc # "done", NEW h \in Heads, NEW e \in Refusals, Refuse(h, e),
         \A s \in Extensions(Append(consumed, h)) : ItemEnd(s) = Malformed
  PROVE  EndInv'
<1>1. e \in Errors /\ e \notin {"end_of_stream", "input"} /\ stack' \in Seq(Frames) /\ Malformed \in Failures
  BY DEF Refusals, Errors, Refuse, EndInv, Failures
<1>2. Append(consumed, h) \in Extensions(Append(consumed, h))
  BY ExtendByHead, Itself DEF Inv, TypeOK, Units
<1>3. CASE mode = "skip"
  <2>1. consumed' = Append(consumed, h) /\ Fail(e)
    BY <1>3 DEF Refuse
  <2> QED
    BY <1>1, <1>2, <2>1, FailKeeps
<1>4. CASE mode # "skip"
  <2>1. consumed' = consumed /\ Fail(e)
    BY <1>4 DEF Refuse
  <2>2. ItemEnd(consumed') \in Failures \union {Here'}
    BY <2>1, AtEnd DEF Here
  <2> QED
    BY <1>1, <1>4, <2>1, <2>2, FailKeeps
<1> QED
  BY <1>3, <1>4

-----------------------------------------------------------------------------
(* The steps of the walk                                                   *)

(* Between two heads the item on top is the innermost of the chain.        *)
LEMMA OnTop ==
  ASSUME Inv, EndInv, pc = "walk", NEW s \in Extensions(consumed)
  PROVE  /\ s \in Seq(Units) /\ Here \in 1 .. Len(s) + 1 /\ Here \notin Failures
         /\ Top \in Frames /\ Popped \in Seq(Frames) /\ stack # <<>>
         /\ Chain(s, Popped, Rest(s, Top, Here))
<1>1. s \in Seq(Units) /\ Here \in 1 .. Len(s) + 1
  BY DEF Extensions, Here, Inv, TypeOK
<1>2. Here \notin Failures
  BY <1>1 DEF Failures, Malformed, Incomplete
<1>3. stack # <<>> /\ Top \in Frames /\ Popped \in Seq(Frames) /\ stack = Append(Popped, Top)
  BY Walking, Below DEF EndInv
<1>4. Chain(s, Append(Popped, Top), Here)
  BY <1>3 DEF EndInv, Pending
<1>5. Chain(s, Popped, Close(s, Top, Here))
  BY <1>1, <1>3, <1>4, ChainPop
<1> QED
  BY <1>1, <1>2, <1>3, <1>5 DEF Close

LEMMA NextHead ==
  ASSUME Inv, NEW h \in Heads, NEW s \in Extensions(Append(consumed, h))
  PROVE  /\ s \in Seq(Units) /\ s \in Extensions(consumed) /\ Here \in 1 .. Len(s)
         /\ s[Here] = h /\ s[Here] \in Heads /\ Item(h) \in Frames
         /\ Rest(s, Item(h), Here + 1) \in Places(s)
         /\ Here + 1 \in Places(s) /\ Here + 1 \notin Failures
<1>1. /\ s \in Seq(Units) /\ s \in Extensions(consumed)
      /\ Here \in 1 .. Len(s) /\ s[Here] = h
  BY ExtendByHead DEF Inv, TypeOK, Units, Here, Extensions
<1>2. Item(h) \in Frames /\ Rest(s, Item(h), Here + 1) \in Beyond(s, Here)
  BY <1>1, ItemIsRest
<1> QED
  BY <1>1, <1>2 DEF Places, Beyond, Failures, Malformed, Incomplete

LEMMA WantsMore ==
  ASSUME Inv, EndInv, pc = "walk", InputEnds,
         Top.type = "tag" \/ (Top.type \in {"array", "map"} /\ Top.value # 0)
  PROVE  EndInv'
<1>1. consumed \in Seq(Units) /\ consumed \in Extensions(consumed) /\ Here = Len(consumed) + 1
  BY Itself DEF Inv, TypeOK, Here
<1>2. /\ Top \in Frames /\ Popped \in Seq(Frames)
      /\ Chain(consumed, Popped, Rest(consumed, Top, Here))
  BY <1>1, OnTop
<1>3. Rest(consumed, Top, Here) = Incomplete
  BY <1>1, <1>2, NothingRest
<1>4. ItemEnd(consumed) = Incomplete
  BY <1>1, <1>2, <1>3, ChainFailure DEF Failures
<1> QED
  BY <1>4, InputEndsKeeps

LEMMA FirstKeeps == ASSUME Inv, EndInv, First PROVE EndInv'
<1>1. pc = "first" /\ consumed = <<>> /\ Here = 1 /\ stack = <<>>
  BY DEF First, EndInv, Here, Inv, TypeOK
<1>2. CASE InputEnds
  <2>1. consumed \in Seq(Units) /\ Len(consumed) + 1 = 1
    BY <1>1
  <2>2. End(consumed, "item", 1, 0) = Incomplete
    BY <2>1, NothingThere DEF Goals
  <2> QED
    BY <1>2, <2>2, InputEndsKeeps DEF ItemEnd, End
<1>3. ASSUME NEW h \in Heads, PushHead(<<>>, h) PROVE EndInv'
  <2>1. <<>> \in Seq(Frames)
    OBVIOUS
  <2>2. ASSUME NEW s \in Extensions(Append(consumed, h))
        PROVE  Chain(s, Append(<<>>, Item(h)), Here + 1) /\ Item(h) \in Frames
    <3> DEFINE e == Rest(s, Item(h), Here + 1)
    <3>1. e = ItemEnd(s)
      BY <1>1, NextHead, ItemIsRest DEF ItemEnd, End
    <3>2. e \in Places(s) /\ e = Close(s, Item(h), Here + 1)
      BY NextHead DEF Close
    <3>3. Chain(s, <<>>, Close(s, Item(h), Here + 1))
      BY <3>1, <3>2, NextHead, ChainEmpty
    <3> QED
      BY <2>1, <3>3, NextHead, ChainPush
  <2>3. Append(consumed, h) \in Extensions(Append(consumed, h))
    BY ExtendByHead, Itself DEF Inv, TypeOK, Units
  <2> QED
    BY <1>1, <1>3, <2>1, <2>2, <2>3, PushKeeps
<1> QED
  BY <1>2, <1>3, UpcomingType DEF First

(* The item on top ends where the walk is.                                 *)
LEMMA PoppedKeeps ==
  ASSUME Inv, EndInv, pc = "walk", Continue(Popped), UNCHANGED consumed,
         \A s \in Extensions(consumed) : Rest(s, Top, Here) = Here
  PROVE  EndInv'
<1>1. Here' = Here /\ Popped \in Seq(Frames)
  BY Walking, Below DEF Here, EndInv
<1>2. \A s \in Extensions(consumed) : Chain(s, Popped, Here)
  BY OnTop
<1> QED
  BY <1>1, <1>2, ContinueKeeps

LEMMA ScalarKeeps == ASSUME Inv, EndInv, Scalar PROVE EndInv'
<1>1. \A s : Rest(s, Top, Here) = Here
  BY DEF Scalar, Rest
<1> QED
  BY <1>1, PoppedKeeps DEF Scalar

LEMMA CompleteKeeps == ASSUME Inv, EndInv, Complete PROVE EndInv'
<1> USE DEF Complete
<1>1. pc = "walk" /\ Top.type \in {"array", "map"} /\ Top.value = 0
  OBVIOUS
<1>2. ASSUME NEW s \in Extensions(consumed) PROVE Rest(s, Top, Here) = Here
  <2>1. s \in Seq(Units) /\ Here \in 1 .. Len(s) + 1 /\ Top \in Frames
    BY <1>1, OnTop
  <2>2. ~Top.ind /\ ~Top.second
    BY <1>1, <2>1 DEF Frames
  <2>3. End(s, "items", Here, 0) = Here
    BY <2>1, ItemsEnd
  <2>4. 2 * Top.value - (IF Top.second THEN 1 ELSE 0) = 0
    <3>1. (IF Top.second THEN 1 ELSE 0) = 0
      BY <2>2
    <3>2. \A n : n = 0 => 2 * Top.value - n = 0
      BY <1>1
    <3> QED
      BY <3>1, <3>2
  <2> QED
    BY <1>1, <2>2, <2>3, <2>4 DEF Rest
<1> QED
  BY <1>2, PoppedKeeps

LEMMA StrayBreakKeeps == ASSUME Inv, EndInv, StrayBreak PROVE EndInv'
<1> USE DEF StrayBreak
<1>1. ASSUME NEW s \in Extensions(consumed) PROVE ItemEnd(s) = Malformed
  <2>1. Rest(s, Top, Here) = Malformed
    BY DEF Rest, IsBreak
  <2> QED
    BY <2>1, OnTop, ChainFailure DEF Failures
<1>2. ItemEnd(consumed') \in Failures \union {Here'}
  BY AtEnd DEF Here
<1>3. "item_type_mismatch" \in Errors /\ stack' \in Seq(Frames)
  BY DEF Errors, EndInv
<1> QED
  BY <1>1, <1>2, <1>3, FailKeeps

(* The next head is that of an element, and leaves the item on top as k.   *)
LEMMA ElementKeeps ==
  ASSUME Inv, EndInv, pc = "walk", NEW h \in Heads, NEW k \in Frames,
         PushHead([stack EXCEPT ![Len(stack)] = k], h),
         \A s \in Extensions(Append(consumed, h)) : Goes(s, Top, Here, k)
  PROVE  EndInv'
<1> DEFINE frames == Append(Popped, k)
<1>1. /\ [stack EXCEPT ![Len(stack)] = k] = frames
      /\ Popped \in Seq(Frames) /\ frames \in Seq(Frames)
  BY Walking, Below DEF EndInv
<1>2. ASSUME NEW s \in Extensions(Append(consumed, h))
      PROVE  Chain(s, Append(frames, Item(h)), Here + 1) /\ Item(h) \in Frames
  <2> DEFINE e == Rest(s, Item(h), Here + 1)
  <2>1. e = Close(s, Item(h), Here + 1) /\ e \in Places(s)
    BY NextHead DEF Close
  <2>2. Chain(s, Popped, Close(s, k, e))
    BY NextHead, OnTop DEF Goes
  <2> HIDE DEF e
  <2>3. Chain(s, frames, e)
    BY <1>1, <2>1, <2>2, NextHead, ChainPush
  <2> HIDE DEF frames
  <2> QED
    BY <1>1, <2>1, <2>3, NextHead, ChainPush
<1>3. Append(consumed, h) \in Extensions(Append(consumed, h))
  BY ExtendByHead, Itself DEF Inv, TypeOK, Units
<1> HIDE DEF frames
<1> QED
  BY <1>1, <1>2, <1>3, PushKeeps

LEMMA ArrayNextKeeps == ASSUME Inv, EndInv, ArrayNext PROVE EndInv'
<1> USE DEF ArrayNext
<1> DEFINE k == [Top EXCEPT !.value = IF Top.ind THEN @ ELSE @ - 1]
<1>1. CASE InputEnds
  BY <1>1, WantsMore
<1>2. ASSUME NEW h \in Heads, Top.ind /\ IsBreak(h), PopAtBreak(h)
      PROVE  EndInv'
  <2>1. \A s \in Extensions(Append(consumed, h)) : Chain(s, Popped, Here + 1)
    <3> TAKE s \in Extensions(Append(consumed, h))
    <3>1. Chain(s, Popped, Rest(s, Top, Here)) /\ Top \in Frames
      BY NextHead, OnTop
    <3>2. ~Top.second
      BY <3>1 DEF Frames
    <3>3. Rest(s, Top, Here) = Here + 1
      BY <1>2, <3>1, <3>2, NextHead, BreakEnds
    <3> QED
      BY <3>1, <3>3
  <2> QED
    BY <1>2, <2>1, Walking, PopAtBreakKeeps
<1>3. ASSUME NEW h \in Heads, ~(Top.ind /\ IsBreak(h)),
             PushHead([stack EXCEPT ![Len(stack)] = k], h)
      PROVE  EndInv'
  <2>1. ASSUME NEW s \in Extensions(Append(consumed, h)) PROVE Goes(s, Top, Here, k)
    <3>1. Top \in Frames
      BY NextHead, OnTop
    <3> QED
      BY <1>3, <3>1, NextHead, ArrayGoes
  <2>2. k \in Frames
    <3>1. Append(consumed, h) \in Extensions(Append(consumed, h))
      BY ExtendByHead, Itself DEF Inv, TypeOK, Units
    <3> QED
      BY <2>1, <3>1 DEF Goes
  <2> HIDE DEF k
  <2> QED
    BY <1>3, <2>1, <2>2, ElementKeeps
<1>4. [stack EXCEPT ![Len(stack)].value = IF Top.ind THEN @ ELSE @ - 1]
        = [stack EXCEPT ![Len(stack)] = k]
  BY DEF Top
<1> QED
  BY <1>1, <1>2, <1>3, <1>4, UpcomingType

LEMMA MapNextKeeps == ASSUME Inv, EndInv, MapNext PROVE EndInv'
<1> USE DEF MapNext
<1> DEFINE k == [Top EXCEPT !.second = ~@,
                            !.value = IF Top.second /\ ~Top.ind THEN @ - 1 ELSE @]
<1>1. CASE InputEnds
  BY <1>1, WantsMore
<1>2. ASSUME NEW h \in Heads, Top.ind /\ IsBreak(h), NEW s \in Extensions(Append(consumed, h))
      PROVE  Chain(s, Popped, IF Top.second THEN Malformed ELSE Here + 1)
  <2>1. Chain(s, Popped, Rest(s, Top, Here)) /\ Top \in Frames
    BY NextHead, OnTop
  <2>2. /\ s \in Seq(Units) /\ Here \in 1 .. Len(s)
        /\ s[Here] \in Heads /\ IsBreak(s[Here])
    BY <1>2, NextHead
  <2>3. Top.type \in {"array", "map"} /\ Top.ind
    BY <1>2
  <2>4. Rest(s, Top, Here) = IF Top.second THEN Malformed ELSE Here + 1
    BY <2>1, <2>2, <2>3, BreakEnds
  <2> QED
    BY <2>1, <2>4
<1>3. ASSUME NEW h \in Heads, Top.ind /\ IsBreak(h), Top.second,
             Refuse(h, "item_type_mismatch")
      PROVE  EndInv'
  <2>1. \A s \in Extensions(Append(consumed, h)) : ItemEnd(s) = Malformed
    <3> TAKE s \in Extensions(Append(consumed, h))
    <3>1. Chain(s, Popped, Malformed) /\ Popped \in Seq(Frames) /\ s \in Seq(Units)
      BY <1>2, <1>3, NextHead, OnTop
    <3> QED
      BY <3>1, ChainFailure DEF Failures
  <2> QED
    BY <1>3, <2>1, RefuseKeeps DEF Refusals
<1>4. ASSUME NEW h \in Heads, Top.ind /\ IsBreak(h), ~Top.second, PopAtBreak(h)
      PROVE  EndInv'
  <2>1. \A s \in Extensions(Append(consumed, h)) : Chain(s, Popped, Here + 1)
    BY <1>2, <1>4
  <2> QED
    BY <1>4, <2>1, Walking, PopAtBreakKeeps
<1>5. ASSUME NEW h \in Heads, ~(Top.ind /\ IsBreak(h)),
             PushHead([stack EXCEPT ![Len(stack)] = k], h)
      PROVE  EndInv'
  <2>1. ASSUME NEW s \in Extensions(Append(consumed, h)) PROVE Goes(s, Top, Here, k)
    <3>1. Top \in Frames
      BY NextHead, OnTop
    <3> QED
      BY <1>5, <3>1, NextHead, MapGoes
  <2>2. k \in Frames
    <3>1. Append(consumed, h) \in Extensions(Append(consumed, h))
      BY ExtendByHead, Itself DEF Inv, TypeOK, Units
    <3> QED
      BY <2>1, <3>1 DEF Goes
  <2> HIDE DEF k
  <2> QED
    BY <1>5, <2>1, <2>2, ElementKeeps
<1>6. [stack EXCEPT ![Len(stack)].second = ~@,
                    ![Len(stack)].value =
                       IF Top.second /\ ~Top.ind THEN @ - 1 ELSE @]
        = [stack EXCEPT ![Len(stack)] = k]
  <2>1. stack \in Seq(Items) /\ Len(stack) \in DOMAIN stack /\ Top = stack[Len(stack)]
    BY Walking DEF Top
  <2>2. Top \in Items
    BY Walking
  <2> QED
    BY <2>1, <2>2 DEF Items
<1> QED
  BY <1>1, <1>3, <1>4, <1>5, <1>6, UpcomingType

LEMMA TagKeeps == ASSUME Inv, EndInv, Tag PROVE EndInv'
<1>1. pc = "walk" /\ Top.type = "tag"
  BY DEF Tag
<1>2. CASE InputEnds
  BY <1>1, <1>2, WantsMore
<1>3. CASE OutputFails
  BY <1>1, <1>3, OutputKeeps DEF OutputFails
<1>4. ASSUME NEW h \in Heads, Pass(h), Continue(Append(Popped, Item(h))) PROVE EndInv'
  <2>1. consumed' = Append(consumed, h) /\ Popped \in Seq(Frames)
    BY <1>1, <1>4, Walking, Below DEF Pass, EndInv
  <2>2. ASSUME NEW s \in Extensions(Append(consumed, h))
        PROVE  Chain(s, Append(Popped, Item(h)), Here + 1) /\ Item(h) \in Frames
    <3>1. Rest(s, Top, Here) = Close(s, Item(h), Here + 1)
      <4>1. Rest(s, Top, Here) = End(s, "item", Here, 0)
        BY <1>1 DEF Rest
      <4>2. End(s, "item", Here, 0) = Rest(s, Item(h), Here + 1)
        BY NextHead, ItemIsRest
      <4> QED
        BY <4>1, <4>2, NextHead DEF Close
    <3>2. Chain(s, Popped, Close(s, Item(h), Here + 1))
      BY <1>1, <3>1, NextHead, OnTop
    <3> QED
      BY <2>1, <3>2, NextHead, ChainPush
  <2>3. Append(consumed, h) \in Extensions(Append(consumed, h))
    BY ExtendByHead, Itself DEF Inv, TypeOK, Units
  <2>4. Append(Popped, Item(h)) \in Seq(Frames)
    BY <2>1, <2>2, <2>3
  <2>5. Here' = Here + 1
    BY <2>1, <2>2, <2>4, TakenAtEnd
  <2> QED
    BY <1>1, <1>4, <2>1, <2>2, <2>4, <2>5, ContinueKeeps
<1> QED
  BY <1>2, <1>3, <1>4, UpcomingType DEF Tag

-----------------------------------------------------------------------------
(* The strings                                                             *)

LEMMA InString ==
  ASSUME Inv, EndInv, pc \in {"chunk", "bytes", "spin"}
  PROVE  /\ pc # "done" /\ rx = "ok" /\ stack # <<>>
         /\ Popped \in Seq(Frames) /\ Top \in Frames
         /\ Top.type \in {"binary", "text"} /\ Top.type \in Goals /\ bytes \in Nat
         /\ consumed \in Seq(Units) /\ consumed \in Extensions(consumed)
         /\ Here = Len(consumed) + 1 /\ Len(consumed) \in Nat
<1>1. pc # "done" /\ rx = "ok" /\ stack # <<>>
  BY Walking
<1>2. Popped \in Seq(Frames) /\ Top \in Frames
  BY <1>1, Below DEF EndInv
<1>3. consumed \in Seq(Units) /\ bytes \in Nat /\ Here = Len(consumed) + 1 /\ Len(consumed) \in Nat
  BY DEF Inv, TypeOK, Here
<1> QED
  BY <1>1, <1>2, <1>3, Itself DEF EndInv, Goals

LEMMA StringKeeps == ASSUME Inv, EndInv, String PROVE EndInv'
<1> USE DEF String
<1>1. /\ stack' = stack /\ consumed' = consumed /\ rx' = "ok" /\ mode' = mode
      /\ pc' \in {"chunk", "bytes"} /\ (pc' = "chunk" <=> Top.ind)
      /\ ~within' /\ (~Top.ind => bytes' = Top.value)
  BY Walking
<1>2. Top' = Top /\ Popped' = Popped /\ Here' = Here
  BY <1>1 DEF Top, Popped, Here
<1>3. ASSUME NEW s \in Extensions(consumed) PROVE Pending(s)'
  <2>1. Chain(s, Popped, Rest(s, Top, Here))
    BY OnTop
  <2>2. CASE Top.ind
    <3>1. Rest(s, Top, Here) = End(s, Top.type, Here, 0)
      BY <2>2 DEF Rest
    <3>2. pc' = "chunk"
      BY <1>1, <2>2
    <3> QED
      BY <1>2, <2>1, <3>1, <3>2 DEF Pending
  <2>3. CASE ~Top.ind
    <3>1. Rest(s, Top, Here) = BytesEnd(s, Here, Top.value)
      BY <2>3 DEF Rest
    <3>2. pc' = "bytes" /\ StringEnd(s)' = BytesEnd(s, Here, Top.value)
      BY <1>1, <1>2, <2>3 DEF StringEnd
    <3> QED
      BY <1>2, <2>1, <3>1, <3>2 DEF Pending
  <2> QED
    BY <2>2, <2>3
<1> QED
  BY <1>1, <1>2, <1>3 DEF EndInv

(* Nothing follows what the input has given when it fails.                 *)
LEMMA LastBytes ==
  ASSUME NEW s \in Seq(Units), NEW i \in 1 .. Len(s) + 1, NEW n \in Nat,
         Len(s) + 1 <= i + n, NEW goal \in {"binary", "text"}
  PROVE  /\ BytesEnd(s, i, n) \in {Incomplete, Len(s) + 1}
         /\ After(s, BytesEnd(s, i, n), goal, 0) = Incomplete
<1>1. BytesEnd(s, i, n) \in {Incomplete, Len(s) + 1}
  BY DEF BytesEnd
<1>2. After(s, Len(s) + 1, goal, 0) = Incomplete
  <2>1. End(s, goal, Len(s) + 1, 0) = Incomplete
    BY NothingThere DEF Goals
  <2>2. Len(s) + 1 \notin Failures
    BY DEF Failures, Malformed, Incomplete
  <2> QED
    BY <2>1, <2>2 DEF After, Then, End
<1>3. After(s, Incomplete, goal, 0) = Incomplete
  BY DEF After, Then, Failures
<1> QED
  BY <1>1, <1>2, <1>3

LEMMA FrontBytes ==
  ASSUME NEW t \in Seq(Units), NEW u \in Units, NEW m \in Nat
  PROVE  t \o (<<u>> \o Bytes(m)) = Append(t, u) \o Bytes(m)
<1>1. Bytes(m) \in Seq(Units) /\ <<u>> \in Seq(Units)
  BY DEF Bytes, Units
<1>2. Append(t, u) = t \o <<u>>
  OBVIOUS
<1> QED
  BY <1>1, <1>2, ConcatAssociative

(* The input has failed in the middle of a string.                         *)
LEMMA LosesKeeps ==
  ASSUME Inv, EndInv, NEW front, NEW n, InputFails(front, n),
         ItemEnd(consumed') \in {Incomplete, Here'} \/ ItemEnd(consumed') = Incomplete
  PROVE  EndInv'
<1>1. Fail("input") /\ stack' \in Seq(Frames)
  BY DEF InputFails, EndInv
<1>2. "input" \in Errors /\ "input" \notin Refusals /\ Incomplete \in Failures
  BY DEF Errors, Refusals, Failures
<1> QED
  BY <1>1, <1>2, FailKeeps

LEMMA ChunkKeeps == ASSUME Inv, EndInv, Chunk, Whole' PROVE EndInv'
<1> USE DEF Chunk
<1>1. pc = "chunk" /\ pc # "done"
  OBVIOUS
<1>2. CASE InputEnds
  <2>1. End(consumed, Top.type, Here, 0) = Incomplete
    BY <1>1, InString, NothingThere
  <2>2. Chain(consumed, Popped, Incomplete)
    BY <1>1, <2>1, InString DEF EndInv, Pending
  <2>3. ItemEnd(consumed) = Incomplete
    BY <1>1, <2>2, InString, ChainFailure DEF Failures
  <2> QED
    BY <1>2, <2>3, InputEndsKeeps
<1>3. ASSUME NEW h \in Heads, NEW s \in Extensions(Append(consumed, h))
      PROVE  Chain(s, Popped, IF IsBreak(h) THEN Here + 1
                              ELSE IF h.type # Top.type \/ h.ind THEN Malformed
                              ELSE After(s, BytesEnd(s, Here + 1, h.value), Top.type, 0))
  <2>1. Chain(s, Popped, End(s, Top.type, Here, 0))
    BY <1>1, NextHead DEF EndInv, Pending
  <2> QED
    BY <1>1, <2>1, InString, NextHead, ChunksEnd
<1>4. ASSUME NEW h \in Heads, IsBreak(h), PopAtBreak(h) PROVE EndInv'
  <2>1. \A s \in Extensions(Append(consumed, h)) : Chain(s, Popped, Here + 1)
    BY <1>3, <1>4
  <2> QED
    BY <1>1, <1>4, <2>1, InString, PopAtBreakKeeps
<1>5. ASSUME NEW h \in Heads, ~IsBreak(h) /\ (h.type # Top.type \/ h.ind),
             Refuse(h, "invalid_indefinite_subitem")
      PROVE  EndInv'
  <2>1. ASSUME NEW s \in Extensions(Append(consumed, h)) PROVE ItemEnd(s) = Malformed
    <3>1. Chain(s, Popped, Malformed)
      BY <1>3, <1>5
    <3> QED
      BY <1>1, <3>1, InString, NextHead, ChainFailure DEF Failures
  <2> QED
    BY <1>1, <1>5, <2>1, RefuseKeeps DEF Refusals
<1>6. ASSUME NEW h \in Heads, ~IsBreak(h), ~(h.type # Top.type \/ h.ind), Pass(h),
             bytes' = h.value, within' = TRUE, pc' = "bytes",
             UNCHANGED <<mode, stack, rx>>
      PROVE  EndInv'
  <2>2. consumed' = Append(consumed, h)
    BY <1>6 DEF Pass
  <2>3. Here' = Here + 1 /\ Top' = Top /\ Popped' = Popped
    BY <1>1, <1>6, <2>2, InString, ExtendByHead DEF Here, Top, Popped, Units
  <2>4. ASSUME NEW s \in Extensions(Append(consumed, h)) PROVE Pending(s)'
    <3>1. Chain(s, Popped, After(s, BytesEnd(s, Here + 1, h.value), Top.type, 0))
      BY <1>3, <1>6
    <3>2. StringEnd(s)' = After(s, BytesEnd(s, Here + 1, h.value), Top.type, 0)
      BY <1>6, <2>3 DEF StringEnd
    <3> QED
      BY <1>6, <2>3, <3>1, <3>2 DEF Pending
  <2> QED
    BY <1>1, <1>6, <2>2, <2>3, <2>4 DEF EndInv
<1>7. CASE OutputFails
  BY <1>1, <1>7, OutputKeeps DEF OutputFails
<1>8. CASE pc' = "spin" /\ UNCHANGED <<mode, consumed, out, stack, bytes, within, rx>>
  <2>1. Top' = Top /\ Popped' = Popped /\ Here' = Here
    BY <1>8 DEF Top, Popped, Here
  <2>2. \A s \in Extensions(consumed) : Pending(s)'
    BY <1>1, <1>8, <2>1 DEF EndInv, Pending
  <2> QED
    BY <1>1, <1>8, <2>1, <2>2 DEF EndInv
<1>9. ASSUME Pass(Torn) PROVE FALSE
  <2>1. consumed' = Append(consumed, Torn) /\ consumed \in Seq(Units)
    BY <1>1, <1>9, InString DEF Pass
  <2>2. consumed'[Len(consumed) + 1] = Torn /\ Len(consumed) + 1 \in 1 .. Len(consumed')
    BY <2>1
  <2> QED
    BY <2>2 DEF Whole
<1>10. ASSUME NEW h \in Heads, ~IsBreak(h), ~(h.type # Top.type \/ h.ind), ChunkOf(h)
       PROVE  EndInv'
  BY <1>6, <1>8, <1>9, <1>10, ChunkGoes DEF Inv
<1>11. ASSUME NEW h \in Heads, ~IsBreak(h), ~(h.type # Top.type \/ h.ind),
              mode = "copy", InputFails(<<h>>, h.value)
       PROVE  EndInv'
  <2> DEFINE front == Append(consumed, h)
  <2>1. PICK m \in 0 .. h.value : consumed' = consumed \o (<<h>> \o Bytes(m))
    BY <1>11 DEF InputFails
  <2>2. m \in Nat /\ h.value \in Nat /\ h \in Units /\ m <= h.value
    BY HeadType
  <2>3. front \in Seq(Units) /\ Len(front) = Here /\ Here \in Nat \ {0}
    BY <1>1, <2>2, InString
  <2>4. consumed' = front \o Bytes(m)
    BY <1>1, <2>1, <2>2, InString, FrontBytes
  <2> HIDE DEF front
  <2>5. /\ consumed' \in Seq(Units) /\ Len(consumed') = Here + m
        /\ consumed' \in Extensions(front)
    BY <2>2, <2>3, <2>4, ExtendByBytes, Itself
  <2>6. Chain(consumed', Popped, After(consumed', BytesEnd(consumed', Here + 1, h.value), Top.type, 0))
    BY <1>3, <1>11, <2>5 DEF front
  <2>7. After(consumed', BytesEnd(consumed', Here + 1, h.value), Top.type, 0) = Incomplete
    <3>1. Here + 1 \in 1 .. Len(consumed') + 1 /\ Len(consumed') + 1 <= Here + 1 + h.value
      BY <2>2, <2>3, <2>5
    <3> QED
      BY <1>1, <2>2, <2>5, <3>1, InString, LastBytes
  <2>8. ItemEnd(consumed') = Incomplete
    BY <1>1, <2>5, <2>6, <2>7, InString, ChainFailure DEF Failures
  <2> QED
    BY <1>11, <2>8, LosesKeeps
<1>12. ASSUME NEW h \in Heads,
              CASE IsBreak(h) -> PopAtBreak(h)
                [] ~IsBreak(h) /\ (h.type # Top.type \/ h.ind) ->
                     Refuse(h, "invalid_indefinite_subitem")
                [] OTHER ->
                     \/ ChunkOf(h)
                     \/ OutputFails
                     \/ mode = "copy" /\ Amount(h) >= h.encoded_length
                        /\ InputFails(<<h>>, h.value)
       PROVE  EndInv'
  BY <1>4, <1>5, <1>7, <1>10, <1>11, <1>12
<1> QED
  BY <1>2, <1>12, UpcomingType

(* The string ends where the walk is now.                                  *)
LEMMA EndOfStringKeeps ==
  ASSUME Inv, EndInv, pc = "bytes", EndOfString, Here' \in Nat \ {0},
         \A s \in Extensions(consumed') :
           /\ s \in Extensions(consumed)
           /\ BytesEnd(s, Here, bytes) = Here'
  PROVE  EndInv'
<1>1. \A s \in Extensions(consumed') : Chain(s, Popped, StringEnd(s))
  BY DEF EndInv, Pending
<1>2. CASE within
  <2>1. pc' = "chunk" /\ stack' = stack /\ rx' = "ok" /\ mode' = mode
    BY <1>2, InString DEF EndOfString
  <2>2. Top' = Top /\ Popped' = Popped
    BY <2>1 DEF Top, Popped
  <2>3. Here' \notin Failures
    BY DEF Failures, Malformed, Incomplete
  <2>4. ASSUME NEW s \in Extensions(consumed') PROVE Pending(s)'
    <3>1. StringEnd(s) = End(s, Top.type, Here', 0)
      BY <1>2, <2>3 DEF StringEnd, After, Then, End
    <3>2. Chain(s, Popped, End(s, Top.type, Here', 0))
      BY <1>1, <3>1
    <3> QED
      BY <2>1, <2>2, <3>2 DEF Pending
  <2> QED
    BY <2>1, <2>2, <2>4 DEF EndInv
<1>3. CASE ~within
  <2>1. \A s \in Extensions(consumed') : Chain(s, Popped, Here')
    BY <1>1, <1>3 DEF StringEnd
  <2> QED
    BY <1>3, <2>1, InString, ContinueKeeps DEF EndOfString
<1> QED
  BY <1>2, <1>3

(* More bytes are wanted than the input has.                               *)
LEMMA WantsBytes ==
  ASSUME Inv, EndInv, pc = "bytes", bytes > 0, InputEnds
  PROVE  EndInv'
<1>1. BytesEnd(consumed, Here, bytes) = Incomplete
  BY InString DEF BytesEnd
<1>2. StringEnd(consumed) = Incomplete
  BY <1>1 DEF StringEnd, After, Then, Failures
<1>3. Chain(consumed, Popped, Incomplete)
  BY <1>2, InString DEF EndInv, Pending
<1>4. ItemEnd(consumed) = Incomplete
  BY <1>3, InString, ChainFailure DEF Failures
<1> QED
  BY <1>4, InputEndsKeeps

(* n bytes of the string are taken.                                        *)
LEMMA BytesTaken ==
  ASSUME Inv, EndInv, pc = "bytes", NEW n \in 0 .. bytes,
         consumed' = consumed \o Bytes(n)
  PROVE  /\ Here' = Here + n /\ Here' \in Nat \ {0}
         /\ \A s \in Extensions(consumed') :
              /\ s \in Extensions(consumed) /\ Here + n <= Len(s) + 1 /\ Len(s) \in Nat
              /\ BytesEnd(s, Here, bytes) = BytesEnd(s, Here + n, bytes - n)
              /\ n = bytes => BytesEnd(s, Here, bytes) = Here'
<1>1. n \in Nat /\ bytes \in Nat /\ Here \in Nat \ {0} /\ Here = Len(consumed) + 1
      /\ Len(consumed) \in Nat
  BY InString
<1>2. /\ Len(consumed') = Len(consumed) + n
      /\ \A s \in Extensions(consumed') : s \in Extensions(consumed) /\ Len(consumed) + n <= Len(s)
  BY <1>1, InString, ExtendByBytes
<1>3. Here' = Here + n
  BY <1>1, <1>2 DEF Here
<1>4. ASSUME NEW s \in Extensions(consumed')
      PROVE  /\ Here + n <= Len(s) + 1 /\ Len(s) \in Nat
             /\ BytesEnd(s, Here, bytes) = BytesEnd(s, Here + n, bytes - n)
             /\ n = bytes => BytesEnd(s, Here, bytes) = Here'
  <2>1. Len(s) \in Nat /\ Here + n <= Len(s) + 1
    BY <1>1, <1>2 DEF Extensions
  <2>2. (Here + n) + (bytes - n) = Here + bytes
    BY <1>1
  <2>3. BytesEnd(s, Here, bytes) = BytesEnd(s, Here + n, bytes - n)
    BY <2>2 DEF BytesEnd
  <2>4. n = bytes => BytesEnd(s, Here, bytes) = Here'
    BY <1>1, <1>3, <2>1 DEF BytesEnd
  <2> QED
    BY <2>1, <2>3, <2>4
<1>5. Here + n \in Nat \ {0}
  BY <1>1
<1>6. \A s \in Extensions(consumed') : s \in Extensions(consumed)
  BY <1>2
<1> QED
  BY <1>3, <1>4, <1>5, <1>6

LEMMA BytesLost ==
  ASSUME Inv, Nested, EndInv, pc = "bytes", InputFails(<<>>, bytes)
  PROVE  EndInv'
<1> DEFINE s == consumed'
<1>1. PICK m \in 0 .. bytes : s = consumed \o (<<>> \o Bytes(m))
  BY DEF InputFails
<1>2. /\ bytes \in Nat /\ m \in Nat /\ m <= bytes /\ Here \in Nat \ {0}
      /\ consumed \in Seq(Units) /\ Here = Len(consumed) + 1
  BY InString
<1>3. s = consumed \o Bytes(m)
  BY <1>1, <1>2, ConcatEmptySeq, StreamTypes DEF Inv
<1>5. Here' = Len(s) + 1
  BY DEF Here
<1> HIDE DEF s
<1>4. s \in Seq(Units) /\ Len(s) + 1 = Here + m /\ s \in Extensions(consumed)
  <2>1. /\ s \in Seq(Units) /\ Len(s) = Len(consumed) + m
        /\ \A z \in Extensions(s) : z \in Extensions(consumed)
    BY <1>2, <1>3, ExtendByBytes
  <2> QED
    BY <1>2, <2>1, Itself
<1>6. Chain(s, Popped, StringEnd(s))
  BY <1>4 DEF EndInv, Pending
<1>7. StringEnd(s) \in {Incomplete, Len(s) + 1}
  <2>1. Here \in 1 .. Len(s) + 1 /\ Len(s) + 1 <= Here + bytes
    BY <1>2, <1>4
  <2> QED
    BY <1>2, <1>4, <2>1, InString, LastBytes DEF StringEnd
<1>8. /\ Popped \in Seq(Frames)
      /\ \A k \in 1 .. Len(Popped) : Popped[k].type \in {"array", "map"}
  BY InString, NestedBelow DEF EndInv, Open
<1>9. ItemEnd(s) \in {Incomplete, Len(s) + 1}
  BY <1>4, <1>6, <1>7, <1>8, ChainOpen
<1> QED
  BY <1>5, <1>9, LosesKeeps DEF s

LEMMA SkipBytesKeeps == ASSUME Inv, Nested, EndInv, SkipBytes PROVE EndInv'
<1>1. CASE bytes > 0 /\ InputEnds
  BY <1>1, WantsBytes DEF SkipBytes
<1>2. CASE consumed' = consumed \o Bytes(bytes) /\ EndOfString
  <2>1. bytes \in 0 .. bytes /\ pc = "bytes"
    BY InString DEF SkipBytes
  <2> QED
    BY <1>2, <2>1, BytesTaken, EndOfStringKeeps
<1>3. CASE InputFails(<<>>, bytes)
  BY <1>3, BytesLost DEF SkipBytes
<1> QED
  BY <1>1, <1>2, <1>3 DEF SkipBytes

LEMMA CopyBytesKeeps == ASSUME Inv, Nested, EndInv, CopyBytes PROVE EndInv'
<1> USE DEF CopyBytes
<1>1. CASE bytes > 0 /\ InputEnds
  BY <1>1, WantsBytes
<1>2. CASE Fail("output") /\ UNCHANGED <<consumed, out, stack>>
  BY <1>2, OutputKeeps
<1>3. ASSUME NEW n \in 0 .. bytes,
             consumed' = consumed \o Bytes(n),
             IF n = bytes THEN EndOfString
             ELSE bytes' = bytes - n /\ UNCHANGED <<mode, stack, within, pc, rx>>
      PROVE  EndInv'
  <2>1. CASE n = bytes
    BY <1>3, <2>1, BytesTaken, EndOfStringKeeps
  <2>2. CASE n # bytes
    <3>1. bytes' = bytes - n /\ UNCHANGED <<mode, stack, within, pc, rx>>
      BY <1>3, <2>2
    <3>2. Top' = Top /\ Popped' = Popped /\ Here' = Here + n
      BY <1>3, <3>1, BytesTaken DEF Top, Popped
    <3>3. ASSUME NEW s \in Extensions(consumed') PROVE Pending(s)'
      <4>1. /\ s \in Extensions(consumed)
            /\ BytesEnd(s, Here, bytes) = BytesEnd(s, Here + n, bytes - n)
        BY <1>3, BytesTaken
      <4>2. StringEnd(s)' = StringEnd(s)
        BY <3>1, <3>2, <4>1 DEF StringEnd
      <4>3. Chain(s, Popped, StringEnd(s))
        BY <4>1 DEF EndInv, Pending
      <4> QED
        BY <3>1, <3>2, <4>2, <4>3 DEF Pending
    <3> QED
      BY <3>1, <3>2, <3>3 DEF EndInv
  <2> QED
    BY <2>1, <2>2
<1>4. CASE InputFails(<<>>, bytes)
  BY <1>4, BytesLost
<1> QED
  BY <1>1, <1>2, <1>3, <1>4

-----------------------------------------------------------------------------
(* What is taken from the input is added to what has been.                 *)

(* skip_item takes every head as a whole.                                  *)
Grows ==
  \E x \in Seq(Units) :
    /\ consumed' = consumed \o x
    /\ mode = "skip" => \A k \in 1 .. Len(x) : x[k] # Torn

LEMMA GrowsBy ==
  ASSUME Inv, NEW x \in Seq(Units), consumed' = consumed \o x,
         mode = "skip" => \A k \in 1 .. Len(x) : x[k] # Torn
  PROVE  Grows
BY DEF Grows

LEMMA GrowsNot == ASSUME Inv, consumed' = consumed PROVE Grows
<1>1. consumed \in Seq(Units) /\ <<>> \in Seq(Units) /\ Len(<<>>) = 0
  BY DEF Inv, TypeOK
<1>2. consumed' = consumed \o <<>>
  BY <1>1, ConcatEmptySeq
<1>3. \A k \in 1 .. Len(<<>>) : <<>>[k] # Torn
  BY <1>1
<1> QED
  BY <1>1, <1>2, <1>3, GrowsBy

LEMMA GrowsByHead == ASSUME Inv, NEW h \in Heads, consumed' = Append(consumed, h) PROVE Grows
<1>1. consumed \in Seq(Units) /\ <<h>> \in Seq(Units) /\ Len(<<h>>) = 1 /\ <<h>>[1] = h
  BY HeadType DEF Inv, TypeOK
<1>2. consumed' = consumed \o <<h>>
  BY <1>1
<1>3. h # Torn
  BY WalkAssumption DEF Torn, Types
<1>4. \A k \in 1 .. Len(<<h>>) : <<h>>[k] # Torn
  BY <1>1, <1>3
<1> QED
  BY <1>1, <1>2, <1>4, GrowsBy

LEMMA GrowsByBytes == ASSUME Inv, NEW n \in Nat, consumed' = consumed \o Bytes(n) PROVE Grows
<1>1. Bytes(n) \in Seq(Units) /\ \A k \in 1 .. Len(Bytes(n)) : Bytes(n)[k] = Byte
  BY DEF Bytes, Units
<1>2. Byte # Torn
  BY DEF Byte, Torn
<1> QED
  BY <1>1, <1>2, GrowsBy

LEMMA ModeStays ==
  ASSUME Inv, [Next]_vars
  PROVE  mode' = mode
<1> USE DEF Fail, Continue, InputEnds, InputFails, OutputFails, Push, PushHead, PopAtBreak,
            Refuse, EndOfString
<1>1. CASE First
  BY <1>1 DEF First
<1>2. CASE ArrayNext
  BY <1>2 DEF ArrayNext
<1>3. CASE MapNext
  BY <1>3 DEF MapNext
<1>4. CASE Tag
  BY <1>4 DEF Tag
<1>5. CASE Chunk
  <2>1. TypeOK
    BY DEF Inv
  <2>2. ASSUME NEW h \in Heads, ChunkOf(h) PROVE mode' = mode
    BY <2>1, <2>2, ChunkGoes
  <2>3. ASSUME NEW h \in Upcoming PROVE h \in Heads
    BY <2>3, UpcomingType
  <2> QED
    BY <1>5, <2>2, <2>3 DEF Chunk
<1>6. CASE SkipBytes
  BY <1>6 DEF SkipBytes
<1>7. CASE CopyBytes
  BY <1>7 DEF CopyBytes
<1>8. CASE Scalar \/ StrayBreak \/ Complete \/ String \/ UNCHANGED vars
  BY <1>8 DEF Scalar, StrayBreak, Complete, String, vars
<1> QED
  BY <1>1, <1>2, <1>3, <1>4, <1>5, <1>6, <1>7, <1>8 DEF Next

LEMMA NextGrows ==
  ASSUME Inv, [Next]_vars
  PROVE  Grows
<1>2. ASSUME NEW s, NEW h \in Heads, PushHead(s, h) PROVE Grows
  BY <1>2, GrowsNot, GrowsByHead DEF PushHead, Push, OutputFails, Pass
<1>3. ASSUME NEW h \in Heads, PopAtBreak(h) PROVE Grows
  BY <1>3, GrowsByHead DEF PopAtBreak, Pass
<1>4. ASSUME NEW h \in Heads, NEW e, Refuse(h, e) PROVE Grows
  <2>1. consumed' = consumed \/ consumed' = Append(consumed, h)
    BY <1>4 DEF Refuse
  <2> QED
    BY <2>1, GrowsNot, GrowsByHead
<1>5. CASE consumed' = consumed
  BY <1>5, GrowsNot
<1>6. CASE First
  BY <1>2, <1>5, <1>6, UpcomingType DEF First, InputEnds
<1>7. CASE ArrayNext
  BY <1>2, <1>3, <1>5, <1>7, UpcomingType DEF ArrayNext, InputEnds
<1>8. CASE MapNext
  BY <1>2, <1>3, <1>4, <1>5, <1>8, UpcomingType DEF MapNext, InputEnds
<1>9. CASE Tag
  <2>1. ASSUME NEW h \in Heads, Pass(h) PROVE Grows
    BY <2>1, GrowsByHead DEF Pass
  <2> QED
    BY <1>5, <1>9, <2>1, UpcomingType DEF Tag, InputEnds, OutputFails
<1>10. CASE Chunk
  <2>1. ASSUME NEW h \in Heads, ChunkOf(h) PROVE Grows
    <3>1. CASE Pass(h)
      BY <3>1, GrowsByHead DEF Pass
    <3>2. CASE mode = "copy" /\ Pass(Torn)
      <4>1. <<Torn>> \in Seq(Units) /\ consumed' = consumed \o <<Torn>>
        BY <3>2 DEF Pass, Units, Inv, TypeOK
      <4> QED
        BY <3>2, <4>1, GrowsBy
    <3>3. TypeOK
      BY DEF Inv
    <3> QED
      BY <1>5, <2>1, <3>1, <3>2, <3>3, ChunkGoes
  <2>2. ASSUME NEW h \in Heads, mode = "copy", InputFails(<<h>>, h.value) PROVE Grows
    <3>1. PICK m \in 0 .. h.value : consumed' = consumed \o (<<h>> \o Bytes(m))
      BY <2>2 DEF InputFails
    <3>2. m \in Nat /\ <<h>> \in Seq(Units)
      BY HeadType
    <3>3. <<h>> \o Bytes(m) \in Seq(Units)
      BY <3>2, StreamTypes, ConcatProperties DEF Inv
    <3> QED
      BY <2>2, <3>1, <3>3, GrowsBy
  <2> QED
    BY <1>3, <1>4, <1>5, <1>10, <2>1, <2>2, UpcomingType DEF Chunk, InputEnds, OutputFails
<1>11. ASSUME pc = "bytes", InputFails(<<>>, bytes) PROVE Grows
  <2>1. PICK m \in 0 .. bytes : consumed' = consumed \o (<<>> \o Bytes(m))
    BY <1>11 DEF InputFails
  <2>2. m \in Nat
    BY DEF Inv, TypeOK
  <2>3. consumed' = consumed \o Bytes(m)
    BY <2>1, <2>2, ConcatEmptySeq, StreamTypes DEF Inv
  <2> QED
    BY <2>2, <2>3, GrowsByBytes
<1>12. CASE SkipBytes
  <2>1. bytes \in Nat
    BY DEF Inv, TypeOK
  <2> QED
    BY <1>5, <1>11, <1>12, <2>1, GrowsByBytes DEF SkipBytes, InputEnds
<1>13. CASE CopyBytes
  <2>1. ASSUME NEW n \in 0 .. bytes, consumed' = consumed \o Bytes(n) PROVE Grows
    <3>1. n \in Nat
      BY DEF Inv, TypeOK
    <3> QED
      BY <2>1, <3>1, GrowsByBytes
  <2> QED
    BY <1>5, <1>11, <1>13, <2>1 DEF CopyBytes, InputEnds
<1>14. CASE Scalar \/ StrayBreak \/ Complete \/ String \/ UNCHANGED vars
  BY <1>5, <1>14 DEF Scalar, StrayBreak, Complete, String, vars
<1> QED
  BY <1>6, <1>7, <1>8, <1>9, <1>10, <1>12, <1>13, <1>14 DEF Next

LEMMA WholeGoes ==
  ASSUME Inv, [Next]_vars
  PROVE  (Whole' => Whole) /\ (mode = "skip" /\ Whole => Whole')
<1>1. PICK x \in Seq(Units) :
        /\ consumed' = consumed \o x
        /\ mode = "skip" => \A k \in 1 .. Len(x) : x[k] # Torn
  BY NextGrows DEF Grows
<1>2. consumed \in Seq(Units) /\ Len(consumed) \in Nat /\ Len(x) \in Nat
  BY DEF Inv, TypeOK
<1>3. /\ Len(consumed') = Len(consumed) + Len(x)
      /\ \A k \in 1 .. Len(consumed') :
           consumed'[k] = IF k <= Len(consumed) THEN consumed[k] ELSE x[k - Len(consumed)]
  BY <1>1, <1>2, ConcatProperties
<1>4. ASSUME Whole' PROVE Whole
  <2>1. ASSUME NEW k \in 1 .. Len(consumed) PROVE consumed[k] # Torn
    <3>1. k \in 1 .. Len(consumed') /\ k <= Len(consumed)
      BY <1>2, <1>3
    <3> QED
      BY <1>3, <1>4, <3>1 DEF Whole
  <2> QED
    BY <2>1 DEF Whole
<1>5. ASSUME mode = "skip", Whole PROVE Whole'
  <2>1. ASSUME NEW k \in 1 .. Len(consumed') PROVE consumed'[k] # Torn
    <3>1. CASE k <= Len(consumed)
      <4>1. k \in 1 .. Len(consumed)
        BY <1>2, <3>1
      <4> QED
        BY <1>3, <1>5, <3>1, <4>1 DEF Whole
    <3>2. CASE ~(k <= Len(consumed))
      <4>1. k - Len(consumed) \in 1 .. Len(x)
        BY <1>2, <1>3, <3>2
      <4> QED
        BY <1>1, <1>3, <1>5, <3>2, <4>1
    <3> QED
      BY <3>1, <3>2
  <2> QED
    BY <2>1 DEF Whole
<1> QED
  BY <1>4, <1>5

-----------------------------------------------------------------------------
(* The specification                                                       *)

LEMMA InitEndInv == Init => EndInv
<1> SUFFICES ASSUME Init PROVE EndInv
  OBVIOUS
<1>1. <<>> \in Seq(Frames)
  OBVIOUS
<1> QED
  BY <1>1 DEF Init, EndInv, Pending

LEMMA NextEndInv ==
  ASSUME Inv, Nested, EndInv, [Next]_vars, Whole'
  PROVE  EndInv'
<1>1. CASE First
  BY <1>1, FirstKeeps
<1>2. CASE Scalar
  BY <1>2, ScalarKeeps
<1>3. CASE StrayBreak
  BY <1>3, StrayBreakKeeps
<1>4. CASE Complete
  BY <1>4, CompleteKeeps
<1>5. CASE ArrayNext
  BY <1>5, ArrayNextKeeps
<1>6. CASE MapNext
  BY <1>6, MapNextKeeps
<1>7. CASE Tag
  BY <1>7, TagKeeps
<1>8. CASE String
  BY <1>8, StringKeeps
<1>9. CASE Chunk
  BY <1>9, ChunkKeeps
<1>10. CASE SkipBytes
  BY <1>10, SkipBytesKeeps
<1>11. CASE CopyBytes
  BY <1>11, CopyBytesKeeps
<1>12. CASE UNCHANGED vars
  BY <1>12 DEF EndInv, Pending, StringEnd, Here, Top, Popped, vars
<1> QED
  BY <1>1, <1>2, <1>3, <1>4, <1>5, <1>6, <1>7, <1>8, <1>9, <1>10, <1>11, <1>12 DEF Next

(* As long as no head is torn; skip_item never tears one.                  *)
WalkInv == Inv /\ Nested /\ (Whole => EndInv) /\ (mode = "skip" => Whole)

LEMMA WalkInvariance == Spec => []WalkInv
<1>1. Init => WalkInv
  <2> SUFFICES ASSUME Init PROVE WalkInv
    OBVIOUS
  <2>1. Nested /\ Whole
    BY DEF Init, Nested, Whole
  <2> QED
    BY <2>1, InitInv, InitEndInv DEF WalkInv
<1>2. WalkInv /\ [Next]_vars => WalkInv'
  <2> SUFFICES ASSUME WalkInv, [Next]_vars PROVE WalkInv'
    OBVIOUS
  <2>1. Inv' /\ Nested'
    BY NextInv, NestedInv DEF WalkInv
  <2>2. Whole' => EndInv'
    BY NextEndInv, WholeGoes DEF WalkInv
  <2>3. mode' = "skip" => Whole'
    BY ModeStays, WholeGoes DEF WalkInv
  <2> QED
    BY <2>1, <2>2, <2>3 DEF WalkInv
<1> QED
  BY <1>1, <1>2, PTL DEF Spec

(* skip_item and copy_item_to succeed at the end of a well formed item and *)
(* nowhere else, and never take a unit behind it, for items of any size    *)
(* and nesting and heads of any value; the reference definition has no     *)
(* stack (skip_item.cpp, copy_item.cpp).  The only exception is a copy for *)
(* which the amount of a chunk has wrapped, so that it took a part of the  *)
(* head (copy_item.cpp:105-106).                                           *)
THEOREM EndsExactly == Spec => [](Whole => EndsAtItemEnd)
<1>1. Inv /\ EndInv => EndsAtItemEnd
  <2> SUFFICES ASSUME Inv, EndInv PROVE EndsAtItemEnd
    OBVIOUS
  <2>1. consumed \in Extensions(consumed)
    BY Itself DEF Inv, TypeOK
  <2>2. CASE pc = "done" /\ rx = "ok"
    BY <2>1, <2>2 DEF EndInv, Pending, EndsAtItemEnd, Here
  <2>3. CASE pc = "done" /\ rx # "ok"
    BY <2>3 DEF EndInv, EndsAtItemEnd, Here
  <2>4. CASE pc # "done"
    BY <2>4, AtEnd DEF EndsAtItemEnd, Here
  <2> QED
    BY <2>2, <2>3, <2>4
<1>2. WalkInv => (Whole => EndsAtItemEnd)
  BY <1>1 DEF WalkInv
<1> QED
  BY <1>2, WalkInvariance, PTL

(* skip_item ends exactly at the end of a well formed item, whatever the   *)
(* input is: it computes no amount that could wrap (skip_item.cpp:55).     *)
THEOREM SkipsExactly == Spec => [](mode = "skip" => EndsAtItemEnd)
<1>1. WalkInv => (mode = "skip" => Whole)
  BY DEF WalkInv
<1> QED
  BY <1>1, WalkInvariance, EndsExactly, PTL

(* skip_item refuses an item only if it is malformed, and says that the    *)
(* stream ended only within an item; when the stream has failed, what was  *)
(* taken is not malformed either.                                          *)
THEOREM RefusesRightly == Spec => []RefusesOnlyMalformed
<1>1. Inv /\ EndInv => RefusesOnlyMalformed
  <2> SUFFICES ASSUME Inv, EndInv PROVE RefusesOnlyMalformed
    OBVIOUS
  <2>1. consumed \in Extensions(consumed)
    BY Itself DEF Inv, TypeOK
  <2> QED
    BY <2>1 DEF EndInv, Pending, RefusesOnlyMalformed, Refusals, Here
<1>2. WalkInv => RefusesOnlyMalformed
  BY <1>1 DEF WalkInv, RefusesOnlyMalformed
<1> QED
  BY <1>2, WalkInvariance, PTL

(* What the walks decide does not depend on what follows in the input: an  *)
(* item that has been skipped or copied ends there in every continuation,  *)
(* one that skip_item has refused is malformed in all of them.             *)
Decided ==
  \A s \in Extensions(consumed) :
    /\ pc = "done" /\ rx = "ok" => ItemEnd(s) = Len(consumed) + 1
    /\ pc = "done" /\ mode = "skip" /\ rx \in Refusals => ItemEnd(s) = Malformed

(* The walks need not look ahead, unless a copy has torn a head: what it   *)
(* decides then depends on what is left of that.                           *)
THEOREM DecidesByPrefix == Spec => [](Whole => Decided)
<1>1. Inv /\ EndInv => Decided
  BY DEF EndInv, Pending, Decided, Here
<1>2. WalkInv => (Whole => Decided)
  BY <1>1 DEF WalkInv
<1> QED
  BY <1>2, WalkInvariance, PTL
=============================================================================
