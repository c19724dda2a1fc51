------------------------------ MODULE ItemHeads ------------------------------
(***************************************************************************)
(* The head of an item: an initial byte with the type in its upper three   *)
(* bits and, in the lower five, the value itself or how many bytes it      *)
(* takes.  What emit_core.hpp writes, what item_size.hpp says its length   *)
(* is and what parse_core.hpp makes of the bytes.                          *)
(*                                                                         *)
(* A byte is a number below 256.  Values are 64 bits wide in the code, and *)
(* the numbers of the model stop at 2^31 - 1: Huge stands for 2^64 - 1,    *)
(* and no value strictly between Huge and that is used.                    *)
(***************************************************************************)
EXTENDS Integers, SequencesExt

Bytes == 0 .. 255
Huge == 2147483647        \* 2^64 - 1
InlineMax == 23           \* inline_value_max
IndefiniteInfo == 31      \* indefinite_add_info
VarUintMax == 9           \* var_uint_max_size

(* type_code: the major types, in the order of their three bits            *)
MajorTypes ==
  <<"posint", "negint", "binary", "text", "array", "map", "tag", "special">>

Code(type) == 32 * ((CHOOSE n \in DOMAIN MajorTypes : MajorTypes[n] = type) - 1)

False == 244
True == 245
Null == 246
FloatSingle == 250
FloatDouble == 251
Break == 255

-----------------------------------------------------------------------------
(* Bits and bytes                                                          *)

LastSetBit[n \in Nat] == IF n < 2 THEN 0 ELSE 1 + LastSetBit[n \div 2]

FindLastSetBit(v) == IF v = Huge THEN 63 ELSE LastSetBit[v]

(* store(): v in n bytes, the most significant first                       *)
Store(v, n) ==
  [k \in 1 .. n |->
     IF v = Huge THEN 255 ELSE IF n - k > 3 THEN 0 ELSE (v \div 256^(n - k)) % 256]

(* load(): the number the bytes stand for                                  *)
Load(bytes) ==
  IF bytes = Store(Huge, 8) THEN Huge
  ELSE LET number[k \in 0 .. Len(bytes)] ==
             IF k = 0 THEN 0 ELSE 256 * number[k - 1] + bytes[k]
       IN  number[Len(bytes)]

-----------------------------------------------------------------------------
(* The length of a head                                                    *)

(* Mutant of EncodedSize: the largest inline value is not taken for one.   *)
EncodedSizeStrict(v) ==
  IF v < InlineMax THEN 1 ELSE 1 + 2^(FindLastSetBit(FindLastSetBit(v)) - 2)

(* var_uint_encoded_size_ct, by the index of the last set bit              *)
EncodedSize(v) ==
  IF v <= InlineMax THEN 1 ELSE 1 + 2^(FindLastSetBit(FindLastSetBit(v)) - 2)

(* var_uint_encoded_size_branching, used in constant evaluation            *)
EncodedSizeBranching(v) ==
  IF v <= InlineMax THEN 1 ELSE IF v <= 255 THEN 2 ELSE IF v <= 65535 THEN 3
  ELSE IF v < Huge THEN 5 ELSE 9

-----------------------------------------------------------------------------
(* store_var_uint: the bytes of a head, and what it stores when there is   *)
(* room for 1 + width bytes: the value is shifted to the front of a word   *)
(* of that width, what follows the head in it is overwritten later.        *)

BytePowerPlus2(v) == FindLastSetBit(FindLastSetBit(v))

HeadBytes(type, v) ==
  IF v <= InlineMax THEN <<Code(type) + v>>
  ELSE <<Code(type) + InlineMax + BytePowerPlus2(v) - 1>>
         \o Store(v, 2^(BytePowerPlus2(v) - 2))

HeadWord(type, v, width) ==
  LET bytes == HeadBytes(type, v) IN
  [k \in 1 .. 1 + width |->
     IF k <= Len(bytes) THEN bytes[k]
     ELSE IF k = 2 /\ v <= InlineMax THEN 128 * (v % 2)   \* shifted by the 31 or 63 bits
     ELSE 0]

-----------------------------------------------------------------------------
(* do_parse_item_head: what an initial byte announces                      *)

TypeOf(byte) == MajorTypes[byte \div 32 + 1]
InfoOf(byte) == byte % 32

(* Mutant of WellFormedInfo: reserved infos are taken for indefinite ones. *)
WellFormedInfoAny(byte) ==
  InfoOf(byte) <= 27 \/ TypeOf(byte) \notin {"posint", "negint", "tag"}

WellFormedInfo(byte) ==
  \/ InfoOf(byte) <= 27
  \/ InfoOf(byte) = IndefiniteInfo /\ TypeOf(byte) \notin {"posint", "negint", "tag"}

(* encoded_length                                                          *)
LengthOf(byte) == IF InfoOf(byte) \in 24 .. 27 THEN 1 + 2^(InfoOf(byte) - 24) ELSE 1

(* The value, when at least nine bytes are buffered: eight are loaded and  *)
(* those that do not belong to the head shifted out.                       *)
FastValue(nine) ==
  LET shift == (56 * 2^(InfoOf(nine[1]) - 24)) % 64 IN
  IF LengthOf(nine[1]) = 1 THEN InfoOf(nine[1])
  ELSE Load(SubSeq(nine, 2, 9 - shift \div 8))

(* The value, from no more than encoded_length buffered bytes              *)
SlowValue(bytes) ==
  IF Len(bytes) = 1 THEN InfoOf(bytes[1]) ELSE Load(SubSeq(bytes, 2, Len(bytes)))

(* A special value below 32 has to be inline.                              *)
Forbidden(byte, value) ==
  TypeOf(byte) = "special" /\ LengthOf(byte) = 2 /\ value < 32

(* item_head                                                               *)
ItemHead(byte, value) ==
  [type |-> TypeOf(byte), ind |-> InfoOf(byte) = IndefiniteInfo,
   length |-> LengthOf(byte), value |-> value]
=============================================================================
