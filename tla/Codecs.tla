------------------------------- MODULE Codecs -------------------------------
(***************************************************************************)
(* codec<T> of scalars, strings, containers and tuples: size_of and encode *)
(* by the structure of the type.  A type is a record of its kind, a number *)
(* (of bytes or of elements), a flag and its components.                   *)
(*                                                                         *)
(* encode is the sequence of calls it makes on the output stream.  size_of *)
(* and encode descend into the components of a value; they are functions   *)
(* on the values that may be encoded, for which the descent ends.          *)
(***************************************************************************)
EXTENDS ItemHeads, MemoryStreams, FiniteSets, TLC

CONSTANT
  Nesting  \* for each value that may be encoded, how deep its components nest

(* A value with its type: [type, value]                                    *)
Encodable == DOMAIN Nesting

Type(kind, n, flag, of) == [kind |-> kind, n |-> n, flag |-> flag, of |-> of]

(* The scalar codecs; an enum is its underlying integer, a duration its    *)
(* count.  Integers of 1, 2, 4 or 8 bytes; a floating point value is       *)
(* <<bytes, bits>>, the number that bits stand for in a format that wide.  *)
NullType == Type("null", 0, FALSE, <<>>)
Bool == Type("bool", 0, FALSE, <<>>)
Integer(bytes, signed) == Type("int", bytes, signed, <<>>)
Enum(bytes, signed) == Type("enum", bytes, signed, <<>>)
Duration(bytes) == Type("duration", bytes, TRUE, <<>>)
Float(bytes) == Type("float", bytes, FALSE, <<>>)

(* Strings of bytes or of code units; a fixed one has n of them, or up to  *)
(* n (fixed_u8string).                                                     *)
Blob == Type("blob", 0, FALSE, <<>>)
FixedBlob(n) == Type("fixedblob", n, FALSE, <<>>)
Uuid(n) == Type("uuid", n, FALSE, <<>>)
Text == Type("text", 0, FALSE, <<>>)
Path == Type("path", 0, FALSE, <<>>)
FixedText(n) == Type("fixedtext", n, FALSE, <<>>)

(* Containers; indefinite: enable_indefinite_encoding                      *)
Vector(of, indefinite) == Type("vector", 0, indefinite, <<of>>)
KeySet(of) == Type("set", 0, FALSE, <<of>>)
Map(key, mapped, indefinite) == Type("map", 0, indefinite, <<key, mapped>>)
Array(n, of) == Type("array", n, FALSE, <<of>>)
Tuple(of) == Type("tuple", Len(of), FALSE, of)

IntegerKinds == {"int", "enum", "duration"}
StringKinds == {"blob", "fixedblob", "uuid", "text", "path", "fixedtext"}
ContainerKinds == {"vector", "set", "map", "array", "tuple"}

(* What a negative integer is encoded as: its complement                   *)
Complement(v) == IF v < 0 THEN -1 - v ELSE v

(* numeric_limits<T>::max(), without the values that are not used          *)
LimitOf(bytes, signed) ==
  CASE bytes = 1 -> IF signed THEN 127 ELSE 255
    [] bytes = 2 -> IF signed THEN 32767 ELSE 65535
    [] bytes = 4 -> Huge - 1
    [] bytes = 8 -> IF signed THEN Huge - 1 ELSE Huge

(* The components of a container's value in the order of its iteration,    *)
(* a pair after the other for a map                                        *)
Parts(x) ==
  LET t == x.type  v == x.value
      Part(of, w) == [type |-> of, value |-> w] IN
  CASE t.kind \in {"vector", "array"} -> [k \in DOMAIN v |-> Part(t.of[1], v[k])]
    [] t.kind = "tuple" -> [k \in DOMAIN v |-> Part(t.of[k], v[k])]
    [] t.kind = "set" -> LET ks == SetToSeq(v) IN [k \in DOMAIN ks |-> Part(t.of[1], ks[k])]
    [] t.kind = "map" ->
         LET ks == SetToSeq(DOMAIN v) IN
         [k \in 1 .. 2 * Len(ks) |-> LET key == ks[(k + 1) \div 2] IN
                                     IF k % 2 = 1 THEN Part(t.of[1], key)
                                                  ELSE Part(t.of[2], v[key])]

NumElements(x) ==
  IF x.type.kind = "map" THEN Cardinality(DOMAIN x.value) ELSE Len(Parts(x))

IsFunction(v) == v = [k \in DOMAIN v |-> v[k]]

(* What the C++ type says of a value: an integer is within its limits,     *)
(* what is of a fixed size has it, a container is finite, and sizes are    *)
(* numbers of 64 bits.                                                     *)
HasType(x) ==
  LET t == x.type  v == x.value IN
  \/ /\ t.kind \in IntegerKinds /\ t.n \in {1, 2, 4, 8} /\ t.flag \in BOOLEAN
     /\ v \in Int /\ Complement(v) <= LimitOf(t.n, t.flag) /\ (v < 0 => t.flag)
  \/ t.kind = "null"
  \/ t.kind = "bool" /\ v \in BOOLEAN
  \/ /\ t.kind = "float" /\ t.n \in {4, 8} /\ v = <<t.n, v[2]>>
     /\ v[2] \in Nat /\ v[2] <= Huge /\ (v[2] = Huge => t.n = 8)
  \/ /\ t.kind \in StringKinds /\ v \in Seq(Bytes) /\ Len(v) <= Huge
     /\ t.kind \in {"fixedblob", "uuid"} => Len(v) = t.n
     /\ t.kind = "fixedtext" => Len(v) <= t.n
  \/ /\ t.kind \in ContainerKinds /\ t.flag \in BOOLEAN
     /\ Parts(x) \in Seq(Encodable) /\ NumElements(x) \in 0 .. Huge
     /\ t.kind \in {"vector", "map", "array", "tuple"} => IsFunction(v)
     /\ t.kind \in {"array", "tuple"} => DOMAIN v = 1 .. t.n
     /\ t.kind = "set" => IsFiniteSet(v)
     /\ t.kind = "map" => IsFiniteSet(DOMAIN v)

(* A value has its components, and they nest less deep than itself.        *)
ASSUME NestingAssumption ==
  /\ Nesting \in [Encodable -> Nat]
  /\ \A x \in Encodable :
       /\ HasType(x)
       /\ x.type.kind \in ContainerKinds =>
            \A k \in DOMAIN Parts(x) : Nesting[Parts(x)[k]] < Nesting[x]

-----------------------------------------------------------------------------
(* size_of                                                                 *)

(* Strings of every kind                                                   *)
SizeOfString(n) == EncodedSize(n) + n

(* The size of the parts together                                          *)
Total(sizes) ==
  LET sum[k \in 0 .. Len(sizes)] == IF k = 0 THEN 0 ELSE sum[k - 1] + sizes[k]
  IN  sum[Len(sizes)]

(* codec<T>::size_of, with the sizes of the components from `sizes'        *)
SizeWith(x, sizes) ==
  LET t == x.type  v == x.value IN
  CASE t.kind \in IntegerKinds -> EncodedSize(Complement(v))
    [] t.kind \in {"null", "bool"} -> 1
    [] t.kind = "float" -> 1 + t.n
    [] t.kind \in StringKinds -> SizeOfString(Len(v))
    [] t.kind \in ContainerKinds ->
         (IF t.flag THEN 1 + 1 ELSE EncodedSize(NumElements(x)))
           + Total([k \in DOMAIN Parts(x) |-> sizes[Parts(x)[k]]])

SizeOf[x \in Encodable] == SizeWith(x, SizeOf)

-----------------------------------------------------------------------------
(* encode                                                                  *)

(* A call on the stream: what it writes, and with arg either the bytes or  *)
(* the width in bytes of the value's type                                  *)
Call(name, type, value, arg) == [name |-> name, type |-> type, value |-> value, arg |-> arg]

(* A head: its value is a std::uint32_t or a std::uint64_t (encoder_uint_t)*)
VarUint(type, value, width) == <<Call("varuint", type, value, width)>>

Inline(byte) == <<Call("inline", "special", 0, <<byte>>)>>

(* Mutant of EmitInteger: negative integers are not complemented.          *)
EmitIntegerMagnitude(t, v) ==
  VarUint(IF v < 0 THEN "negint" ELSE "posint", IF v < 0 THEN -v ELSE v,
          IF t.n <= 4 THEN 4 ELSE 8)

EmitInteger(t, v) ==
  VarUint(IF v < 0 THEN "negint" ELSE "posint", Complement(v), IF t.n <= 4 THEN 4 ELSE 8)

(* emit_float_single, emit_float_double                                    *)
EmitFloat(t, v) ==
  <<Call("float", "special", 0,
         <<IF t.n = 4 THEN FloatSingle ELSE FloatDouble>> \o Store(v[2], t.n))>>

(* emit_binary and emit_u8string; a path makes a string of its own first.  *)
StringType(t) == IF t.kind \in {"blob", "fixedblob", "uuid"} THEN "binary" ELSE "text"

EmitString(t, v) ==
  (IF t.kind = "path" THEN <<Call("allocate", "text", 0, <<>>)>> ELSE <<>>)
    \o VarUint(StringType(t), Len(v), 8) \o <<Call("bulk", StringType(t), 0, v)>>

(* The head and the end of an array or a map of n elements (emit_array_    *)
(* like, emit_indefinite_array_like)                                       *)
EmitBegin(t, n) ==
  LET type == IF t.kind = "map" THEN "map" ELSE "array" IN
  IF t.flag THEN Inline(Code(type) + IndefiniteInfo) ELSE VarUint(type, n, 8)

EmitEnd(t) == IF t.flag THEN Inline(Break) ELSE <<>>

(* codec<T>::encode, with the calls for the components from `calls'        *)
EmitWith(x, calls) ==
  LET t == x.type  v == x.value IN
  CASE t.kind \in IntegerKinds -> EmitInteger(t, v)
    [] t.kind = "null" -> Inline(Null)
    [] t.kind = "bool" -> Inline(IF v THEN True ELSE False)
    [] t.kind = "float" -> EmitFloat(t, v)
    [] t.kind \in StringKinds -> EmitString(t, v)
    [] t.kind \in ContainerKinds ->
         EmitBegin(t, NumElements(x))
           \o FlattenSeq([k \in DOMAIN Parts(x) |-> calls[Parts(x)[k]]])
           \o EmitEnd(t)

Emit[x \in Encodable] == EmitWith(x, Emit)

(* The bytes of a call, and of all calls                                   *)
CallBytes(call) ==
  IF call.name = "varuint" THEN HeadBytes(call.type, call.value) ELSE call.arg

BytesOf(calls) == FlattenSeq([k \in DOMAIN calls |-> CallBytes(calls[k])])

Encoding(x) == BytesOf(Emit[x])

-----------------------------------------------------------------------------
(* The calls performed on a stream: the set of [out, rx] they may lead to  *)

(* Once ensure_size() has made room, the bytes are stored.                 *)
EnsureAndPut(out, bytes) ==
  UNION {IF r.rx = "ok" THEN Put(r.out, bytes, Len(bytes)) ELSE {r}
           : r \in EnsureSize(out, Len(bytes))}

(* Mutant of StoreVarUint: the fast path looks at the head's length only.  *)
StoreVarUintTight(out, type, v, width) ==
  LET bytes == HeadBytes(type, v) IN
  IF out.room < Len(bytes) THEN EnsureAndPut(out, bytes)
  ELSE Put(out, HeadWord(type, v, width), Len(bytes))

(* store_var_uint; a whole word is stored if the window has room for it    *)
(* (else store_var_uint_eos), only the head's bytes are committed.         *)
StoreVarUint(out, type, v, width) ==
  LET bytes == HeadBytes(type, v) IN
  IF out.room < 1 + width THEN EnsureAndPut(out, bytes)
  ELSE Put(out, HeadWord(type, v, width), Len(bytes))

Perform(out, call) ==
  CASE call.name = "varuint" -> StoreVarUint(out, call.type, call.value, call.arg)
    [] call.name \in {"inline", "float"} -> EnsureAndPut(out, call.arg)
    [] call.name = "bulk" -> BulkWrite(out, call.arg)
    [] call.name = "allocate" -> Wrote(out, "ok") \union Wrote(out, "not_enough_memory")

(* The calls one after the other, until one of them fails                  *)
PerformAll(out, calls) ==
  LET after[k \in 0 .. Len(calls)] ==
        IF k = 0 THEN Wrote(out, "ok")
        ELSE UNION {IF r.rx = "ok" THEN Perform(r.out, calls[k]) ELSE {r} : r \in after[k - 1]}
  IN  after[Len(calls)]

(* Mutant of EncodeTo: the stream is synced whatever happened.             *)
EncodeToAlways(out, x) ==
  {[r EXCEPT !.out = SyncOutput(@)] : r \in PerformAll(OpenOutput(out), Emit[x])}

(* encode(stream, value): a failure returns before the stream is synced.   *)
EncodeTo(out, x) ==
  {IF r.rx = "ok" THEN [r EXCEPT !.out = SyncOutput(@)] ELSE r
     : r \in PerformAll(OpenOutput(out), Emit[x])}
=============================================================================
