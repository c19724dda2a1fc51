------------------------------ MODULE Decoding ------------------------------
(***************************************************************************)
(* The decoding half of the codecs: the parsers of parse_core.hpp and      *)
(* parse_ranges.hpp, and codec<T>::decode built from them.  Each yields    *)
(* the set of its outcomes: the input afterwards, the error, and what the  *)
(* destination holds.                                                      *)
(***************************************************************************)
EXTENDS Codecs

CONSTANTS
  Level,        \* for each type that may be decoded, how deep its components nest
  Destinations  \* the objects that may be decoded into: [type, value]

Types == DOMAIN Level

Object(t, v) == [type |-> t, value |-> v]

(* T{}; a fixed_u8string is the number of its code units and all of them   *)
Default[t \in Types] ==
  CASE t.kind \in IntegerKinds -> 0
    [] t.kind = "bool" -> FALSE
    [] t.kind = "float" -> <<t.n, 0>>
    [] t.kind \in {"fixedblob", "uuid"} -> [k \in 1 .. t.n |-> 0]
    [] t.kind = "fixedtext" -> [size |-> 0, units |-> [k \in 1 .. t.n |-> 0]]
    [] t.kind = "set" -> {}
    [] t.kind = "array" -> [k \in 1 .. t.n |-> Default[t.of[1]]]
    [] t.kind = "tuple" -> [k \in 1 .. t.n |-> Default[t.of[k]]]
    [] OTHER -> <<>>

(* The value a caller reads from an object: its string_view, where it is a *)
(* fixed_u8string, the value itself of every other type                    *)
Shown(t, v) == IF t.kind = "fixedtext" THEN SubSeq(v.units, 1, v.size) ELSE v

(* What the elements of a container are decoded into: an object that is    *)
(* emplaced or declared for it, or the one that is there.                  *)
Fresh(t) == Object(t, Default[t])

Member(d, k) == Object(IF d.type.kind = "tuple" THEN d.type.of[k] ELSE d.type.of[1], d.value[k])

IsType(t) ==
  \/ t.kind \in IntegerKinds /\ t.n \in {1, 2, 4, 8} /\ t.flag \in BOOLEAN
  \/ t.kind \in {"bool", "blob", "text", "path"}
  \/ t.kind = "float" /\ t.n \in {4, 8}
  \/ t.kind \in {"fixedblob", "uuid", "fixedtext"} /\ t.n \in Nat
  \/ t.kind = "vector" /\ DOMAIN t.of = {1}
  \/ t.kind = "set" /\ DOMAIN t.of = {1} /\ ~t.flag
  \/ t.kind = "map" /\ DOMAIN t.of = {1, 2}
  \/ t.kind = "array" /\ t.n \in Nat /\ DOMAIN t.of = {1} /\ ~t.flag
  \/ t.kind = "tuple" /\ t.n \in Nat /\ DOMAIN t.of = 1 .. t.n /\ ~t.flag

(* A type has its components, and they nest less deep than itself.  No     *)
(* container is modelled of fixed_u8strings, whose code units behind the   *)
(* string would be part of its elements.                                   *)
ASSUME LevelAssumption ==
  /\ Level \in [Types -> Nat]
  /\ \A t \in Types :
       /\ IsType(t)
       /\ t.kind \in ContainerKinds =>
            \A k \in DOMAIN t.of :
              t.of[k] \in Types /\ t.of[k].kind # "fixedtext" /\ Level[t.of[k]] < Level[t]

(* An object of a fixed size has it, and where an object may be decoded    *)
(* into, so may what its components are decoded into.                      *)
ASSUME DestinationAssumption ==
  \A d \in Destinations :
    /\ d.type \in Types
    /\ d.type.kind \in {"fixedblob", "array", "tuple"} =>
         d.value = [k \in 1 .. d.type.n |-> d.value[k]]
    /\ d.type.kind = "fixedtext" =>
         d.value.units = [k \in 1 .. d.type.n |-> d.value.units[k]]
    /\ d.type.kind \in {"array", "tuple"} => \A k \in 1 .. d.type.n : Member(d, k) \in Destinations
    /\ d.type.kind \in {"vector", "set", "map"} =>
         \A k \in DOMAIN d.type.of : Fresh(d.type.of[k]) \in Destinations

(* The inputs: only a supplier shows less than there is, and a legacy      *)
(* buffer is a window at the end of its bytes.                             *)
Inputs ==
  {in \in [kind : {"memory", "stream", "legacy"}, bytes : Seq(Bytes), at : Nat, window : Nat,
           asked : Nat, buf : [begin : Nat, size : Nat, alloc : Nat]] :
     /\ in.at + in.window <= Len(in.bytes)
     /\ in.kind # "stream" => in.at + in.window = Len(in.bytes)
     /\ in.buf.begin + in.buf.size = in.buf.alloc
     /\ in.kind = "legacy" => in.buf.alloc = Len(in.bytes)}

-----------------------------------------------------------------------------
(* Heads and scalars                                                       *)

(* The head is consumed unless it is refused.                              *)
TakeHead(in, value) ==
  LET byte == in.bytes[in.at + 1] IN
  IF Forbidden(byte, value) THEN Fail(in, "invalid_additional_information", <<>>)
  ELSE Ok(DiscardBuffered(in, LengthOf(byte)), ItemHead(byte, value))

(* do_parse_item_head, with nine bytes buffered or with what it requires   *)
ParseBufferedHead(in) ==
  LET byte == in.bytes[in.at + 1] IN
  IF ~WellFormedInfo(byte) THEN Fail(in, "invalid_additional_information", <<>>)
  ELSE IF in.window >= VarUintMax THEN TakeHead(in, FastValue(Buffered(in, VarUintMax)))
  ELSE Then(RequireInput(in, LengthOf(byte)),
            LAMBDA r : TakeHead(r.in, SlowValue(Buffered(r.in, LengthOf(byte)))))

ParseHead(in) ==
  Then(IF in.window = 0 THEN RequireInput(in, 1) ELSE Ok(in, <<>>),
       LAMBDA r : ParseBufferedHead(r.in))

(* expect_item_head                                                        *)
ExpectHead(in, type, value) ==
  Then(ParseHead(in), LAMBDA r :
    LET h == r.value IN
    IF h.type # type THEN Fail(r.in, "item_type_mismatch", h)
    ELSE IF h.ind /\ type = "special"
    THEN IF value = IndefiniteInfo THEN Ok(r.in, h) ELSE Fail(r.in, "item_type_mismatch", h)
    ELSE IF h.ind THEN Fail(r.in, "indefinite_item", h)
    ELSE IF h.value # value THEN Fail(r.in, "item_value_out_of_range", h)
    ELSE Ok(r.in, h))

(* parse_integer, signed and unsigned                                      *)
ParseInteger(in, t, dest) ==
  Try(ParseHead(in), dest, LAMBDA r :
    LET h == r.value IN
    IF h.type \notin (IF t.flag THEN {"posint", "negint"} ELSE {"posint"})
    THEN Fail(r.in, "item_type_mismatch", dest)
    ELSE IF h.value > LimitOf(t.n, t.flag) THEN Fail(r.in, "item_value_out_of_range", dest)
    ELSE Ok(r.in, IF h.type = "negint" THEN -1 - h.value ELSE h.value))

(* parse_boolean: what is no boolean is not consumed.                      *)
ParseBoolean(in, dest) ==
  Try(IF in.window = 0 THEN RequireInput(in, 1) ELSE Ok(in, <<>>), dest, LAMBDA r :
    LET byte == r.in.bytes[r.in.at + 1] IN
    IF byte \notin {False, True} THEN Fail(r.in, "item_type_mismatch", dest)
    ELSE Ok(DiscardBuffered(r.in, 1), byte = True))

(* parse_floating_point: a half is converted, a single to a double too.    *)
ParseFloat(in, t, dest) ==
  Try(ParseHead(in), dest, LAMBDA r :
    LET h == r.value IN
    IF h.type # "special" \/ h.length < 3 THEN Fail(r.in, "item_type_mismatch", dest)
    ELSE IF t.n < h.length - 1 THEN Fail(r.in, "item_value_out_of_range", dest)
    ELSE Ok(r.in, <<h.length - 1, h.value>>))

-----------------------------------------------------------------------------
(* Strings                                                                 *)

IsSpan(t) == t.kind \in {"fixedblob", "fixedtext"}

Ask(in, n) == [in EXCEPT !.asked = IF n > @ THEN n ELSE @]

(* container_resize and container_resize_for_overwrite; a span can only    *)
(* keep its size.                                                          *)
Resize(in, t, dest, n) ==
  IF IsSpan(t) THEN IF n <= Len(dest) THEN Ok(in, dest) ELSE Fail(in, "not_enough_memory", dest)
  ELSE Ok(Ask(in, n), Resized(dest, n, 0))
         \union (IF n > Len(dest) THEN Fail(Ask(in, n), "not_enough_memory", dest) ELSE {})

(* bulk_read of n bytes into the destination at a position                 *)
ReadInto(in, dest, at, n) ==
  {[r EXCEPT !.value = Overwrite(dest, at, @)] : r \in BulkRead(in, n)}

(* The limit on a string's size                                            *)
MaxSize(t) == IF t.kind = "fixedtext" THEN t.n ELSE Huge

(* Mutant of MissingData: the head is taken for a part of what is left.    *)
MissingDataLate(in, n) == InputSize(in) + 1 < n

(* A length the input cannot back                                          *)
MissingData(in, n) == InputSize(in) < n

(* The bound of a loop whose rounds take a byte each                       *)
Rounds(in) == InputSize(in) + 1

(* A round of the loop of parse_blob_indefinite with r.n bytes read so far *)
NextChunk(r, t) ==
  Try(ParseHead(r.in), r.value, LAMBDA s :
    LET h == s.value  newSize == r.n + h.value IN
    IF h.type = "special" /\ h.ind THEN {Result(s.in, "ok", r.value, r.n)}
    ELSE IF h.type # StringType(t) THEN Fail(s.in, "invalid_indefinite_subitem", r.value)
    ELSE IF MissingData(s.in, h.value) THEN Fail(s.in, "missing_data", r.value)
    ELSE IF newSize > MaxSize(t) THEN Fail(s.in, "string_exceeds_size_limit", r.value)
    ELSE Then(Resize(s.in, t, r.value, newSize), LAMBDA u :
         Then(ReadInto(u.in, u.value, r.n, h.value), LAMBDA b :
           {Result(b.in, "more", b.value, newSize)})))

BlobChunks(in, t, dest) ==
  LET after[k \in 0 .. Rounds(in)] ==
        IF k = 0 THEN {Result(in, "more", dest, 0)}
        ELSE UNION {IF r.rx = "more" THEN NextChunk(r, t) ELSE {r} : r \in after[k - 1]}
  IN  after[Rounds(in)]

(* parse_blob; a fixed_u8string only takes strings of definite length.     *)
ParseBlob(in, t, dest) ==
  Try(ParseHead(in), dest, LAMBDA r :
    LET h == r.value IN
    IF h.type # StringType(t) THEN Fail(r.in, "item_type_mismatch", dest)
    ELSE IF h.ind /\ t.kind = "fixedtext" THEN Fail(r.in, "indefinite_item", dest)
    ELSE IF h.ind THEN Then(Resize(r.in, t, dest, 0),
                            LAMBDA s : BlobChunks(s.in, t, s.value))
    ELSE IF MissingData(r.in, h.value) THEN Fail(r.in, "missing_data", dest)
    ELSE IF h.value > MaxSize(t) THEN Fail(r.in, "string_exceeds_size_limit", dest)
    ELSE Then(Resize(r.in, t, dest, h.value), LAMBDA s :
         Then(ReadInto(s.in, s.value, 0, h.value), LAMBDA b :
           {Result(b.in, "ok", b.value, h.value)})))

(* codec<R> of a vector of bytes: emptied if the string cannot be read     *)
DecodeBlob(in, t, dest) ==
  {IF r.rx = "ok" THEN r ELSE [r EXCEPT !.value = <<>>] : r \in ParseBlob(in, t, dest)}

(* Mutant of DecodeFixedBlob: what was read of the string stays.           *)
DecodeFixedBlobPartly(in, t, dest) ==
  Then(ParseBlob(in, t, dest), LAMBDA r :
    IF r.n = t.n THEN {r} ELSE Fail(r.in, "tuple_size_mismatch", r.value))

(* fixed_size_binary_item_container_codec: cleared unless exactly filled   *)
DecodeFixedBlob(in, t, dest) ==
  {IF r.rx # "ok" THEN [r EXCEPT !.value = Default[t]]
   ELSE IF r.n # t.n THEN Result(r.in, "tuple_size_mismatch", Default[t], r.n)
   ELSE r : r \in ParseBlob(in, t, dest)}

(* decode_fixed_u8string: the length is 0 until the string is read, and    *)
(* the code units that are not overwritten stay, behind the string after a *)
(* success, with whatever was read after a failure.                        *)
DecodeFixedText(in, t, dest) ==
  {[r EXCEPT !.value = [size |-> IF r.rx = "ok" THEN r.n ELSE 0, units |-> @]]
     : r \in ParseBlob(in, t, dest.units)}

(* codec<uuid>: read aside and then assigned                               *)
DecodeUuid(in, t, dest) ==
  Try(ExpectHead(in, "binary", t.n), dest, LAMBDA r : Try(BulkRead(r.in, t.n), dest, LAMBDA b : {b}))

(* codec<path>: parsed into a string of its own, which may fail to be      *)
(* assigned                                                                *)
DecodePath(in, t, dest) ==
  Try(ParseBlob(in, t, <<>>), dest, LAMBDA r :
    {r} \union Fail(r.in, "not_enough_memory", dest))

-----------------------------------------------------------------------------
(* Containers.  `decoders' has for each object the decoder of its type     *)
(* into it, a function of the input.                                       *)

(* decode_element: emplaced first, then decoded in place                   *)
DecodeElement(in, t, dest, decoders) ==
  Fail(in, "not_enough_memory", dest)
    \union {[r EXCEPT !.value = Append(dest, @)] : r \in decoders[Fresh(t.of[1])][in]}

(* decode_key: a key that is there already clears the set, unless there is *)
(* no memory for the node it would be emplaced with.                       *)
DecodeKey(in, t, dest, decoders) ==
  Try(decoders[Fresh(t.of[1])][in], dest, LAMBDA k :
    (IF k.value \in dest THEN Fail(k.in, "duplicate_key", {})
     ELSE Ok(k.in, dest \union {k.value})) \union Fail(k.in, "not_enough_memory", dest))

(* emplace() of a pair whose key is new                                    *)
WithEntry(m, key, mapped) ==
  [k \in DOMAIN m \union {key} |-> IF k \in DOMAIN m THEN m[k] ELSE mapped]

(* decode_pair                                                             *)
DecodePair(in, t, dest, decoders) ==
  Try(decoders[Fresh(t.of[1])][in], dest, LAMBDA k :
  Try(decoders[Fresh(t.of[2])][k.in], dest, LAMBDA m :
    (IF k.value \in DOMAIN dest THEN Fail(m.in, "duplicate_key", <<>>)
     ELSE Ok(m.in, WithEntry(dest, k.value, m.value))) \union Fail(m.in, "not_enough_memory", dest)))

(* decode(ctx, value[i]): there is no value[i] beyond the array.           *)
DecodeMember(in, d, dest, i, decoders) ==
  IF i + 1 \notin 1 .. d.type.n THEN Fail(in, "undefined", dest)
  ELSE {[r EXCEPT !.value = [dest EXCEPT ![i + 1] = r.value]] : r \in decoders[Member(d, i + 1)][in]}

(* decodeElement(ctx, dest, i), where the destination was d at first       *)
DecodeItem(in, d, dest, i, decoders) ==
  CASE d.type.kind = "vector" -> DecodeElement(in, d.type, dest, decoders)
    [] d.type.kind = "set" -> DecodeKey(in, d.type, dest, decoders)
    [] d.type.kind = "map" -> DecodePair(in, d.type, dest, decoders)
    [] d.type.kind \in {"array", "tuple"} -> DecodeMember(in, d, dest, i, decoders)

(* The loop of parse_array_like over n elements                            *)
Items(in, d, dest, n, decoders) ==
  LET after[k \in 0 .. n] ==
        IF k = 0 THEN Ok(in, dest)
        ELSE Then(after[k - 1], LAMBDA r : DecodeItem(r.in, d, r.value, k - 1, decoders))
  IN  {[r EXCEPT !.n = n] : r \in after[n]}

(* A round of the loop of parse_indefinite_array_like, with r.n elements   *)
(* read so far                                                             *)
NextItem(r, d, max, decoders) ==
  Try(RequireInput(r.in, 1), r.value, LAMBDA s :
    IF s.in.bytes[s.in.at + 1] = Break
    THEN {Result(DiscardBuffered(s.in, 1), "ok", r.value, r.n)}
    ELSE IF r.n > max THEN Fail(s.in, "item_value_out_of_range", r.value)
    ELSE Then(DecodeItem(s.in, d, r.value, r.n, decoders),
              LAMBDA e : {Result(e.in, "more", e.value, r.n + 1)}))

IndefiniteItems(in, d, dest, max, decoders) ==
  LET after[k \in 0 .. Rounds(in)] ==
        IF k = 0 THEN {Result(in, "more", dest, 0)}
        ELSE UNION {IF r.rx = "more" THEN NextItem(r, d, max, decoders) ELSE {r} : r \in after[k - 1]}
  IN  after[Rounds(in)]

(* container_reserve, if the container has a reserve() (std::set does not, *)
(* but its first insertion may fail as well); a span has none.             *)
Reserve(in, t, dest, n) ==
  IF t.kind = "array" THEN Ok(in, dest)
  ELSE Ok(Ask(in, n), dest)
         \union (IF n > 0 THEN Fail(Ask(in, n), "not_enough_memory", dest) ELSE {})

(* parse_array_like into d, which holds dest                               *)
ParseArrayLike(in, d, dest, max, decoders) ==
  LET type == IF d.type.kind = "map" THEN "map" ELSE "array"
      perItem == IF d.type.kind = "map" THEN 2 ELSE 1 IN
  Try(ParseHead(in), dest, LAMBDA r :
    LET h == r.value IN
    IF h.type # type THEN Fail(r.in, "item_type_mismatch", dest)
    ELSE IF h.ind THEN IndefiniteItems(r.in, d, dest, max, decoders)
    ELSE IF InputSize(r.in) \div perItem < h.value THEN Fail(r.in, "missing_data", dest)
    ELSE IF h.value > max THEN Fail(r.in, "item_value_out_of_range", dest)
    ELSE Then(Reserve(r.in, d.type, dest, h.value),
              LAMBDA s : Items(s.in, d, s.value, h.value, decoders)))

(* Mutant of DecodeArray: an array that is too short is accepted.          *)
DecodeArrayShort(in, d, decoders) == ParseArrayLike(in, d, d.value, d.type.n, decoders)

(* fixed_size_container_codec: all elements have to come.                  *)
DecodeArray(in, d, decoders) ==
  Then(ParseArrayLike(in, d, d.value, d.type.n, decoders), LAMBDA r :
    IF r.n = d.type.n THEN {r} ELSE Fail(r.in, "tuple_size_mismatch", r.value))

(* decode_varargs                                                          *)
DecodeTuple(in, d, decoders) ==
  Try(ExpectHead(in, "array", d.type.n), d.value, LAMBDA r :
    Items(r.in, d, d.value, d.type.n, decoders))

(* codec<T>::decode into d; containers are cleared before anything is      *)
(* parsed.                                                                 *)
DecodeWith(in, d, decoders) ==
  LET t == d.type IN
  CASE t.kind \in IntegerKinds -> ParseInteger(in, t, d.value)
    [] t.kind = "bool" -> ParseBoolean(in, d.value)
    [] t.kind = "float" -> ParseFloat(in, t, d.value)
    [] t.kind = "blob" -> DecodeBlob(in, t, d.value)
    [] t.kind = "fixedblob" -> DecodeFixedBlob(in, t, d.value)
    [] t.kind = "uuid" -> DecodeUuid(in, t, d.value)
    [] t.kind = "text" -> ParseBlob(in, t, d.value)
    [] t.kind = "path" -> DecodePath(in, t, d.value)
    [] t.kind = "fixedtext" -> DecodeFixedText(in, t, d.value)
    [] t.kind = "set" -> ParseArrayLike(in, d, {}, Huge, decoders)
    [] t.kind \in {"vector", "map"} -> ParseArrayLike(in, d, <<>>, Huge, decoders)
    [] t.kind = "array" -> DecodeArray(in, d, decoders)
    [] t.kind = "tuple" -> DecodeTuple(in, d, decoders)

Decode[d \in Destinations] == [in \in Inputs |-> DecodeWith(in, d, Decode)]
=============================================================================
