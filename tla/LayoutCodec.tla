---------------------------- MODULE LayoutCodec -----------------------------
(***************************************************************************)
(* The codecs derived from a layout descriptor: encode_object and          *)
(* decode_object for an object_def, encode_tuple and decode_tuple for a    *)
(* tuple_def.  An object is a map from property ids to values, whose       *)
(* entries may come in any order and whose optional properties may be      *)
(* absent; a tuple is an array of its members in the order of the          *)
(* descriptor.  A versioned descriptor adds the version as first entry.    *)
(*                                                                         *)
(* The input is a sequence of tokens, each an item head or a value of one  *)
(* byte; the codecs of ids and values are those of integers and of an      *)
(* opaque type.                                                            *)
(***************************************************************************)
EXTENDS Integers, Sequences, FiniteSets

CONSTANTS
  Layouts,     \* layout descriptors: [kind, ids, required, version]
  Inputs,      \* encoded items to decode
  NoVersion,   \* null_def_version
  Digits,      \* digits_v<std::size_t> (64 in the code)
  SmallLimit,  \* inline_value_max + 1 (24 in the code)
  MaxCount,    \* max / 2 (max for a tuple) of std::int32_t
  Unset        \* what a member holds before it is decoded

ASSUME LayoutAssumption ==
  /\ Digits \in Nat \ {0} /\ SmallLimit \in Nat /\ MaxCount \in Nat
  /\ NoVersion \in Nat \ {0}
  /\ \A l \in Layouts :
       /\ l.kind \in {"object", "tuple"}
       /\ l.ids \in Seq(Nat) /\ Len(l.ids) \in 1 .. MaxCount - 2
       /\ l.required \subseteq DOMAIN l.ids
       /\ l.version \in 0 .. NoVersion
       /\ \A i, j \in DOMAIN l.ids : i < j => l.ids[i] < l.ids[j]
  /\ \A s \in Inputs :      \* parse_item_head refuses indefinite integers
       /\ s \in Seq([type : STRING, ind : BOOLEAN, value : Nat])
       /\ \A n \in DOMAIN s : s[n].type = "posint" => ~s[n].ind

VARIABLES
  layout,  \* the descriptor of the type that is decoded
  input,   \* the encoded item
  at,      \* position of the next token
  count,   \* num_properties of the parsed head
  i,       \* properties decoded so far
  found,   \* foundProps, the buckets of a bit set (the code keeps it only
           \* for descriptors with optional properties)
  dest,    \* the members of the object or tuple
  pc, rx

vars == <<layout, input, at, count, i, found, dest, pc, rx>>

Token(t, n) == [type |-> t, ind |-> FALSE, value |-> n]

Props == DOMAIN layout.ids
IsObject == layout.kind = "object"
HasOptional == layout.required # Props
Versioned == layout.version # NoVersion

(* How many buckets the bit set of n properties has (div_ceil), and the    *)
(* bucket and the bit of property k                                        *)
Buckets(n) == (n + Digits - 1) \div Digits
Bucket(k) == (k - 1) \div Digits
Bit(k) == (k - 1) % Digits

(* compress_required_props: the buckets of the required properties         *)
RequiredMask ==
  [b \in 0 .. Buckets(Len(layout.ids)) - 1 |->
     {Bit(k) : k \in {k \in layout.required : Bucket(k) = b}}]

Init ==
  /\ layout \in Layouts /\ input \in Inputs
  /\ at = 1 /\ count = 0 /\ i = 0
  /\ found = [b \in 0 .. Buckets(Len(layout.ids)) - 1 |-> {}]
  /\ dest = [k \in DOMAIN layout.ids |-> Unset]
  /\ pc = "head" /\ rx = "ok"

-----------------------------------------------------------------------------
(* Building blocks                                                         *)

Available == Len(input) - at + 1   \* input_size()

Next1 == input[at]                 \* the next token, if there is one

Done(r) == pc' = "done" /\ rx' = r

Goto(p) == pc' = p /\ UNCHANGED rx

(* Mutant of AfterHead: an item without a version passes for any version.  *)
AfterHeadLenient(version) ==
  IF Versioned /\ version \notin {layout.version, NoVersion}
  THEN Done("item_version_mismatch") ELSE Goto("count")

(* Where the decoding goes on after the head                               *)
AfterHead(version) ==
  IF Versioned /\ version # layout.version THEN Done("item_version_mismatch")
  ELSE Goto("count")

(* The property with that id: the ids below SmallLimit are switched over,  *)
(* the others found by a search in the rest of the sorted ids.             *)
SmallEnd == Cardinality({k \in Props : layout.ids[k] < SmallLimit})

Matches(id) ==
  IF id < SmallLimit
  THEN {k \in 1 .. SmallEnd : layout.ids[k] = id}
  ELSE {k \in SmallEnd + 1 .. Len(layout.ids) : layout.ids[k] = id}

-----------------------------------------------------------------------------
(* decode_object_head and decode_tuple_head: the map or array head.        *)

HeadType == IF IsObject THEN "map" ELSE "array"

(* Mutant of TooMany: the limit is off by one.                             *)
TooManyByOne(n) == n > MaxCount + 1

(* A pair takes two bytes at least, a member of a tuple one.               *)
TooLong(n, left) == IF IsObject THEN n > left \div 2 ELSE n > left
TooMany(n) == IF IsObject THEN n >= MaxCount ELSE n > MaxCount

(* An empty map has no version and is not looked at any further.           *)
HeadResult(h, left) ==
  IF h.type # HeadType \/ h.ind THEN "item_type_mismatch"
  ELSE IF IsObject /\ h.value = 0 THEN "ok"
  ELSE IF TooLong(h.value, left) THEN "end_of_stream"
  ELSE IF TooMany(h.value) THEN "too_many_properties"
  ELSE IF Versioned /\ h.value < 1 THEN "item_version_property_missing"
  ELSE "ok"

DecodeHead ==
  /\ pc = "head"
  /\ UNCHANGED <<layout, input, i, found, dest>>
  /\ IF Available = 0
     THEN Done("end_of_stream") /\ UNCHANGED <<at, count>>
     ELSE LET rc == HeadResult(Next1, Available - 1) IN
          /\ at' = at + 1
          /\ count' = IF rc = "ok" THEN Next1.value ELSE 0
          /\ IF rc # "ok" THEN Done(rc)
             ELSE IF Versioned /\ Next1.value # 0 THEN Goto("version")
             ELSE AfterHead(NoVersion)

(* The version: in an object the value of property 0, if that comes first. *)
DecodeVersion ==
  LET v == IF IsObject THEN at + 1 ELSE at    \* where the version is
  IN
  /\ pc = "version"
  /\ IF IsObject /\ Next1 # Token("posint", 0)
     THEN AfterHead(NoVersion) /\ UNCHANGED <<at, count>>
     ELSE /\ at' = v + 1
          /\ count' = count - 1
          /\ IF input[v].type # "posint" THEN Done("item_type_mismatch")
             ELSE IF input[v].value >= NoVersion THEN Done("item_value_out_of_range")
             ELSE AfterHead(input[v].value)
  /\ UNCHANGED <<layout, input, i, found, dest>>

(* decode_object_properties and decode_tuple_properties: the number of     *)
(* properties, unless some are optional.                                   *)
Count ==
  /\ pc = "count"
  /\ IF count # Len(layout.ids) /\ (~IsObject \/ ~HasOptional)
     THEN Done(IF ~IsObject THEN "tuple_size_mismatch"
                                        ELSE "required_object_property_missing")
     ELSE Goto("property")
  /\ UNCHANGED <<layout, input, at, count, i, found, dest>>

(* decode() of a property's value into its member                          *)
DecodeValue(k, p) ==
  IF p > Len(input)
  THEN at' = p /\ Done("end_of_stream") /\ UNCHANGED <<i, found, dest>>
  ELSE /\ at' = p + 1
       /\ IF input[p].type # "value"
          THEN Done("item_type_mismatch") /\ UNCHANGED <<i, found, dest>>
          ELSE /\ dest' = [dest EXCEPT ![k] = input[p].value]
               /\ found' = [found EXCEPT ![Bucket(k)] = @ \union {Bit(k)}]
               /\ i' = i + 1
               /\ UNCHANGED <<pc, rx>>

(* Mutant of ObjectProperty: the id is taken for the index.                *)
ObjectPropertyByPosition ==
  /\ pc = "property" /\ IsObject /\ i < count
  /\ IF Available = 0
     THEN Done("end_of_stream") /\ UNCHANGED <<at, i, found, dest>>
     ELSE DecodeValue((i % Len(layout.ids)) + 1, at + 1)
  /\ UNCHANGED <<layout, input, count>>

(* decode_object_property: the id, then the value into the member that has *)
(* that id.                                                                *)
ObjectProperty ==
  /\ pc = "property" /\ IsObject /\ i < count
  /\ IF Available = 0
     THEN Done("end_of_stream") /\ UNCHANGED <<at, i, found, dest>>
     ELSE IF Next1.type # "posint"
     THEN Done("item_type_mismatch") /\ at' = at + 1 /\ UNCHANGED <<i, found, dest>>
     ELSE IF Matches(Next1.value) = {}
     THEN Done("unknown_property") /\ at' = at + 1 /\ UNCHANGED <<i, found, dest>>
     ELSE \E k \in Matches(Next1.value) : DecodeValue(k, at + 1)
  /\ UNCHANGED <<layout, input, count>>

(* mp_for_dots over the members of a tuple                                 *)
TupleMember ==
  /\ pc = "property" /\ ~IsObject /\ i < count
  /\ DecodeValue(i + 1, at)
  /\ UNCHANGED <<layout, input, count>>

(* Mutant of Finish: some bucket is full instead of every one.             *)
FinishAny ==
  /\ pc = "property" /\ i = count
  /\ IF \/ ~IsObject \/ ~HasOptional
        \/ \E b \in DOMAIN found : RequiredMask[b] \subseteq found[b]
     THEN Done("ok") ELSE Done("required_object_property_missing")
  /\ UNCHANGED <<layout, input, at, count, i, found, dest>>

(* Every bucket of found properties has the bits of the required ones.     *)
Finish ==
  /\ pc = "property" /\ i = count
  /\ IF \/ ~IsObject \/ ~HasOptional
        \/ \A b \in DOMAIN found : RequiredMask[b] \subseteq found[b]
     THEN Done("ok") ELSE Done("required_object_property_missing")
  /\ UNCHANGED <<layout, input, at, count, i, found, dest>>

Next ==
  \/ DecodeHead \/ DecodeVersion \/ Count
  \/ ObjectProperty \/ TupleMember \/ Finish

(* The function runs until it returns.                                     *)
Spec == Init /\ [][Next]_vars /\ WF_vars(Next)

-----------------------------------------------------------------------------
(* encode_object and encode_tuple                                          *)

(* Mutant of EncodedHead: the version's entry is not counted.              *)
EncodedHeadUncounted(l) ==
  LET t == IF l.kind = "object" THEN "map" ELSE "array" IN
  IF l.version = NoVersion THEN <<Token(t, Len(l.ids))>>
  ELSE <<Token(t, Len(l.ids))>>
         \o (IF l.kind = "object" THEN <<Token("posint", 0)>> ELSE <<>>)
         \o <<Token("posint", l.version)>>

(* The head, with the version as first entry                               *)
EncodedHead(l) ==
  LET t == IF l.kind = "object" THEN "map" ELSE "array" IN
  IF l.version = NoVersion THEN <<Token(t, Len(l.ids))>>
  ELSE <<Token(t, Len(l.ids) + 1)>>
         \o (IF l.kind = "object" THEN <<Token("posint", 0)>> ELSE <<>>)
         \o <<Token("posint", l.version)>>

(* The properties in the order of the descriptor                           *)
EncodedProperties(l, members) ==
  IF l.kind = "tuple" THEN [k \in DOMAIN l.ids |-> Token("value", members[k])]
  ELSE [n \in 1 .. 2 * Len(l.ids) |->
          IF n % 2 = 1 THEN Token("posint", l.ids[(n + 1) \div 2])
                       ELSE Token("value", members[n \div 2])]

Encoded(l, members) == EncodedHead(l) \o EncodedProperties(l, members)

-----------------------------------------------------------------------------
(* Properties                                                              *)

TypeOK ==
  /\ layout \in Layouts
  /\ at \in 1 .. Len(input) + 1
  /\ count \in 0 .. MaxCount /\ i \in 0 .. count
  /\ found \in [DOMAIN RequiredMask -> SUBSET (0 .. Digits - 1)]
  /\ DOMAIN dest = Props
  /\ pc \in {"head", "version", "count", "property", "done"}
  /\ rx \in {"ok", "end_of_stream", "item_type_mismatch", "too_many_properties",
             "item_version_property_missing", "item_value_out_of_range",
             "item_version_mismatch", "required_object_property_missing",
             "tuple_size_mismatch", "unknown_property"}

Succeeded == pc = "done" /\ rx = "ok"

(* Where the entries of the item start: behind its head and version.       *)
Entries == 2 + (IF ~Versioned THEN 0 ELSE IF IsObject THEN 2 ELSE 1)

(* The entries of a decoded object which are about property k              *)
EntriesOf(k) ==
  {n \in 0 .. count - 1 : input[Entries + 2 * n] = Token("posint", layout.ids[k])}

(* A successful decode_object has taken each member from the last entry    *)
(* with its id, wherever that is in the map, left the members without an   *)
(* entry alone, and consumed exactly the item.                             *)
DecodedFromEntries ==
  (Succeeded /\ IsObject) =>
    /\ at = Entries + 2 * count
    /\ \A k \in Props :
         LET ns == EntriesOf(k) IN
         IF ns = {} THEN dest[k] = Unset
         ELSE \E n \in ns : /\ \A m \in ns : m <= n
                            /\ dest[k] = input[Entries + 2 * n + 1].value

(* A successful decode_object has found every required property, if the    *)
(* descriptor has optional ones (which makes the decoder look) or no id    *)
(* comes twice; across all buckets of foundProps.                          *)
RequiredDecoded ==
  (/\ Succeeded /\ IsObject
   /\ HasOptional \/ \A k \in Props : Cardinality(EntriesOf(k)) <= 1) =>
     \A k \in layout.required : EntriesOf(k) # {}

(* An item of another version, or without one, is never decoded.           *)
VersionGuard ==
  (Succeeded /\ Versioned) => input[Entries - 1] = Token("posint", layout.version)

(* What encode_object and encode_tuple write, decode_object and            *)
(* decode_tuple read back, in every member: the head counts the version's  *)
(* entry, the decoder takes it off, and every optional member is found.    *)
RoundTrip ==
  (/\ pc = "head"
   /\ \E members \in [Props -> {t.value : t \in {input[n] : n \in DOMAIN input}}] :
        input = Encoded(layout, members))
    ~> (Succeeded /\ input = Encoded(layout, dest))
=============================================================================
