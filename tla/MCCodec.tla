------------------------------- MODULE MCCodec -------------------------------
(***************************************************************************)
(* Model checking of Codec: values at the boundaries of every head width   *)
(* in buffers of every size around theirs, containers through streams that *)
(* grow, fail and split them anywhere, and foreign input: other encodings  *)
(* of a value, reserved and truncated heads, lengths nothing backs,        *)
(* indefinite forms, duplicate keys.                                       *)
(***************************************************************************)
EXTENDS Codec

U8 == Integer(1, FALSE)
I8 == Integer(1, TRUE)
U32 == Integer(4, FALSE)
U64 == Integer(8, FALSE)
I64 == Integer(8, TRUE)
Nested == Vector(Vector(U8, FALSE), FALSE)
Streamed == Vector(U8, TRUE)
Names == Map(U8, Text, FALSE)
Flags == Map(U8, Bool, TRUE)
Groups == Map(U8, KeySet(U8), FALSE)
Pair == Tuple(<<U8, Text>>)

Each(type, values) == {[type |-> type, value |-> v] : v \in values}

Letters(n) == [k \in 1 .. n |-> 96 + k]

Heads ==
  Each(U64, {0, 23, 24, 255, 256, 65535, 65536, Huge})
    \union Each(U32, {1, 24, 65536}) \union Each(Enum(1, FALSE), {25})
    \union Each(I64, {-1, -24, -25, -256, -257, -65536, -65537}) \union Each(I8, {-128, 127})
    \union Each(Duration(8), {-30})

Small ==
  Each(Bool, {FALSE, TRUE}) \union Each(Float(4), {<<4, 5>>}) \union Each(Float(8), {<<8, 5>>})
    \union Each(U64, {23, 65536}) \union Each(I64, {-25})
    \union Each(Text, {Letters(0), Letters(2)}) \union Each(Blob, {<<1, 255>>})

Structured ==
  Each(Nested, {<<>>, <<<<24>>, <<>>>>}) \union Each(Streamed, {<<>>, <<1, 24>>})
    \union Each(KeySet(U8), {{}, {1, 24}}) \union Each(Names, {<<>>, (1 :> Letters(1)) @@ (2 :> <<>>)})
    \union Each(Flags, {(30 :> TRUE)}) \union Each(Array(2, I8), {<<-1, 24>>})
    \union Each(Pair, {<<24, Letters(1)>>}) \union Each(Tuple(<<Bool, Float(4)>>), {<<TRUE, <<4, 9>>>>})
    \union Each(FixedBlob(2), {<<7, 8>>}) \union Each(Uuid(2), {<<0, 9>>})
    \union Each(Path, {Letters(1)}) \union Each(FixedText(2), {Letters(1)})

Long == Each(Text, {Letters(24), Letters(9)}) \union Each(Blob, {Letters(11)})

MCValues ==
  [heads |-> Heads, small |-> Small, structured |-> Structured, long |-> Long,
   null |-> Small \union Each(NullType, {<<>>})]

MCSetups ==
  [out : {"memory", "legacy"}, n : 0 .. 10, in : {"memory"}, values : {"heads"}]
    \union [out : {"memory"}, n : 1 .. 7, in : {"legacy"}, values : {"structured"}]
    \union [out : {"memory"}, n : {25, 26}, in : {"memory"}, values : {"long"}]
    \union [out : {"legacy"}, n : {6, 12}, in : {"legacy"}, values : {"small"}]
    \union [out : {"dynamic"}, n : {0, 3}, in : {"memory"}, values : {"heads", "long", "small"}]
    \union [out : {"dynamic"}, n : {0}, in : {"stream"}, values : {"structured"}]
    \union [out : {"void"}, n : {0}, in : {"memory"}, values : {"heads", "long", "null"}]

(* These values with their components, and how deep each nests             *)
RECURSIVE WithParts(_), Depth(_)
WithParts(x) ==
  {x} \union IF x.type.kind \notin ContainerKinds THEN {}
             ELSE UNION {WithParts(Parts(x)[k]) : k \in DOMAIN Parts(x)}

Depth(x) ==
  IF x.type.kind \notin ContainerKinds THEN 0
  ELSE 1 + Max({0} \union {Depth(Parts(x)[k]) : k \in DOMAIN Parts(x)})

MCNesting ==
  [x \in UNION {WithParts(y) : y \in UNION Range(MCValues)} |-> Depth(x)]

-----------------------------------------------------------------------------
(* Foreign input                                                           *)

Full(n) == [k \in 1 .. n |-> 255]

Integers ==
  {<<5>>, <<24, 5>>, <<25, 0, 5>>, <<26, 0, 0, 0, 5>>, <<27, 0, 0, 0, 0, 0, 0, 0, 5>>,
   <<27>> \o Full(8), <<24>>, <<25, 0>>, <<28>>, <<31>>, <<32>>, <<56, 5>>, <<56, 255>>, <<60>>,
   <<59>> \o Full(8), <<193, 5>>}

Specials ==
  {<<244>>, <<248, 20>>, <<248, 32>>, <<246>>, <<249, 0, 5>>, <<249, 0>>, <<250, 0, 0, 0, 5>>,
   <<251, 0, 0, 0, 0, 0, 0, 0, 5>>, <<252>>, <<255>>}

Strings ==
  {<<64>>, <<65, 7>>, <<66, 7>>, <<66, 7, 8>>, <<67, 7, 8, 9>>, <<88, 2, 7, 8>>, <<91>> \o Full(8),
   <<95, 65, 7, 65, 8, 255>>, <<95, 255>>, <<95, 65, 7>>, <<95, 97, 7, 255>>, <<95, 67, 7, 8, 255>>,
   <<95, 95, 65, 7, 255, 255>>, <<92>>,
   <<92>> \o [k \in 1 .. 28 |-> 7],
   <<96>>, <<98, 7, 8>>, <<98, 7>>, <<99, 7, 8, 9>>, <<127, 97, 7, 97, 8, 255>>, <<127, 65, 7, 255>>,
   <<123>> \o Full(8)}

Arrays ==
  {<<128>>, <<129, 5>>, <<130, 5, 6>>, <<130, 5>>, <<130, 5, 5>>, <<131, 5, 6, 7>>, <<152, 2, 5, 6>>,
   <<155>> \o Full(8), <<156>>, <<159, 255>>, <<159, 5, 255>>, <<159, 5, 6, 255>>, <<159, 5, 5, 255>>,
   <<159, 5, 6, 7, 255>>, <<159, 5>>, <<130, 129, 5, 128>>, <<130, 5, 97, 7>>, <<130, 129, 5, 5>>}

Maps ==
  {<<160>>, <<161, 5, 97, 7>>, <<162, 5, 97, 7, 5, 97, 8>>, <<162, 5, 97, 7, 6, 96>>, <<162, 5, 245>>,
   <<191, 5, 97, 7, 255>>, <<191, 5, 245, 5, 244, 255>>, <<191, 5, 255>>, <<191, 5, 245, 255>>,
   <<161, 5>>, <<187>> \o Full(8), <<188>>}

Given(types, kinds, bytes) ==
  [types : {<<t>> : t \in types}, kind : kinds, bytes : bytes]

MCForeign ==
  Given({U8, I8, U64, I64, Bool, Float(4), Float(8)}, {"memory"}, Integers \union Specials)
    \union Given({Blob, FixedBlob(2), Uuid(2), Text, Path, FixedText(2)}, {"memory"}, Strings)
    \union Given({Streamed, Nested, KeySet(U8), Array(2, U8), Tuple(<<U8, U8>>)}, {"memory"}, Arrays)
    \union Given({Names, Flags}, {"memory"}, Maps)
    \union Given({Groups}, {"memory"}, {<<161, 5, 130, 7, 7>>, <<162, 5, 129, 7, 5, 129, 8>>})
    \union Given({U8, Streamed, KeySet(U8), Blob, Text, Names}, {"stream"},
                 {<<24, 5>>, <<95, 65, 7, 255>>, <<95, 67, 7, 8, 255>>, <<127, 97, 7, 97, 8, 255>>,
                  <<130, 24, 24, 5>>, <<159, 5, 5, 255>>, <<161, 5, 97, 7>>})
    \union [types : {<<U8, Text>>, <<Text, U8, U8>>, <<Blob, Text, U8>>}, kind : {"legacy"},
            bytes : {<<97, 7, 24, 5>>, <<24, 5, 98, 7, 8>>, <<66, 7>>}]

(* A chunk of indefinite length in a string of indefinite length           *)
MCNested ==
  Given({Blob}, {"memory"},
        {<<95, 95, 65, 7, 255, 255>>, <<95, 95>> \o [k \in 1 .. 31 |-> 7] \o <<255>>})

-----------------------------------------------------------------------------
(* What is decoded, with its components, and into what                     *)

RECURSIVE WithComponents(_), TypeDepth(_), Used(_)
WithComponents(t) ==
  {t} \union UNION {WithComponents(t.of[k]) : k \in DOMAIN t.of}

TypeDepth(t) == IF t.of = <<>> THEN 0 ELSE 1 + Max({TypeDepth(t.of[k]) : k \in DOMAIN t.of})

MCTypes ==
  UNION {WithComponents(t) : t \in (UNION {Range(f.types) : f \in MCForeign})
                                     \union {x.type : x \in UNION Range(MCValues)}}

MCLevel == [t \in MCTypes \ {NullType} |-> TypeDepth(t)]

(* A destination that was used before                                      *)
Used(t) ==
  CASE t.kind \in IntegerKinds \union {"bool", "float"} -> Junk
    [] t.kind \in {"fixedblob", "uuid"} -> [k \in 1 .. t.n |-> Junk]
    [] t.kind \in {"blob", "text", "path"} -> <<Junk>>
    [] t.kind = "fixedtext" -> [size |-> 1, units |-> [k \in 1 .. t.n |-> Junk]]
    [] t.kind = "vector" -> <<Used(t.of[1])>>
    [] t.kind = "set" -> {Used(t.of[1])}
    [] t.kind = "map" -> (Used(t.of[1]) :> Used(t.of[2]))
    [] t.kind = "array" -> [k \in 1 .. t.n |-> Used(t.of[1])]
    [] t.kind = "tuple" -> [k \in 1 .. t.n |-> Used(t.of[k])]

MCDestinations == UNION {{Fresh(t), Object(t, Used(t))} : t \in Types}

-----------------------------------------------------------------------------
(* The position behind the encoded item that starts at position i, as      *)
(* RFC 8949 defines it, or 0 if there is none.                             *)

RECURSIVE ItemEnd(_, _), ItemsEnd(_, _, _), UntilBreak(_, _, _), ChunksEnd(_, _, _)

(* Where the argument of the head at i ends                                *)
ArgumentEnd(s, i) ==
  LET info == s[i] % 32
      end == i + (CASE info <= 23 -> 1 [] info = 24 -> 2 [] info = 25 -> 3
                    [] info = 26 -> 5 [] info = 27 -> 9 [] OTHER -> Len(s) + 2)
  IN  IF end <= Len(s) + 1 THEN end ELSE 0

Argument(s, i) ==
  IF s[i] % 32 <= 23 THEN s[i] % 32
  ELSE LET bytes == SubSeq(s, i + 1, ArgumentEnd(s, i) - 1) IN
       IF bytes[1] = 255 /\ Len(bytes) = 8 THEN Len(s)
       ELSE FoldLeft(LAMBDA n, b : 256 * n + b, 0, bytes)

ItemEnd(s, i) ==
  IF i = 0 \/ i > Len(s) THEN 0
  ELSE LET type == s[i] \div 32  after == ArgumentEnd(s, i) IN
    IF s[i] % 32 = 31
    THEN CASE type \in {2, 3} -> ChunksEnd(s, i + 1, type)
           [] type = 4 -> UntilBreak(s, i + 1, 1)
           [] type = 5 -> UntilBreak(s, i + 1, 2)
           [] OTHER -> 0
    ELSE IF after = 0 THEN 0
    ELSE CASE type \in {0, 1} -> after
           [] type \in {2, 3} -> IF after + Argument(s, i) <= Len(s) + 1
                                 THEN after + Argument(s, i) ELSE 0
           [] type = 4 -> ItemsEnd(s, after, Argument(s, i))
           [] type = 5 -> ItemsEnd(s, after, 2 * Argument(s, i))
           [] type = 6 -> ItemEnd(s, after)
           [] type = 7 -> IF s[i] % 32 = 24 /\ s[i + 1] < 32 THEN 0 ELSE after

ItemsEnd(s, i, n) == IF n = 0 \/ i = 0 THEN i ELSE ItemsEnd(s, ItemEnd(s, i), n - 1)

UntilBreak(s, i, n) ==
  IF i = 0 \/ i > Len(s) THEN 0
  ELSE IF s[i] = 255 THEN i + 1
  ELSE UntilBreak(s, ItemsEnd(s, i, n), n)

ChunksEnd(s, i, type) ==
  IF i = 0 \/ i > Len(s) THEN 0
  ELSE IF s[i] = 255 THEN i + 1
  ELSE IF s[i] \div 32 # type \/ s[i] % 32 = 31 THEN 0
  ELSE ChunksEnd(s, ItemEnd(s, i), type)

(* decode() takes one well formed item from the input, whatever the type:  *)
(* it never ends within one, reads on into the next or makes one up.  The  *)
(* chunks of a string are where it does: "neither finite nor indefinite    *)
(* binary/text items can be nested" (skip_item.cpp), and copy_item and     *)
(* skip_item refuse one that is, but parse_blob_indefinite does not look.  *)
ExactlyOneItem ==
  \A k \in DOMAIN got :
    got[k].rx = "ok" => ItemEnd(in.bytes, got[k].from + 1) = got[k].to + 1

(* std-container.hpp: the codecs of std::array and std::span are there to  *)
(* "check that sequences and blobs exactly match the container size"; a    *)
(* sequence that does not is refused before an element is stored.          *)
StaysInArray == \A k \in DOMAIN got : got[k].rx # "undefined"
=============================================================================
