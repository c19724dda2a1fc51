-------------------------------- MODULE Codec --------------------------------
(***************************************************************************)
(* Sessions of the entry points encode(), decode() and encoded_size_of():  *)
(* values are encoded one after the other into an output stream, what was  *)
(* written is opened as input, and decoded again; or an input of foreign   *)
(* origin is decoded.  Each call is one step, with all outcomes that the   *)
(* streams and the memory may give it.                                     *)
(***************************************************************************)
EXTENDS Decoding

CONSTANTS
  Setups,   \* [out, n, in, values]: an output of that kind and size, the kind
            \* of input its bytes are opened as, what may be encoded into it:
  Values,   \* for each name, a set of [type, value]
  Foreign,  \* [types, kind, bytes]: an input, and the types it is tried as
  MaxCalls, \* bound on the values encoded into one stream
  Leftovers \* the bytes that may be found where nobody wrote

ASSUME SessionAssumption ==
  /\ MaxCalls \in Nat
  /\ \A s \in Setups : /\ s.out \in {"memory", "dynamic", "void", "legacy"}
                       /\ s.in \in {"memory", "stream", "legacy"} /\ s.n \in Nat
                       /\ s.values \in DOMAIN Values
  /\ \A name \in DOMAIN Values : Values[name] \subseteq Encodable
  /\ \A f \in Foreign : f.kind \in {"memory", "stream", "legacy"} /\ f.bytes \in Seq(Bytes)
  /\ Leftovers \subseteq Bytes /\ Junk \notin Bytes

VARIABLES
  phase,  \* "encode" or "decode"
  setup,  \* the setup
  out,    \* the output stream
  log,    \* the encode() calls: value, result, size() before, bytes put
  in,     \* the input
  plan,   \* the types to decode
  got     \* the decode() calls: type, result, destination before and after, from, to

vars == <<phase, setup, out, log, in, plan, got>>

NoInput == Input("memory", <<>>, 0)

Init ==
  /\ log = <<>> /\ got = <<>>
  /\ \/ /\ phase = "encode" /\ plan = <<>> /\ in = NoInput
        /\ setup \in Setups
        /\ out = Output(setup.out, setup.n)
     \/ /\ phase = "decode"
        /\ \E f \in Foreign :
             /\ setup = [out |-> "memory", n |-> 0, in |-> f.kind]
             /\ plan = f.types
             /\ \E w \in Windows(f.kind, Len(f.bytes)) : in = Input(f.kind, f.bytes, w)
        /\ out = Output("memory", 0)

-----------------------------------------------------------------------------
(* How far the output has come                                             *)
Position(o) == IF o.kind = "void" THEN TotalWritten(o) ELSE o.at

(* encode(): after a failure only a legacy buffer is as it was before.     *)
EncodeValue ==
  /\ phase = "encode" /\ Len(log) < MaxCalls
  /\ (log # <<>> => Last(log).rx = "ok" \/ out.kind = "legacy")
  /\ LET start == OpenOutput(out) IN
     \E x \in Values[setup.values] : \E r \in EncodeTo(out, x) :
       /\ out' = r.out
       /\ log' = Append(log, [item |-> x, rx |-> r.rx, room |-> start.room,
                              size |-> Position(r.out) - Position(start)])
  /\ UNCHANGED <<phase, setup, in, plan, got>>

Encoded == FlattenSeq([k \in DOMAIN log |-> IF log[k].rx = "ok" THEN <<log[k]>> ELSE <<>>])

(* The memory of an output that is read: nobody knows what nobody wrote.   *)
Read(mem, leftover) == [k \in DOMAIN mem |-> IF mem[k] = Junk THEN leftover ELSE mem[k]]

(* The caller opens what it has written: a legacy buffer is rewound, with  *)
(* whatever is behind the bytes written.                                   *)
Open ==
  /\ phase = "encode" /\ Encoded # <<>> /\ out.kind # "void"
  /\ \E leftover \in Leftovers :
     LET bytes == IF setup.in = "legacy" /\ out.kind = "legacy" THEN Read(out.mem, leftover)
                  ELSE Written(out) IN
     \E w \in Windows(setup.in, Len(bytes)) :
       in' = IF out.kind = "legacy" /\ setup.in = "legacy"
             THEN [Input("legacy", bytes, w) EXCEPT !.buf = ResetBuffer(out.buf)]
             ELSE Input(setup.in, bytes, w)
  /\ plan' = [k \in DOMAIN Encoded |-> Encoded[k].item.type]
  /\ phase' = "decode"
  /\ UNCHANGED <<setup, out, log, got>>

(* Mutant of DecodeFrom: the buffer moves on whatever happened.            *)
DecodeFromAlways(input, d) ==
  {[r EXCEPT !.in = SyncInput(@)] : r \in Decode[d][OpenInput(input)]}

(* decode(stream, value): a legacy buffer only moves on after a success.   *)
DecodeFrom(input, d) ==
  {IF r.rx = "ok" THEN [r EXCEPT !.in = SyncInput(@)] ELSE r : r \in Decode[d][OpenInput(input)]}

(* decode() of the next value into a fresh or a used destination           *)
DecodeValue ==
  /\ phase = "decode" /\ Len(got) < Len(plan)
  /\ (got # <<>> => Last(got).rx = "ok" \/ in.kind = "legacy")
  /\ LET start == OpenInput(in) IN
     \E d \in {d \in Destinations : d.type = plan[Len(got) + 1]} : \E r \in DecodeFrom(in, d) :
       /\ in' = r.in
       /\ got' = Append(got, [type |-> d.type, rx |-> r.rx, before |-> d.value, value |-> r.value,
                              from |-> start.at, to |-> r.in.at])
  /\ UNCHANGED <<phase, setup, out, log, plan>>

(* The caller moves a legacy buffer back and decodes it again.             *)
Rewind ==
  /\ phase = "decode" /\ in.kind = "legacy" /\ Len(got) = Len(plan)
  /\ in' = [in EXCEPT !.buf = MoveConsumerTo(@, 0)]
  /\ got' = <<>>
  /\ UNCHANGED <<phase, setup, out, log, plan>>

Next == EncodeValue \/ Open \/ DecodeValue \/ Rewind

Spec == Init /\ [][Next]_vars

-----------------------------------------------------------------------------
(* Properties                                                              *)

Errors ==
  {"ok", "bad", "end_of_stream", "not_enough_memory", "undefined",
   "invalid_additional_information", "item_type_mismatch", "item_value_out_of_range",
   "indefinite_item", "invalid_indefinite_subitem", "missing_data",
   "string_exceeds_size_limit", "tuple_size_mismatch", "duplicate_key"}

TypeOK ==
  /\ phase \in {"encode", "decode"}
  /\ out.at + out.room = Len(out.mem) /\ out.room >= 0 /\ out.total >= 0
  /\ out.buf.begin + out.buf.size = out.buf.alloc /\ out.buf.size >= 0
  /\ in.at + in.window \in 0 .. Len(in.bytes) /\ in.window >= 0
  /\ in.buf.begin + in.buf.size = in.buf.alloc /\ in.buf.size >= 0
  /\ \A k \in DOMAIN log : log[k].rx \in Errors
  /\ \A k \in DOMAIN got : got[k].rx \in Errors

(* encoded_size_of() is what encode() puts, byte for byte: the bit scan of *)
(* item_size.hpp, its branching twin used in constant evaluation and the   *)
(* encoder's own widths agree, through every nesting.                      *)
SizeExact ==
  \A k \in DOMAIN log : LET e == log[k] IN
    e.rx = "ok" =>
      /\ e.size = SizeOf[e.item]
      /\ e.item.type.kind \in IntegerKinds =>
           e.size = EncodedSizeBranching(Complement(e.item.value))

(* A buffer of encoded_size_of() bytes is enough for encode(), to the last *)
(* byte and in spite of the whole words the encoder stores, none of which  *)
(* may leave the window, and no smaller one is; the streams that grow or   *)
(* discard never end.                                                      *)
RoomSuffices ==
  \A k \in DOMAIN log : LET e == log[k] IN
    \/ e.rx = "not_enough_memory"
    \/ e.rx = (IF out.kind \in {"memory", "legacy"} /\ e.room < SizeOf[e.item]
               THEN "end_of_stream" ELSE "ok")

(* What the successful calls have encoded, end to end                      *)
Sent ==
  FlattenSeq([k \in DOMAIN log |-> IF log[k].rx = "ok" THEN Encoding(log[k].item) ELSE <<>>])

(* written() holds the encodings of all values in order, across every      *)
(* growth of the buffer, and after a failure at most a part of the last;   *)
(* total_written() counts them though the bytes are gone.                  *)
WrittenFaithful ==
  LET failed == IF log = <<>> \/ Last(log).rx = "ok" THEN <<>> ELSE Encoding(Last(log).item)
  IN  CASE out.kind = "void" -> TotalWritten(out) \in Len(Sent) .. Len(Sent \o failed)
        [] out.kind \in {"memory", "dynamic"} ->
             IsPrefix(Sent, Written(out)) /\ IsPrefix(Written(out), Sent \o failed)
        [] out.kind = "legacy" -> TRUE

(* A legacy memory_buffer has consumed exactly the values whose encode()   *)
(* succeeded: one that failed half way leaves nothing, and the next starts *)
(* in its place.                                                           *)
LegacyAtomic == out.kind = "legacy" => Written(out) = Sent

(* decode() gives back every value encode() has written, in every element, *)
(* from its first byte to its last, wherever the windows of the input      *)
(* split it and whatever the destination held, a fixed_u8string as the     *)
(* string it shows; only the supplier or the memory can fail.              *)
RoundTrip ==
  log # <<>> =>
    \A k \in DOMAIN got : (\A j \in 1 .. k - 1 : got[j].rx = "ok") =>
      LET e == Encoded[k]  g == got[k] IN
      /\ g.rx \in {"ok", "not_enough_memory"} \union (IF in.kind = "stream" THEN {"bad"} ELSE {})
      /\ g.rx = "ok" => Shown(g.type, g.value) = e.item.value /\ g.to - g.from = SizeOf[e.item]

(* No container is asked for more elements or bytes than the input has     *)
(* besides a head, so that a length alone cannot exhaust the memory.       *)
Backed == in.asked > 0 => in.asked < Len(in.bytes)

(* A legacy memory_buffer that is decoded from moves past the values whose *)
(* decode() succeeded and past nothing else.                               *)
LegacyInputAtomic ==
  in.kind = "legacy" =>
    LET taken == {k \in DOMAIN got : got[k].rx = "ok"} IN
    IF taken = {} THEN in.buf.begin = 0
    ELSE \E k \in taken : (\A j \in taken : j <= k) /\ in.buf.begin = got[k].to

(* What a decode() of the next value can deliver: a container is cleared   *)
(* first, so that a failure delivers something as well.                    *)
Delivered(d) ==
  {r \in DecodeFrom(in, d) : r.rx = "ok" \/ d.type.kind \in {"vector", "set", "map"}}

Seen(t, r) == Result(r.in, r.rx, Shown(t, r.value), r.n)

(* The code units behind the string of a fixed_u8string                    *)
KeepsRest(d, v) ==
  d.type.kind = "fixedtext" => \A k \in v.size + 1 .. d.type.n : v.units[k] = d.value.units[k]

(* What decode() of the next value delivers does not depend on what the    *)
(* destination held: no byte, element or key of it is left in the value    *)
(* that is read from it, and it decides nothing.  A container that is      *)
(* cleared first keeps nothing of it after a failure either.  What is left *)
(* is only what a fixed_u8string held behind the new string: all of that   *)
(* is, where its defaulted operator== compares it.                         *)
NothingStale ==
  phase = "decode" /\ Len(got) < Len(plan) =>
    \A d, e \in {d \in Destinations : d.type = plan[Len(got) + 1]} :
      /\ {Seen(d.type, r) : r \in Delivered(d)} = {Seen(e.type, r) : r \in Delivered(e)}
      /\ \A r \in Delivered(d) : KeepsRest(d, r.value)

(* What a failure leaves in a destination, by its type: a second entry for *)
(* a key empties the set or map, one that is nested in it leaves what came *)
(* before.                                                                 *)
FlatParts(t) == \A k \in DOMAIN t.of : t.of[k].kind \notin ContainerKinds

LeftBehind(g) ==
  CASE g.type.kind \in IntegerKinds \union {"bool", "float", "uuid", "path"} -> g.value = g.before
    [] g.type.kind = "blob" -> g.value = <<>>
    [] g.type.kind = "fixedtext" -> g.value.size = 0
    [] g.type.kind = "fixedblob" -> g.value = Default[g.type]
    [] g.type.kind = "set" -> g.rx = "duplicate_key" /\ FlatParts(g.type) => g.value = {}
    [] g.type.kind = "map" -> g.rx = "duplicate_key" /\ FlatParts(g.type) => g.value = <<>>
    [] OTHER -> TRUE

(* A decode() that fails, at any byte, leaves scalars alone, no part of a  *)
(* blob behind and a fixed_u8string of no size, whatever its code units    *)
(* are, and refuses a second entry for a key with an empty set or map.     *)
FailureContained == \A k \in DOMAIN got : got[k].rx # "ok" => LeftBehind(got[k])
=============================================================================
