--------------------------- MODULE MCLayoutCodec ----------------------------
(***************************************************************************)
(* Model checking of LayoutCodec: descriptors with and without optional    *)
(* properties and versions, and as inputs everything a map or an array of  *)
(* up to three entries may hold, well formed or cut short.                 *)
(***************************************************************************)
EXTENDS LayoutCodec, SequencesExt

Layout(k, ids, required, version) ==
  [kind |-> k, ids |-> ids, required |-> required, version |-> version]

MCLayouts ==
  {Layout("object", <<1, 2, 8>>, r, v) : r \in {{1, 3}, {1, 2, 3}}, v \in {7, NoVersion}}
    \union {Layout("object", <<2>>, {}, NoVersion)}
    \union {Layout("tuple", <<1, 2>>, {1, 2}, v) : v \in {7, NoVersion}}

Pair == {<<Token("posint", id), Token("value", x)>> : id \in {1, 2, 3, 8}, x \in {0, 1}}

Prefix ==
  {<<>>, <<Token("value", 0)>>}
    \union {<<Token("posint", 0), Token("posint", v)>> : v \in {6, 7, NoVersion}}

Maps ==
  {<<Token("map", n)>> \o p \o FlattenSeq(es) :
     n \in 0 .. 5, p \in Prefix, es \in BoundedSeq(Pair, 3)}

Arrays ==
  {<<Token("array", n)>> \o p \o es :
     n \in 0 .. 5, p \in {<<>>, <<Token("posint", 7)>>, <<Token("posint", 6)>>},
     es \in BoundedSeq({Token("value", 0), Token("value", 1)}, 3)}

(* As many entries as the property counter can hold, and one more          *)
Long ==
  {<<Token("map", n)>> \o FlattenSeq([k \in 1 .. n |-> <<Token("posint", 1), Token("value", 0)>>]) :
     n \in {4, 5}}
    \union {<<Token("array", n)>> \o [k \in 1 .. n |-> Token("value", 0)] : n \in {5, 6}}

MCInputs ==
  Maps \union Arrays \union Long
    \union {<<>>, <<[type |-> "map", ind |-> TRUE, value |-> 31]>>}

(* disappointment.hpp: required_object_property_missing, "the encoded      *)
(* object misses a required property": an object that does is not decoded. *)
NothingMissing ==
  (Succeeded /\ layout.kind = "object") =>
     \A k \in layout.required : EntriesOf(k) # {}
=============================================================================
