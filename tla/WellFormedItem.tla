--------------------------- MODULE WellFormedItem ---------------------------
(***************************************************************************)
(* What skip_item and copy_item_to are for: a reference definition of an   *)
(* encoded item as a recursive descent over the input, as RFC 8949 gives   *)
(* it, without the explicit stack of the code; and what the walks promise  *)
(* in its terms.                                                           *)
(***************************************************************************)
EXTENDS ItemWalk

Malformed == -1
Incomplete == 0
Failures == {Malformed, Incomplete}

(* What may be expected at a position: an item; n items; elements, or      *)
(* pairs of a key and a value, up to a break; the chunks of an indefinite  *)
(* string up to a break.                                                   *)
Goals == {"item", "items", "elements", "pairs", "binary", "text"}

(* <<goal, i, n>>: the goal is expected at position i of s; only "items"   *)
(* counts with n.                                                          *)
Expectations(s) == Goals \X (1 .. Len(s) + 1) \X Nat

(* n bytes from position i on                                              *)
BytesEnd(s, i, n) == IF i + n <= Len(s) + 1 THEN i + n ELSE Incomplete

(* What follows the head at position i is expected to end where f says.    *)
AfterHead(s, f, i) ==
  LET h == s[i] IN
  CASE IsBreak(h) -> Malformed
    [] ~IsBreak(h) /\ h.type \in {"posint", "negint", "special"} -> i + 1
    [] h.type \in {"binary", "text"} ->
         IF h.ind THEN f[<<h.type, i + 1, 0>>] ELSE BytesEnd(s, i + 1, h.value)
    [] h.type = "array" ->
         IF h.ind THEN f[<<"elements", i + 1, 0>>] ELSE f[<<"items", i + 1, h.value>>]
    [] h.type = "map" ->
         IF h.ind THEN f[<<"pairs", i + 1, 0>>] ELSE f[<<"items", i + 1, 2 * h.value>>]
    [] h.type = "tag" -> f[<<"item", i + 1, 0>>]
    [] h.type \in {"byte", "torn"} -> Malformed

(* e, or what f says of the goal at e if that is a position                *)
Then(f, e, goal, n) == IF e \in Failures THEN e ELSE f[<<goal, e, n>>]

(* The position behind what x expects, or Incomplete if s ends before it,  *)
(* or Malformed, in terms of the same of smaller parts of s.               *)
Descend(s, f, x) ==
  LET goal == x[1]
      i    == x[2]
      n    == x[3]
  IN
  IF goal = "items"
  THEN IF n = 0 THEN i ELSE Then(f, f[<<"item", i, 0>>], "items", n - 1)
  ELSE IF i > Len(s) THEN Incomplete
  ELSE IF goal = "item" THEN AfterHead(s, f, i)
  ELSE IF IsBreak(s[i]) THEN i + 1
  ELSE IF goal \in {"elements", "pairs"}
  THEN Then(f, f[<<"items", i, IF goal = "pairs" THEN 2 ELSE 1>>], goal, 0)
  ELSE IF s[i].type # goal \/ s[i].ind THEN Malformed
  ELSE Then(f, BytesEnd(s, i + 1, s[i].value), goal, 0)

(* The recursion ends: an item is at least one unit long, and a goal that  *)
(* is expected at the position of another is the simpler one.              *)
Ends(s) == LET f[x \in Expectations(s)] == Descend(s, f, x) IN f

ItemEnd(s) == Ends(s)[<<"item", 1, 0>>]

(* skip_item and copy_item_to succeed exactly at the end of a well formed  *)
(* item: not before, not beyond, and on nothing else.                      *)
EndsAtItemEnd ==
  IF pc = "done" /\ rx = "ok" THEN ItemEnd(consumed) = Len(consumed) + 1
  ELSE ItemEnd(consumed) \in Failures \union {Len(consumed) + 1}

(* An item is refused only if no continuation of the input makes it well   *)
(* formed, and a walk that wants more input is within a well formed item,  *)
(* or at its end if the stream failed when it had given the last byte.     *)
RefusesOnlyMalformed ==
  (pc = "done" /\ mode = "skip") =>
    CASE rx \in {"item_type_mismatch", "invalid_indefinite_subitem"} ->
           ItemEnd(consumed) = Malformed
      [] rx = "end_of_stream" -> ItemEnd(consumed) = Incomplete
      [] rx = "input" -> ItemEnd(consumed) \in {Incomplete, Len(consumed) + 1}
      [] OTHER -> TRUE
=============================================================================
