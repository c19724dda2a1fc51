----------------------------- MODULE MCItemWalk -----------------------------
(***************************************************************************)
(* Model checking of ItemWalk against the reference of WellFormedItem:     *)
(* heads of every type, definite and indefinite, with counts on both sides *)
(* of the end of a container and of an odd and an even number of entries.  *)
(***************************************************************************)
EXTENDS WellFormedItem

Scalars == [type : {"posint"}, ind : {FALSE}, value : {0}, encoded_length : {1}]
Breaks == [type : {"special"}, ind : {TRUE}, value : {31}, encoded_length : {1}]
Strings ==
  [type : {"text"}, ind : {FALSE}, value : {0, 2}, encoded_length : {1}]
    \union [type : {"text"}, ind : {TRUE}, value : {31}, encoded_length : {1}]
    \union [type : {"binary"}, ind : {FALSE}, value : {1}, encoded_length : {1}]
Arrays ==
  [type : {"array"}, ind : {FALSE}, value : {0, 2}, encoded_length : {1}]
    \union [type : {"array"}, ind : {TRUE}, value : {31}, encoded_length : {1}]
Maps ==
  [type : {"map"}, ind : {FALSE}, value : {0, 1, 2}, encoded_length : {1}]
    \union [type : {"map"}, ind : {TRUE}, value : {31}, encoded_length : {1}]
Tags == [type : {"tag"}, ind : {FALSE}, value : {1}, encoded_length : {1}]

(* Chunks whose nine byte head and value add up to 2^64, or to one more    *)
Wrapping == [type : {"text"}, ind : {FALSE}, value : {Word - 9, Word - 8}, encoded_length : {9}]

MCHeads == Scalars \union Breaks \union Strings \union Arrays \union Maps \union Tags
WrappingHeads == Breaks \union Strings \union Arrays \union Wrapping
=============================================================================
