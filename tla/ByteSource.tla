----------------------------- MODULE ByteSource -----------------------------
(***************************************************************************)
(* What an input stream promises its callers, whatever buffers it keeps: a *)
(* call takes effect at one instant, when it returns.  require_input()     *)
(* consumes nothing, discard_input() and bulk_read() consume what they     *)
(* were asked to if they succeed and nothing if they report that the       *)
(* stream has ended; a call that failed for another reason may have        *)
(* consumed a part.                                                        *)
(***************************************************************************)
EXTENDS Naturals

CONSTANTS Size, Amounts

VARIABLES
  position,  \* bytes consumed by the calls that have returned
  call       \* the last call: which, how much was asked for, its outcome

vars == <<position, call>>

Init ==
  /\ position = 0
  /\ call = [op |-> "none", asked |-> 0, rx |-> "ok"]

Start(o, n) ==
  /\ call.rx # "running"
  /\ call' = [op |-> o, asked |-> n, rx |-> "running"]
  /\ UNCHANGED position

Consumed(o, n, r) ==
  CASE o = "require" \/ r = "end_of_stream" -> {0}
    [] o # "require" /\ r = "ok" -> {n}
    [] OTHER -> 0 .. n

(* A call returns; one that needs no more than the buffered bytes starts   *)
(* and returns in one step.                                                *)
Return(o, n, r) ==
  /\ call.rx = "running" => call = [op |-> o, asked |-> n, rx |-> "running"]
  /\ call' = [op |-> o, asked |-> n, rx |-> r]
  /\ \E k \in Consumed(o, n, r) :
       position + k <= Size /\ position' = position + k

Next ==
  \E o \in {"require", "discard", "bulk"}, n \in Amounts :
    \/ Start(o, n)
    \/ \E r \in {"ok", "supplier", "end_of_stream", "buffer_size_exceeded"} :
         Return(o, n, r)

Spec == Init /\ [][Next]_vars
=============================================================================
