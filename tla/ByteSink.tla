------------------------------ MODULE ByteSink ------------------------------
(***************************************************************************)
(* What an output stream promises its callers, whatever buffers it keeps:  *)
(* the bytes handed to it are numbered 0, 1, 2, ... in the order in which  *)
(* they are committed; the destination always holds an initial segment of  *)
(* them, which never shrinks; and a sync that reports success has moved    *)
(* every byte accepted so far into the destination.                        *)
(***************************************************************************)
EXTENDS Naturals

VARIABLES
  accepted,  \* number of bytes the caller has committed
  stored,    \* the bytes the destination holds
  synced     \* the last call was a sync_output() that reported success

vars == <<accepted, stored, synced>>

Init ==
  /\ accepted = 0
  /\ stored = {}
  /\ synced = FALSE

(* A write or a buffer switch: bytes may be accepted, and any part of what *)
(* has been accepted may reach the destination, in order.                  *)
Progress ==
  /\ accepted' \in Nat /\ accepted' >= accepted
  /\ stored \subseteq stored'
  /\ \E n \in 0 .. accepted' : stored' = 0 .. n - 1
  /\ synced' = FALSE

(* sync_output(): accepts nothing and leaves nothing behind.               *)
Sync ==
  /\ accepted' = accepted
  /\ stored' = 0 .. accepted - 1
  /\ synced' = TRUE

Next == Progress \/ Sync

Spec == Init /\ [][Next]_vars
=============================================================================
