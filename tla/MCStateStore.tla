---------------------------- MODULE MCStateStore -----------------------------
(***************************************************************************)
(* Model checking of StateStore: two keys, of which each can be bound in   *)
(* nested scopes, and one address more than there are keys.                *)
(***************************************************************************)
EXTENDS StateStore

CONSTANTS a, b, o1, o2, o3, v1, v2

MCKeys == {a, b}
MCObjects == {o1, o2, o3}
MCValues == {Default, v1, v2}
=============================================================================
