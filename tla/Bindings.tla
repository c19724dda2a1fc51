------------------------------ MODULE Bindings ------------------------------
(***************************************************************************)
(* What the scopes of a context promise: dynamic binding.  A key has a     *)
(* link value at any time, and a state or none; a scope that is opened     *)
(* changes one of them.  When it is closed, innermost first, the link is   *)
(* the one the scope found, whatever was done to it in between, and a      *)
(* state the scope found missing is missing again; one it found is left.   *)
(***************************************************************************)
EXTENDS Naturals, Sequences

CONSTANTS Keys, Values, Default

VARIABLES
  value,    \* each key's link
  present,  \* the keys that have a state
  open      \* the open scopes, with what each of them found

vars == <<value, present, open>>

Scope(kind, k, found) == [kind |-> kind, key |-> k, found |-> found]

Innermost == open[Len(open)]
Outer == SubSeq(open, 1, Len(open) - 1)

Init == value = [k \in Keys |-> Default] /\ present = {} /\ open = <<>>

OpenLink(k, v) ==
  /\ value' = [value EXCEPT ![k] = v]
  /\ open' = Append(open, Scope("link", k, value[k]))
  /\ UNCHANGED present

OpenState(k) ==
  /\ present' = present \union {k}
  /\ open' = Append(open, Scope("state", k, k \in present))
  /\ UNCHANGED value

CloseLink ==
  /\ open # <<>> /\ Innermost.kind = "link"
  /\ value' = [value EXCEPT ![Innermost.key] = Innermost.found]
  /\ open' = Outer
  /\ UNCHANGED present

CloseState ==
  /\ open # <<>> /\ Innermost.kind = "state"
  /\ present' = IF Innermost.found THEN present ELSE present \ {Innermost.key}
  /\ open' = Outer
  /\ UNCHANGED value

SetLink(k, v) == value' = [value EXCEPT ![k] = v] /\ UNCHANGED <<present, open>>

ClearLinks == value' = [k \in Keys |-> Default] /\ UNCHANGED <<present, open>>

SetStates(ks) == present' = ks /\ UNCHANGED <<value, open>>

Next ==
  \/ \E k \in Keys, v \in Values : OpenLink(k, v) \/ SetLink(k, v)
  \/ \E k \in Keys : OpenState(k) \/ SetStates(present \union {k}) \/ SetStates(present \ {k})
  \/ CloseLink \/ CloseState \/ ClearLinks \/ SetStates({})

Spec == Init /\ [][Next]_vars
=============================================================================
