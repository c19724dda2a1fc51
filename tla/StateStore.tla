----------------------------- MODULE StateStore ------------------------------
(***************************************************************************)
(* The stores of a context: state_store, which owns one type-erased object *)
(* per key, link_store, which keeps small values and none that is a        *)
(* default, and the scopes scoped_state and scoped_link that undo what     *)
(* they did when they are closed, innermost first.                         *)
(*                                                                         *)
(* An object is the address allocate_state() gave it.  The calls that own  *)
(* an object for a while and may throw are split at the points where they  *)
(* may; all other calls are one step.                                      *)
(***************************************************************************)
EXTENDS Naturals, Sequences

CONSTANTS
  Keys,     \* the uuids of keys
  Objects,  \* addresses of states
  Values,   \* link values
  Default,  \* T{}
  Null,     \* nullptr
  MaxOpen   \* bound on the scopes that are open

ASSUME StoreAssumption ==
  /\ Default \in Values /\ Null \notin Objects
  /\ MaxOpen \in Nat

VARIABLES
  pc,      \* where the call is: "idle", "allocate", "construct", "insert",
           \* "terminated"
  call,    \* the key being emplaced, and whether a scoped_state asked for it
  temp,    \* the unique_erased_state_ptr not yet in the store
  raw,     \* memory that was allocated and holds no state yet
  live,    \* the states that exist
  store,   \* mImpl of the state_store: a pointer for each of its keys
  links,   \* mImpl of the link_store: a value for each of its keys
  scopes,  \* the open scopes, the innermost last
  held     \* the pointers the callers got: pairs of a key and an object

vars == <<pc, call, temp, raw, live, store, links, scopes, held>>

NoCall == [key |-> Null, scoped |-> FALSE]

(* f with x at key k, or without k                                         *)
With(f, k, x) == [j \in DOMAIN f \union {k} |-> IF j = k THEN x ELSE f[j]]
Without(f, k) == [j \in DOMAIN f \ {k} |-> f[j]]

(* A scope and what it found: mPreviousValue of a scoped_link, whether the *)
(* key had a state (that is, ~owned) of a scoped_state                     *)
Scope(kind, k, found) == [kind |-> kind, key |-> k, found |-> found]

Innermost == scopes[Len(scopes)]
Outer == SubSeq(scopes, 1, Len(scopes) - 1)

Init ==
  /\ pc = "idle" /\ call = NoCall /\ temp = Null /\ raw = {} /\ live = {}
  /\ store = <<>> /\ links = <<>> /\ scopes = <<>> /\ held = {}

-----------------------------------------------------------------------------
(* unique_erased_state_ptr                                                 *)

(* Mutant of Move: the pointer that was moved from still owns the state.   *)
MoveKept(p) == [to |-> p, from |-> p]

(* The move constructor                                                    *)
Move(p) == [to |-> p, from |-> Null]

(* The states that are destroyed with a set of pointers                    *)
Owned(ptrs) == ptrs \ {Null}

(* A new table: every pointer is moved and what it left is destroyed.      *)
Rehashed == [k \in DOMAIN store |-> Move(store[k]).to]
Abandoned == Owned({Move(store[k]).from : k \in DOMAIN store})

-----------------------------------------------------------------------------
(* state_store                                                             *)

(* A caller that erases a key gives up its pointers to it.                 *)
Drop(ks) == held' = {h \in held : h[1] \notin ks}

(* emplace: a key that is there already gets nothing new.                  *)
EmplaceFound(k, scoped) ==
  /\ pc = "idle" /\ k \in DOMAIN store
  /\ held' = held \union {<<k, store[k]>>}
  /\ scopes' = IF scoped THEN Append(scopes, Scope("state", k, TRUE)) ELSE scopes
  /\ UNCHANGED <<pc, call, temp, raw, live, store, links>>

EmplaceNew(k, scoped) ==
  /\ pc = "idle" /\ k \notin DOMAIN store
  /\ pc' = "allocate" /\ call' = [key |-> k, scoped |-> scoped]
  /\ UNCHANGED <<temp, raw, live, store, links, scopes, held>>

(* The call throws: a scoped_state was not constructed.                    *)
Throw == pc' = "idle" /\ call' = NoCall /\ UNCHANGED <<links, scopes, held>>

(* allocate_state: memory, or std::bad_alloc                               *)
Allocate ==
  /\ pc = "allocate"
  /\ \/ /\ \E o \in Objects \ (live \union raw) : raw' = raw \union {o}
        /\ pc' = "construct"
        /\ UNCHANGED <<call, links, scopes, held>>
     \/ Throw /\ UNCHANGED raw
  /\ UNCHANGED <<temp, live, store>>

(* Mutant of Construct: the memory is not returned if construction throws. *)
ConstructLeaks ==
  /\ pc = "construct"
  /\ \/ \E o \in raw :
          /\ raw' = raw \ {o} /\ live' = live \union {o} /\ temp' = o
          /\ pc' = "insert"
          /\ UNCHANGED <<call, links, scopes, held>>
     \/ Throw /\ UNCHANGED <<temp, live, raw>>
  /\ UNCHANGED store

(* allocate_state: the state is constructed, or its constructor throws.    *)
Construct ==
  /\ pc = "construct"
  /\ \/ \E o \in raw :
          /\ raw' = raw \ {o} /\ live' = live \union {o} /\ temp' = o
          /\ pc' = "insert"
          /\ UNCHANGED <<call, links, scopes, held>>
     \/ Throw /\ raw' = {} /\ UNCHANGED <<temp, live>>
  /\ UNCHANGED store

(* Mutant of Inserted: the pointer is stored after it was moved from.      *)
InsertedLate(table) ==
  LET k == call.key IN
  /\ store' = With(table, k, Move(temp).from)
  /\ held' = held \union {<<k, temp>>}
  /\ scopes' = IF call.scoped THEN Append(scopes, Scope("state", k, FALSE)) ELSE scopes
  /\ pc' = "idle" /\ call' = NoCall
  /\ UNCHANGED links

(* emplace: the pointer is moved to the table.                             *)
Inserted(table) ==
  LET k == call.key IN
  /\ store' = With(table, k, Move(temp).to)
  /\ held' = held \union {<<k, temp>>}
  /\ scopes' = IF call.scoped THEN Append(scopes, Scope("state", k, FALSE)) ELSE scopes
  /\ pc' = "idle" /\ call' = NoCall
  /\ UNCHANGED links

(* emplace_hint: into a free slot, or after the table has grown, or there  *)
(* is no memory for that and the pointer destroys its state.               *)
Insert ==
  /\ pc = "insert"
  /\ \/ Inserted(store) /\ live' = live \ Owned({Move(temp).from})
     \/ Inserted(Rehashed) /\ live' = live \ (Owned({Move(temp).from}) \union Abandoned)
     \/ Throw /\ live' = live \ Owned({temp}) /\ UNCHANGED store
  /\ temp' = Null
  /\ UNCHANGED raw

TryAccess(k) ==
  /\ pc = "idle" /\ k \in DOMAIN store
  /\ held' = held \union {<<k, store[k]>>}
  /\ UNCHANGED <<pc, call, temp, raw, live, store, links, scopes>>

(* reserve; that it may throw changes nothing.                             *)
Reserve ==
  /\ pc = "idle"
  /\ store' = Rehashed /\ live' = live \ Abandoned
  /\ UNCHANGED <<pc, call, temp, raw, links, scopes, held>>

Erased(k) ==
  /\ store' = Without(store, k)
  /\ live' = IF k \in DOMAIN store THEN live \ Owned({store[k]}) ELSE live
  /\ Drop({k})

Erase(k) ==
  /\ pc = "idle"
  /\ Erased(k)
  /\ UNCHANGED <<pc, call, temp, raw, links, scopes>>

Clear ==
  /\ pc = "idle"
  /\ store' = <<>> /\ live' = live \ Owned({store[k] : k \in DOMAIN store})
  /\ Drop(Keys)
  /\ UNCHANGED <<pc, call, temp, raw, links, scopes>>

-----------------------------------------------------------------------------
(* link_store                                                              *)

(* try_access                                                              *)
Link(k) == IF k \in DOMAIN links THEN links[k] ELSE Default

(* Mutant of Replaced: a default is stored like any other value.           *)
ReplacedAlways(k, v) == With(links, k, v)

(* replace: a default takes the key away.                                  *)
Replaced(k, v) == IF v = Default THEN Without(links, k) ELSE With(links, k, v)

(* What replace may have to allocate memory for                            *)
Grows(k, v) == k \notin DOMAIN links /\ v # Default

(* replace(); a std::bad_alloc leaves the store as it is, which is no step. *)
Replace(k, v) ==
  /\ pc = "idle"
  /\ links' = Replaced(k, v)
  /\ UNCHANGED <<pc, call, temp, raw, live, store, scopes, held>>

ClearLinks ==
  /\ pc = "idle"
  /\ links' = <<>>
  /\ UNCHANGED <<pc, call, temp, raw, live, store, scopes, held>>

-----------------------------------------------------------------------------
(* Scopes                                                                  *)

(* The constructor of scoped_link                                          *)
OpenLink(k, v) ==
  /\ pc = "idle" /\ Len(scopes) < MaxOpen
  /\ links' = Replaced(k, v)
  /\ scopes' = Append(scopes, Scope("link", k, Link(k)))
  /\ UNCHANGED <<pc, call, temp, raw, live, store, held>>

(* Its destructor puts the previous value back.  If that takes memory      *)
(* there is none of, the destructor, which is noexcept, terminates.        *)
CloseLink ==
  /\ pc = "idle" /\ scopes # <<>> /\ Innermost.kind = "link"
  /\ \/ /\ links' = Replaced(Innermost.key, Innermost.found)
        /\ scopes' = Outer
        /\ UNCHANGED pc
     \/ /\ Grows(Innermost.key, Innermost.found)
        /\ pc' = "terminated"
        /\ UNCHANGED <<links, scopes>>
  /\ UNCHANGED <<call, temp, raw, live, store, held>>

(* Mutant of CloseState: the state is erased whoever emplaced it.          *)
CloseStateAlways ==
  /\ pc = "idle" /\ scopes # <<>> /\ Innermost.kind = "state"
  /\ scopes' = Outer
  /\ Erased(Innermost.key)
  /\ UNCHANGED <<pc, call, temp, raw, links>>

(* The destructor of scoped_state erases the key if it was the one that    *)
(* emplaced it.                                                            *)
CloseState ==
  /\ pc = "idle" /\ scopes # <<>> /\ Innermost.kind = "state"
  /\ scopes' = Outer
  /\ IF Innermost.found THEN UNCHANGED <<live, store, held>> ELSE Erased(Innermost.key)
  /\ UNCHANGED <<pc, call, temp, raw, links>>

-----------------------------------------------------------------------------
Emplace(k, scoped) == EmplaceFound(k, scoped) \/ EmplaceNew(k, scoped)

OpenState(k) == Len(scopes) < MaxOpen /\ Emplace(k, TRUE)

Next ==
  \/ \E k \in Keys : Emplace(k, FALSE) \/ OpenState(k) \/ TryAccess(k) \/ Erase(k)
  \/ \E k \in Keys, v \in Values : Replace(k, v) \/ OpenLink(k, v)
  \/ Allocate \/ Construct \/ Insert \/ Reserve \/ Clear \/ ClearLinks
  \/ CloseLink \/ CloseState

Spec == Init /\ [][Next]_vars

-----------------------------------------------------------------------------
(* Properties                                                              *)

TypeOK ==
  /\ pc \in {"idle", "allocate", "construct", "insert", "terminated"}
  /\ call \in [key : Keys \union {Null}, scoped : BOOLEAN]
  /\ temp \in Objects \union {Null}
  /\ raw \subseteq Objects /\ live \subseteq Objects
  /\ DOMAIN store \subseteq Keys /\ \A k \in DOMAIN store : store[k] \in Objects
  /\ DOMAIN links \subseteq Keys /\ \A k \in DOMAIN links : links[k] \in Values
  /\ held \subseteq Keys \X Objects

(* Every state that exists is owned by exactly one pointer, every pointer  *)
(* owns a state that exists, and no other memory is kept: nothing leaks    *)
(* and nothing dangles, when a call throws at any point and when the table *)
(* grows.                                                                  *)
OneOwner ==
  /\ pc # "construct" => raw = {}
  /\ live = {store[k] : k \in DOMAIN store} \union Owned({temp})
  /\ \A j, k \in DOMAIN store : store[j] = store[k] => j = k
  /\ \A k \in DOMAIN store : store[k] # temp

(* A pointer to a state stays valid until its key is erased, however many  *)
(* keys come and go and however often the table grows in between.          *)
PointersStay ==
  \A h \in held : h[1] \in DOMAIN store /\ store[h[1]] = h[2] /\ h[2] \in live

(* The link store is empty exactly when every link is a default: scopes    *)
(* that were all closed leave no trace in it.                              *)
Canonical == \A k \in DOMAIN links : links[k] # Default

(* The stores and scopes implement dynamic binding: closing a scope        *)
(* restores the link it found and removes only a state it made, in spite   *)
(* of everything done to the key directly, and calls that throw do nothing. *)
Binding == INSTANCE Bindings WITH
  value <- [k \in Keys |-> Link(k)],
  present <- DOMAIN store,
  open <- scopes

ImplementsBindings == Binding!Spec
=============================================================================
