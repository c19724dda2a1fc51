-------------------------- MODULE StateStoreProofs ---------------------------
(***************************************************************************)
(* Proofs about StateStore, for every set of keys, objects and values and  *)
(* any number of open scopes.                                              *)
(***************************************************************************)
EXTENDS StateStore, TLAPS

(* What each kind of scope has found                                       *)
LinkScopes == [kind : {"link"}, key : Keys, found : Values]
StateScopes == [kind : {"state"}, key : Keys, found : BOOLEAN]

ScopesOK == scopes \in Seq(LinkScopes \union StateScopes)

(* A call that emplaces a key has not found it, and nothing can have put   *)
(* it there since; it owns a state only while it inserts.                  *)
CallOK ==
  /\ pc \in {"allocate", "construct", "insert"} => call.key \in Keys \ DOMAIN store
  /\ temp # Null <=> pc = "insert"
  /\ raw \intersect live = {} /\ \A p, q \in raw : p = q

Inv == TypeOK /\ ScopesOK /\ CallOK /\ OneOwner /\ PointersStay /\ Canonical

-----------------------------------------------------------------------------
(* The tables                                                              *)

LEMMA WithoutFacts ==
  ASSUME NEW f, NEW k
  PROVE  /\ DOMAIN Without(f, k) = DOMAIN f \ {k}
         /\ \A j \in DOMAIN f \ {k} : Without(f, k)[j] = f[j]
BY DEF Without

LEMMA EmptyFacts == DOMAIN (<<>>) = {}
OBVIOUS

(* A rehash moves every pointer, and what it leaves owns nothing.          *)
LEMMA RehashFacts ==
  /\ DOMAIN Rehashed = DOMAIN store
  /\ \A k \in DOMAIN store : Rehashed[k] = store[k]
  /\ Abandoned = {}
BY DEF Rehashed, Abandoned, Owned, Move

LEMMA InitInv == Init => Inv
<1> SUFFICES ASSUME Init PROVE Inv
  OBVIOUS
<1> USE EmptyFacts, StoreAssumption DEF Init
<1>1. TypeOK
  BY DEF TypeOK, NoCall
<1>2. ScopesOK /\ CallOK
  BY DEF ScopesOK, CallOK
<1>3. OneOwner
  BY DEF OneOwner, Owned
<1> QED
  BY <1>1, <1>2, <1>3 DEF Inv, PointersStay, Canonical

-----------------------------------------------------------------------------
(* state_store                                                             *)

(* What no step of a call does to the scopes                               *)
LEMMA PushScope ==
  ASSUME ScopesOK, NEW s \in LinkScopes \union StateScopes,
         scopes' = Append(scopes, s)
  PROVE  ScopesOK'
BY DEF ScopesOK

LEMMA PopScope ==
  ASSUME ScopesOK, scopes # <<>>
  PROVE  /\ Innermost \in LinkScopes \union StateScopes
         /\ scopes' = Outer => ScopesOK'
<1>1. /\ Len(scopes) \in Nat /\ Len(scopes) > 0
      /\ scopes[Len(scopes)] \in LinkScopes \union StateScopes
  BY DEF ScopesOK
<1>2. SubSeq(scopes, 1, Len(scopes) - 1) \in Seq(LinkScopes \union StateScopes)
  BY <1>1 DEF ScopesOK
<1> QED
  BY <1>1, <1>2 DEF Innermost, Outer, ScopesOK

(* An emplace that finds its key, and try_access                           *)
LEMMA FoundInv ==
  ASSUME Inv, NEW k \in DOMAIN store, pc = "idle",
         held' = held \union {<<k, store[k]>>},
         UNCHANGED <<pc, call, temp, raw, live, store, links>>,
         ScopesOK'
  PROVE  Inv'
<1>1. store[k] \in Objects /\ k \in Keys /\ store[k] \in live
  BY DEF Inv, TypeOK, OneOwner
<1>2. TypeOK' /\ CallOK'
  BY <1>1 DEF Inv, TypeOK, CallOK
<1>3. OneOwner' /\ Canonical'
  BY DEF Inv, OneOwner, Canonical
<1>4. PointersStay'
  BY <1>1 DEF Inv, PointersStay
<1> QED
  BY <1>2, <1>3, <1>4 DEF Inv

LEMMA EmplaceFoundInv ==
  ASSUME Inv, NEW k \in Keys, NEW scoped \in BOOLEAN, EmplaceFound(k, scoped)
  PROVE  Inv'
<1>1. Scope("state", k, TRUE) \in StateScopes
  BY DEF Scope, StateScopes
<1>2. ScopesOK'
  BY <1>1, PushScope DEF EmplaceFound, Inv, ScopesOK
<1> QED
  BY <1>2, FoundInv DEF EmplaceFound

LEMMA TryAccessInv ==
  ASSUME Inv, NEW k \in Keys, TryAccess(k)
  PROVE  Inv'
<1>1. ScopesOK'
  BY DEF TryAccess, Inv, ScopesOK
<1> QED
  BY <1>1, FoundInv DEF TryAccess

LEMMA EmplaceNewInv ==
  ASSUME Inv, NEW k \in Keys, NEW scoped \in BOOLEAN, EmplaceNew(k, scoped)
  PROVE  Inv'
<1> USE DEF EmplaceNew
<1>1. TypeOK' /\ ScopesOK' /\ CallOK'
  BY DEF Inv, TypeOK, ScopesOK, CallOK
<1>2. OneOwner' /\ PointersStay' /\ Canonical'
  BY DEF Inv, OneOwner, PointersStay, Canonical
<1> QED
  BY <1>1, <1>2 DEF Inv

LEMMA AllocateInv == ASSUME Inv, Allocate PROVE Inv'
<1>1. raw = {} /\ UNCHANGED <<temp, live, store>>
  BY DEF Allocate, Inv, OneOwner
<1>2. CASE Throw /\ UNCHANGED raw
  <2>1. TypeOK' /\ ScopesOK' /\ CallOK'
    BY <1>1, <1>2 DEF Allocate, Throw, Inv, TypeOK, ScopesOK, CallOK, NoCall
  <2>2. OneOwner' /\ PointersStay' /\ Canonical'
    BY <1>1, <1>2 DEF Throw, Inv, OneOwner, PointersStay, Canonical
  <2> QED
    BY <2>1, <2>2 DEF Inv
<1>3. ASSUME NEW o \in Objects \ (live \union raw),
             raw' = raw \union {o}, pc' = "construct",
             UNCHANGED <<call, links, scopes, held>>
      PROVE  Inv'
  <2>1. TypeOK' /\ ScopesOK' /\ CallOK'
    BY <1>1, <1>3 DEF Allocate, Inv, TypeOK, ScopesOK, CallOK
  <2>2. OneOwner' /\ PointersStay' /\ Canonical'
    BY <1>1, <1>3 DEF Inv, OneOwner, PointersStay, Canonical
  <2> QED
    BY <2>1, <2>2 DEF Inv
<1> QED
  BY <1>2, <1>3 DEF Allocate

(* The state that is constructed is owned by the temporary alone, for the  *)
(* memory it is in was nobody's.                                           *)
LEMMA ConstructInv == ASSUME Inv, Construct PROVE Inv'
<1>1. CASE Throw /\ raw' = {} /\ UNCHANGED <<temp, live, store>>
  <2>1. TypeOK' /\ ScopesOK' /\ CallOK'
    BY <1>1 DEF Construct, Throw, Inv, TypeOK, ScopesOK, CallOK, NoCall
  <2>2. OneOwner' /\ PointersStay' /\ Canonical'
    BY <1>1 DEF Construct, Throw, Inv, OneOwner, PointersStay, Canonical
  <2> QED
    BY <2>1, <2>2 DEF Inv
<1>2. ASSUME NEW o \in raw,
             raw' = raw \ {o}, live' = live \union {o}, temp' = o, pc' = "insert",
             UNCHANGED <<call, links, scopes, held, store>>
      PROVE  Inv'
  <2>1. raw = {o} /\ o \in Objects /\ o # Null /\ o \notin live /\ temp = Null
    BY <1>2, StoreAssumption DEF Construct, Inv, TypeOK, CallOK
  <2>2. TypeOK' /\ ScopesOK' /\ CallOK'
    BY <1>2, <2>1 DEF Construct, Inv, TypeOK, ScopesOK, CallOK
  <2>3. OneOwner'
    BY <1>2, <2>1 DEF Inv, OneOwner, Owned
  <2>4. PointersStay' /\ Canonical'
    BY <1>2, <2>1 DEF Inv, PointersStay, Canonical
  <2> QED
    BY <2>2, <2>3, <2>4 DEF Inv
<1> QED
  BY <1>1, <1>2 DEF Construct

(* The pointer goes from the temporary to the table.                       *)
LEMMA InsertedInv ==
  ASSUME Inv, pc = "insert", NEW table,
         DOMAIN table = DOMAIN store, \A k \in DOMAIN store : table[k] = store[k],
         Inserted(table), live' = live, temp' = Null, raw' = raw
  PROVE  Inv'
<1> DEFINE key == call.key
<1>1. /\ key \in Keys /\ key \notin DOMAIN store
      /\ temp \in Objects /\ temp # Null /\ temp \in live
      /\ \A k \in DOMAIN store : store[k] # temp
  BY DEF Inv, TypeOK, CallOK, OneOwner, Owned
<1>2. store' = With(table, key, temp)
  BY DEF Inserted, Move
<1>3. /\ DOMAIN store' = DOMAIN store \union {key}
      /\ store'[key] = temp
      /\ \A k \in DOMAIN store : store'[k] = store[k]
  BY <1>1, <1>2 DEF With
<1>4. /\ pc' = "idle" /\ call' = NoCall /\ links' = links
      /\ held' = held \union {<<key, temp>>}
  BY DEF Inserted
<1>5. TypeOK'
  BY <1>1, <1>3, <1>4 DEF Inv, TypeOK, NoCall
<1>6. ScopesOK'
  <2>1. Scope("state", key, FALSE) \in StateScopes
    BY <1>1 DEF Scope, StateScopes
  <2> QED
    BY <2>1, PushScope DEF Inserted, Inv, ScopesOK
<1>7. CallOK'
  BY <1>4 DEF Inv, CallOK
<1>8. OneOwner'
  <2>1. live' = {store'[k] : k \in DOMAIN store'} \union Owned({temp'})
    BY <1>1, <1>3 DEF Inv, OneOwner, Owned
  <2>2. \A j, k \in DOMAIN store' : store'[j] = store'[k] => j = k
    BY <1>1, <1>3 DEF Inv, OneOwner
  <2>3. \A k \in DOMAIN store' : store'[k] # temp'
    BY <1>5, StoreAssumption DEF TypeOK
  <2> QED
    BY <2>1, <2>2, <2>3 DEF Inv, OneOwner
<1>9. PointersStay'
  BY <1>1, <1>3, <1>4 DEF Inv, PointersStay
<1>10. Canonical'
  BY <1>4 DEF Inv, Canonical
<1> QED
  BY <1>5, <1>6, <1>7, <1>8, <1>9, <1>10 DEF Inv

LEMMA InsertInv == ASSUME Inv, Insert PROVE Inv'
<1>1. pc = "insert" /\ temp' = Null /\ raw' = raw /\ Owned({Move(temp).from}) = {}
  BY DEF Insert, Owned, Move
<1>2. CASE Inserted(store) /\ live' = live \ Owned({Move(temp).from})
  BY <1>1, <1>2, InsertedInv
<1>3. CASE Inserted(Rehashed) /\ live' = live \ (Owned({Move(temp).from}) \union Abandoned)
  <2>1. live' = live
    BY <1>1, <1>3, RehashFacts
  <2> QED
    BY <1>1, <1>3, <2>1, RehashFacts, InsertedInv
<1>4. CASE Throw /\ live' = live \ Owned({temp}) /\ UNCHANGED store
  <2>1. temp \in Objects /\ temp # Null /\ Owned({temp}) = {temp} /\ Owned({Null}) = {}
    BY <1>1 DEF Inv, TypeOK, CallOK, Owned
  <2>2. TypeOK' /\ ScopesOK' /\ CallOK'
    BY <1>1, <1>4, <2>1 DEF Throw, Inv, TypeOK, ScopesOK, CallOK, NoCall
  <2>3. OneOwner'
    <3>1. live' = {store[k] : k \in DOMAIN store}
      BY <1>4, <2>1 DEF Inv, OneOwner
    <3>2. \A k \in DOMAIN store : store[k] # Null
      BY StoreAssumption DEF Inv, TypeOK
    <3> QED
      BY <1>1, <1>4, <2>1, <3>1, <3>2 DEF Throw, Inv, OneOwner
  <2>4. PointersStay' /\ Canonical'
    BY <1>4, <2>1 DEF Throw, Inv, PointersStay, OneOwner, Canonical
  <2> QED
    BY <2>2, <2>3, <2>4 DEF Inv
<1> QED
  BY <1>2, <1>3, <1>4 DEF Insert

LEMMA ReserveInv == ASSUME Inv, Reserve PROVE Inv'
<1>1. /\ DOMAIN store' = DOMAIN store /\ live' = live
      /\ \A k \in DOMAIN store : store'[k] = store[k]
      /\ UNCHANGED <<pc, call, temp, raw, links, scopes, held>>
  BY RehashFacts DEF Reserve
<1>2. TypeOK' /\ ScopesOK' /\ CallOK'
  BY <1>1 DEF Inv, TypeOK, ScopesOK, CallOK
<1>3. OneOwner'
  <2>1. {store'[k] : k \in DOMAIN store'} = {store[k] : k \in DOMAIN store}
    BY <1>1
  <2> QED
    BY <1>1, <2>1 DEF Inv, OneOwner
<1>4. PointersStay' /\ Canonical'
  BY <1>1 DEF Inv, PointersStay, Canonical
<1> QED
  BY <1>2, <1>3, <1>4 DEF Inv

(* Erasing a key destroys its state and no other.                          *)
LEMMA ErasedInv ==
  ASSUME Inv, NEW k \in Keys, pc = "idle", Erased(k), ScopesOK',
         UNCHANGED <<pc, call, temp, raw, links>>
  PROVE  Inv'
<1>1. /\ DOMAIN store' = DOMAIN store \ {k}
      /\ \A j \in DOMAIN store \ {k} : store'[j] = store[j]
      /\ held' = {h \in held : h[1] # k}
  BY WithoutFacts DEF Erased, Drop
<1>2. temp = Null /\ Owned({temp}) = {} /\ live = {store[j] : j \in DOMAIN store}
  BY DEF Inv, CallOK, OneOwner, Owned
<1>3. \A j \in DOMAIN store : Owned({store[j]}) = {store[j]}
  BY StoreAssumption DEF Inv, TypeOK, Owned
<1>4. live' = {store[j] : j \in DOMAIN store \ {k}}
  BY <1>2, <1>3 DEF Erased, Inv, OneOwner
<1>5. TypeOK'
  <2>1. live' \subseteq live
    BY <1>2, <1>4
  <2> QED
    BY <1>1, <2>1 DEF Inv, TypeOK
<1>6. CallOK'
  BY <1>2, <1>4 DEF Inv, CallOK
<1>7. OneOwner'
  <2>1. live' = {store'[j] : j \in DOMAIN store'}
    BY <1>1, <1>4
  <2> QED
    BY <1>1, <1>2, <2>1 DEF Inv, OneOwner
<1>8. PointersStay' /\ Canonical'
  BY <1>1, <1>4 DEF Inv, PointersStay, Canonical
<1> QED
  BY <1>5, <1>6, <1>7, <1>8 DEF Inv

LEMMA EraseInv == ASSUME Inv, NEW k \in Keys, Erase(k) PROVE Inv'
<1>1. ScopesOK'
  BY DEF Erase, Inv, ScopesOK
<1> QED
  BY <1>1, ErasedInv DEF Erase

LEMMA ClearInv == ASSUME Inv, Clear PROVE Inv'
<1>1. /\ pc = "idle" /\ store' = <<>> /\ DOMAIN store' = {} /\ temp = Null
      /\ UNCHANGED <<pc, call, temp, raw, links, scopes>>
  BY EmptyFacts DEF Clear, Inv, CallOK
<1>2. live' = {}
  BY <1>1, StoreAssumption DEF Clear, Inv, TypeOK, OneOwner, Owned
<1>3. held' = {}
  BY DEF Clear, Drop, Inv, TypeOK
<1>4. TypeOK' /\ ScopesOK' /\ CallOK'
  BY <1>1, <1>2, <1>3 DEF Inv, TypeOK, ScopesOK, CallOK
<1>5. OneOwner' /\ PointersStay' /\ Canonical'
  BY <1>1, <1>2, <1>3 DEF Inv, OneOwner, Owned, PointersStay, Canonical
<1> QED
  BY <1>4, <1>5 DEF Inv

-----------------------------------------------------------------------------
(* link_store and the scopes                                               *)

(* After replace(k, v), try_access answers v for k and what it answered    *)
(* before for every other key; no default is stored.                       *)
LEMMA ReplacedFacts ==
  ASSUME Inv, NEW k \in Keys, NEW v \in Values, links' = Replaced(k, v)
  PROVE  /\ DOMAIN links' \subseteq Keys
         /\ \A j \in DOMAIN links' : links'[j] \in Values /\ links'[j] # Default
         /\ \A j \in Keys : Link(j)' = IF j = k THEN v ELSE Link(j)
<1>1. /\ DOMAIN links \subseteq Keys
      /\ \A j \in DOMAIN links : links[j] \in Values /\ links[j] # Default
  BY DEF Inv, TypeOK, Canonical
<1>2. CASE v = Default
  <2>1. /\ DOMAIN links' = DOMAIN links \ {k}
        /\ \A j \in DOMAIN links \ {k} : links'[j] = links[j]
    BY <1>2 DEF Replaced, Without
  <2> QED
    BY <1>1, <1>2, <2>1 DEF Link
<1>3. CASE v # Default
  <2>1. /\ DOMAIN links' = DOMAIN links \union {k}
        /\ links'[k] = v
        /\ \A j \in DOMAIN links \ {k} : links'[j] = links[j]
    BY <1>3 DEF Replaced, With
  <2> QED
    BY <1>1, <1>3, <2>1 DEF Link
<1> QED
  BY <1>2, <1>3

LEMMA LinkType == ASSUME Inv, NEW k \in Keys PROVE Link(k) \in Values
BY StoreAssumption DEF Inv, TypeOK, Link

(* A step that changes links and scopes only                               *)
LEMMA LinkStepInv ==
  ASSUME Inv, pc = "idle", pc' \in {"idle", "terminated"},
         UNCHANGED <<call, temp, raw, live, store, held>>,
         DOMAIN links' \subseteq Keys,
         \A j \in DOMAIN links' : links'[j] \in Values /\ links'[j] # Default,
         ScopesOK'
  PROVE  Inv'
<1>1. TypeOK' /\ CallOK' /\ Canonical'
  BY DEF Inv, TypeOK, CallOK, Canonical
<1>2. OneOwner' /\ PointersStay'
  BY DEF Inv, OneOwner, PointersStay
<1> QED
  BY <1>1, <1>2 DEF Inv

LEMMA ReplaceInv ==
  ASSUME Inv, NEW k \in Keys, NEW v \in Values, Replace(k, v) PROVE Inv'
<1>1. ScopesOK'
  BY DEF Replace, Inv, ScopesOK
<1> QED
  BY <1>1, ReplacedFacts, LinkStepInv DEF Replace

LEMMA ClearLinksInv == ASSUME Inv, ClearLinks PROVE Inv'
<1>1. ScopesOK' /\ DOMAIN links' = {}
  BY EmptyFacts DEF ClearLinks, Inv, ScopesOK
<1> QED
  BY <1>1, LinkStepInv DEF ClearLinks

LEMMA OpenLinkInv ==
  ASSUME Inv, NEW k \in Keys, NEW v \in Values, OpenLink(k, v) PROVE Inv'
<1>1. Scope("link", k, Link(k)) \in LinkScopes
  BY LinkType DEF Scope, LinkScopes
<1>2. ScopesOK'
  BY <1>1, PushScope DEF OpenLink, Inv
<1> QED
  BY <1>2, ReplacedFacts, LinkStepInv DEF OpenLink

LEMMA CloseLinkInv == ASSUME Inv, CloseLink PROVE Inv'
<1>1. Innermost \in LinkScopes /\ (scopes' = Outer => ScopesOK')
  BY PopScope DEF CloseLink, Inv, LinkScopes, StateScopes
<1>2. Innermost.key \in Keys /\ Innermost.found \in Values
  BY <1>1 DEF LinkScopes
<1>3. CASE /\ links' = Replaced(Innermost.key, Innermost.found)
           /\ scopes' = Outer
           /\ UNCHANGED pc
  BY <1>1, <1>2, <1>3, ReplacedFacts, LinkStepInv DEF CloseLink
<1>4. CASE pc' = "terminated" /\ UNCHANGED <<links, scopes>>
  <2>1. ScopesOK'
    BY <1>4 DEF Inv, ScopesOK
  <2>2. /\ DOMAIN links' \subseteq Keys
        /\ \A j \in DOMAIN links' : links'[j] \in Values /\ links'[j] # Default
    BY <1>4 DEF Inv, TypeOK, Canonical
  <2> QED
    BY <1>4, <2>1, <2>2, LinkStepInv DEF CloseLink
<1> QED
  BY <1>3, <1>4 DEF CloseLink

LEMMA CloseStateInv == ASSUME Inv, CloseState PROVE Inv'
<1>1. Innermost \in StateScopes /\ ScopesOK'
  BY PopScope DEF CloseState, Inv, LinkScopes, StateScopes
<1>2. CASE Innermost.found
  <2>1. TypeOK' /\ CallOK' /\ Canonical'
    BY <1>2 DEF CloseState, Inv, TypeOK, CallOK, Canonical
  <2>2. OneOwner' /\ PointersStay'
    BY <1>2 DEF CloseState, Inv, OneOwner, PointersStay
  <2> QED
    BY <1>1, <2>1, <2>2 DEF Inv
<1>3. CASE ~Innermost.found
  <2>1. Innermost.key \in Keys
    BY <1>1 DEF StateScopes
  <2> QED
    BY <1>1, <1>3, <2>1, ErasedInv DEF CloseState
<1> QED
  BY <1>2, <1>3

-----------------------------------------------------------------------------
LEMMA NextInv == Inv /\ [Next]_vars => Inv'
<1> SUFFICES ASSUME Inv, [Next]_vars PROVE Inv'
  OBVIOUS
<1>1. ASSUME NEW k \in Keys, NEW scoped \in BOOLEAN, Emplace(k, scoped) PROVE Inv'
  BY <1>1, EmplaceFoundInv, EmplaceNewInv DEF Emplace
<1>2. ASSUME NEW k \in Keys,
             Emplace(k, FALSE) \/ OpenState(k) \/ TryAccess(k) \/ Erase(k)
      PROVE  Inv'
  BY <1>1, <1>2, TryAccessInv, EraseInv DEF OpenState
<1>3. ASSUME NEW k \in Keys, NEW v \in Values, Replace(k, v) \/ OpenLink(k, v)
      PROVE  Inv'
  BY <1>3, ReplaceInv, OpenLinkInv
<1>4. CASE Allocate \/ Construct \/ Insert \/ Reserve \/ Clear \/ ClearLinks
  BY <1>4, AllocateInv, ConstructInv, InsertInv, ReserveInv, ClearInv, ClearLinksInv
<1>5. CASE CloseLink \/ CloseState
  BY <1>5, CloseLinkInv, CloseStateInv
<1>6. CASE UNCHANGED vars
  <2>1. TypeOK' /\ ScopesOK' /\ CallOK'
    BY <1>6 DEF vars, Inv, TypeOK, ScopesOK, CallOK
  <2>2. OneOwner' /\ PointersStay' /\ Canonical'
    BY <1>6 DEF vars, Inv, OneOwner, PointersStay, Canonical
  <2> QED
    BY <2>1, <2>2 DEF Inv
<1> QED
  BY <1>2, <1>3, <1>4, <1>5, <1>6 DEF Next

LEMMA AlwaysInv == Spec => []Inv
BY InitInv, NextInv, PTL DEF Spec

(* The stores hold pointers of states, values and scopes only.             *)
THEOREM TypeCorrect == Spec => []TypeOK
<1>1. Inv => TypeOK
  BY DEF Inv
<1> QED
  BY <1>1, AlwaysInv, PTL

(* No state leaks, dangles or is owned twice, whatever throws wherever.    *)
THEOREM StatesHaveOneOwner == Spec => []OneOwner
<1>1. Inv => OneOwner
  BY DEF Inv
<1> QED
  BY <1>1, AlwaysInv, PTL

(* A pointer to a state is good until its key is erased.                   *)
THEOREM PointersStayValid == Spec => []PointersStay
<1>1. Inv => PointersStay
  BY DEF Inv
<1> QED
  BY <1>1, AlwaysInv, PTL

(* The link store never holds a default.                                   *)
THEOREM LinksAreCanonical == Spec => []Canonical
<1>1. Inv => Canonical
  BY DEF Inv
<1> QED
  BY <1>1, AlwaysInv, PTL

-----------------------------------------------------------------------------
(* The refinement: which step of Bindings each step of StateStore is       *)

Bound == [k \in Keys |-> Link(k)]

LEMMA BindingInit == Init => Binding!Init
<1> SUFFICES ASSUME Init PROVE Binding!Init
  OBVIOUS
<1>1. DOMAIN links = {} /\ DOMAIN store = {} /\ scopes = <<>>
  BY EmptyFacts DEF Init
<1>2. \A k \in Keys : Link(k) = Default
  BY <1>1 DEF Link
<1> QED
  BY <1>1, <1>2 DEF Binding!Init

(* A step that leaves the links, the scopes and the keys of the store alone *)
LEMMA Silent ==
  ASSUME UNCHANGED <<links, scopes>>, DOMAIN store' = DOMAIN store
  PROVE  UNCHANGED Binding!vars
<1>1. Bound' = Bound
  BY DEF Bound, Link
<1> QED
  BY <1>1 DEF Binding!vars, Bound

(* A step that adds keys to the store or takes them away                   *)
LEMMA SetsStates ==
  ASSUME UNCHANGED <<links, scopes>>, NEW ks, DOMAIN store' = ks
  PROVE  Binding!SetStates(ks)
<1>1. Bound' = Bound
  BY DEF Bound, Link
<1> QED
  BY <1>1 DEF Binding!SetStates, Bound

LEMMA OpensState ==
  ASSUME NEW k \in Keys, UNCHANGED links,
         DOMAIN store' = DOMAIN store \union {k},
         scopes' = Append(scopes, Scope("state", k, k \in DOMAIN store))
  PROVE  Binding!OpenState(k)
<1>1. Bound' = Bound
  BY DEF Bound, Link
<1> QED
  BY <1>1 DEF Binding!OpenState, Binding!Scope, Scope, Bound

LEMMA EmplaceBinds ==
  ASSUME Inv, NEW k \in Keys, NEW scoped \in BOOLEAN, Emplace(k, scoped)
  PROVE  [Binding!Next]_(Binding!vars)
<1>1. CASE EmplaceFound(k, scoped)
  <2>1. CASE scoped
    <3>1. Binding!OpenState(k)
      <4>1. /\ k \in DOMAIN store /\ UNCHANGED <<links, store>>
            /\ scopes' = Append(scopes, Scope("state", k, TRUE))
        BY <1>1, <2>1 DEF EmplaceFound
      <4>2. (k \in DOMAIN store) = TRUE /\ DOMAIN store' = DOMAIN store \union {k}
        BY <4>1
      <4> QED
        BY <4>1, <4>2, OpensState
    <3> QED
      BY <3>1 DEF Binding!Next
  <2>2. CASE ~scoped
    BY <1>1, <2>2, Silent DEF EmplaceFound
  <2> QED
    BY <2>1, <2>2
<1>2. CASE EmplaceNew(k, scoped)
  BY <1>2, Silent DEF EmplaceNew
<1> QED
  BY <1>1, <1>2 DEF Emplace

LEMMA InsertBinds ==
  ASSUME Inv, Insert
  PROVE  [Binding!Next]_(Binding!vars)
<1> DEFINE key == call.key
<1>1. key \in Keys /\ key \notin DOMAIN store /\ call.scoped \in BOOLEAN
  BY DEF Insert, Inv, TypeOK, CallOK
<1>2. ASSUME NEW table, DOMAIN table = DOMAIN store, Inserted(table)
      PROVE  [Binding!Next]_(Binding!vars)
  <2>1. DOMAIN store' = DOMAIN store \union {key} /\ UNCHANGED links
    BY <1>2 DEF Inserted, With
  <2>2. CASE call.scoped
    <3>1. (key \in DOMAIN store) = FALSE
      BY <1>1
    <3>2. scopes' = Append(scopes, Scope("state", key, FALSE))
      BY <1>2, <2>2 DEF Inserted
    <3> QED
      BY <1>1, <2>1, <3>1, <3>2, OpensState DEF Binding!Next
  <2>3. CASE ~call.scoped
    <3>1. UNCHANGED scopes
      BY <1>2, <2>3 DEF Inserted
    <3> QED
      BY <1>1, <2>1, <3>1, SetsStates DEF Binding!Next
  <2> QED
    BY <1>1, <2>2, <2>3
<1>3. CASE Throw /\ UNCHANGED store
  BY <1>3, Silent DEF Throw
<1> QED
  BY <1>2, <1>3, RehashFacts DEF Insert

LEMMA EraseBinds ==
  ASSUME NEW k \in Keys, Erase(k)
  PROVE  [Binding!Next]_(Binding!vars)
<1>1. DOMAIN store' = DOMAIN store \ {k}
  BY DEF Erase, Erased, Without
<1> QED
  BY <1>1, SetsStates DEF Erase, Binding!Next

LEMMA ClearBinds ==
  ASSUME Clear
  PROVE  [Binding!Next]_(Binding!vars)
<1>1. DOMAIN store' = {}
  BY EmptyFacts DEF Clear
<1> QED
  BY <1>1, SetsStates DEF Clear, Binding!Next

(* What replace(k, v) does to the function of all links                    *)
LEMMA ReplacedBinds ==
  ASSUME Inv, NEW k \in Keys, NEW v \in Values, links' = Replaced(k, v)
  PROVE  Bound' = [Bound EXCEPT ![k] = v]
<1>1. \A j \in Keys : Link(j)' = IF j = k THEN v ELSE Link(j)
  BY ReplacedFacts
<1> QED
  BY <1>1 DEF Bound

LEMMA LinkBinds ==
  ASSUME Inv, NEW k \in Keys, NEW v \in Values, Replace(k, v) \/ OpenLink(k, v)
  PROVE  [Binding!Next]_(Binding!vars)
<1>1. Bound' = [Bound EXCEPT ![k] = v] /\ UNCHANGED store
  BY ReplacedBinds DEF Replace, OpenLink
<1>2. CASE Replace(k, v)
  BY <1>1, <1>2 DEF Replace, Binding!Next, Binding!SetLink, Bound
<1>3. CASE OpenLink(k, v)
  <2>1. Bound[k] = Link(k)
    BY DEF Bound
  <2>2. Binding!OpenLink(k, v)
    BY <1>1, <1>3, <2>1 DEF OpenLink, Binding!OpenLink, Binding!Scope, Scope, Bound
  <2> QED
    BY <2>2 DEF Binding!Next
<1> QED
  BY <1>2, <1>3

LEMMA ClearLinksBinds ==
  ASSUME ClearLinks
  PROVE  [Binding!Next]_(Binding!vars)
<1>1. \A k \in Keys : Link(k)' = Default
  BY EmptyFacts DEF ClearLinks, Link
<1>2. Binding!ClearLinks
  BY <1>1 DEF ClearLinks, Binding!ClearLinks
<1> QED
  BY <1>2 DEF Binding!Next

LEMMA CloseLinkBinds ==
  ASSUME Inv, CloseLink
  PROVE  [Binding!Next]_(Binding!vars)
<1>1. Innermost.key \in Keys /\ Innermost.found \in Values
  BY PopScope DEF CloseLink, Inv, LinkScopes, StateScopes
<1>2. CASE links' = Replaced(Innermost.key, Innermost.found) /\ scopes' = Outer
  <2>1. Bound' = [Bound EXCEPT ![Innermost.key] = Innermost.found]
    BY <1>1, <1>2, ReplacedBinds
  <2>2. Binding!CloseLink
    BY <1>2, <2>1 DEF CloseLink, Binding!CloseLink, Binding!Innermost, Binding!Outer,
                      Innermost, Outer, Bound
  <2> QED
    BY <2>2 DEF Binding!Next
<1>3. CASE UNCHANGED <<links, scopes>>
  BY <1>3, Silent DEF CloseLink
<1> QED
  BY <1>2, <1>3 DEF CloseLink

LEMMA CloseStateBinds ==
  ASSUME Inv, CloseState
  PROVE  [Binding!Next]_(Binding!vars)
<1>1. DOMAIN store' = IF Innermost.found THEN DOMAIN store
                      ELSE DOMAIN store \ {Innermost.key}
  BY DEF CloseState, Erased, Without
<1>2. Bound' = Bound
  BY DEF CloseState, Bound, Link
<1>3. Binding!CloseState
  BY <1>1, <1>2 DEF CloseState, Binding!CloseState, Binding!Innermost, Binding!Outer,
                    Innermost, Outer, Bound
<1> QED
  BY <1>3 DEF Binding!Next

LEMMA BindingNext == Inv /\ [Next]_vars => [Binding!Next]_(Binding!vars)
<1> SUFFICES ASSUME Inv, [Next]_vars PROVE [Binding!Next]_(Binding!vars)
  OBVIOUS
<1>1. ASSUME NEW k \in Keys,
             Emplace(k, FALSE) \/ OpenState(k) \/ TryAccess(k) \/ Erase(k)
      PROVE  [Binding!Next]_(Binding!vars)
  BY <1>1, EmplaceBinds, EraseBinds, Silent DEF OpenState, TryAccess
<1>2. ASSUME NEW k \in Keys, NEW v \in Values, Replace(k, v) \/ OpenLink(k, v)
      PROVE  [Binding!Next]_(Binding!vars)
  BY <1>2, LinkBinds
<1>3. CASE Allocate \/ Construct \/ Reserve
  BY <1>3, Silent, RehashFacts DEF Allocate, Construct, Reserve, Throw
<1>4. CASE Insert \/ Clear \/ ClearLinks \/ CloseLink \/ CloseState
  BY <1>4, InsertBinds, ClearBinds, ClearLinksBinds, CloseLinkBinds, CloseStateBinds
<1>5. CASE UNCHANGED vars
  BY <1>5, Silent DEF vars
<1> QED
  BY <1>1, <1>2, <1>3, <1>4, <1>5 DEF Next

(* The stores and their scopes implement dynamic binding.                  *)
THEOREM StoresAreBindings == Spec => ImplementsBindings
BY AlwaysInv, BindingInit, BindingNext, PTL DEF Spec, ImplementsBindings, Binding!Spec
=============================================================================
