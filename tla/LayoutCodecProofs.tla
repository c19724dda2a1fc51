------------------------- MODULE LayoutCodecProofs --------------------------
(***************************************************************************)
(* Proofs about LayoutCodec, for every set of descriptors and of inputs,   *)
(* however many properties there are and however wide a bucket is.         *)
(***************************************************************************)
EXTENDS LayoutCodec, FiniteSetTheorems, TLAPS

(* The tokens of an entry of an object, or of a member of a tuple          *)
Tokens(n) == IF IsObject THEN 2 * n ELSE n

(* Entry n of the input is about property k.                               *)
IsEntry(n, k) == input[Entries + 2 * n] = Token("posint", layout.ids[k])

(* A member holds the value of the last entry about it.                    *)
Decoded(k) ==
  \/ dest[k] = Unset /\ \A n \in 0 .. i - 1 : ~IsEntry(n, k)
  \/ \E n \in 0 .. i - 1 : /\ IsEntry(n, k)
                           /\ dest[k] = input[Entries + 2 * n + 1].value
                           /\ \A m \in 0 .. i - 1 : IsEntry(m, k) => m <= n

(* The bits of found belong to properties that have an entry.              *)
Found(k) == Bit(k) \in found[Bucket(k)] => \E n \in 0 .. i - 1 : IsEntry(n, k)

(* What was checked before the entries are decoded                         *)
Checked ==
  /\ Versioned => input[Entries - 1] = Token("posint", layout.version)
  /\ at = Entries + Tokens(i)

Position ==
  /\ pc = "head" => at = 1 /\ count = 0
  /\ pc \in {"head", "version", "count"} => i = 0
  /\ pc = "version" => Versioned /\ at = 2 /\ count >= 1
  /\ pc \in {"version", "count", "property"} => at + Tokens(count - i) <= Len(input) + 1
  /\ pc \in {"count", "property"} => Checked
  /\ (pc = "property" /\ (~IsObject \/ ~HasOptional)) => count = Len(layout.ids)
  /\ Succeeded => /\ Checked /\ i = count
                  /\ (~IsObject \/ ~HasOptional) => count = Len(layout.ids)
                  /\ (IsObject /\ HasOptional) =>
                       \A b \in DOMAIN found : RequiredMask[b] \subseteq found[b]

Contents ==
  IsObject => /\ \A k \in Props : Decoded(k) /\ Found(k)
              /\ \A n \in 0 .. i - 1 : \E k \in Props : IsEntry(n, k)

Inv == input \in Inputs /\ TypeOK /\ Position /\ Contents

-----------------------------------------------------------------------------
(* Descriptors, buckets and inputs                                         *)

LEMMA LayoutFacts ==
  ASSUME layout \in Layouts
  PROVE  /\ layout.ids \in Seq(Nat) /\ Len(layout.ids) \in Nat \ {0}
         /\ Props = 1 .. Len(layout.ids) /\ layout.required \subseteq Props
         /\ layout.version \in 0 .. NoVersion
         /\ \A k \in Props : layout.ids[k] \in Nat
         /\ \A j, k \in Props : layout.ids[j] = layout.ids[k] => j = k
<1>1. /\ layout.ids \in Seq(Nat) /\ Len(layout.ids) \in Nat \ {0}
      /\ layout.required \subseteq Props /\ layout.version \in 0 .. NoVersion
      /\ \A j, k \in Props : j < k => layout.ids[j] < layout.ids[k]
  BY LayoutAssumption DEF Props
<1>2. Props = 1 .. Len(layout.ids) /\ \A k \in Props : layout.ids[k] \in Nat
  BY <1>1 DEF Props
<1>3. \A j, k \in Props : layout.ids[j] = layout.ids[k] => j = k
  BY <1>1, <1>2
<1> QED
  BY <1>1, <1>2, <1>3

LEMMA InputFacts ==
  ASSUME input \in Inputs
  PROVE  /\ Len(input) \in Nat
         /\ \A n \in 1 .. Len(input) :
              /\ input[n].value \in Nat /\ input[n].type \in STRING
              /\ input[n].type = "posint" =>
                   input[n] = Token("posint", input[n].value)
<1>1. input \in Seq([type : STRING, ind : BOOLEAN, value : Nat])
  BY LayoutAssumption
<1>2. \A T : input \in Seq(T) => Len(input) \in Nat /\ \A n \in 1 .. Len(input) : input[n] \in T
  OBVIOUS
<1>3. \A n \in 1 .. Len(input) : input[n] \in [type : STRING, ind : BOOLEAN, value : Nat]
  BY <1>1, <1>2
<1>4. \A n \in 1 .. Len(input) : input[n].type = "posint" => ~input[n].ind
  <2>1. DOMAIN input = 1 .. Len(input)
    BY <1>1
  <2> QED
    BY <2>1, LayoutAssumption
<1>5. ASSUME NEW n \in 1 .. Len(input), input[n].type = "posint"
      PROVE  input[n] = [type |-> "posint", ind |-> FALSE, value |-> input[n].value]
  <2>1. input[n].ind \in BOOLEAN /\ ~input[n].ind
    BY <1>3, <1>4, <1>5
  <2>2. input[n].ind = FALSE
    BY <2>1, Zenon
  <2> QED
    BY <1>3, <1>5, <2>2
<1> QED
  BY <1>1, <1>3, <1>5 DEF Token

(* A property has a bit of its own in the buckets.                         *)
LEMMA BitsDiffer ==
  ASSUME NEW j \in Nat \ {0}, NEW k \in Nat \ {0},
         Bucket(j) = Bucket(k), Bit(j) = Bit(k)
  PROVE  j = k
<1>1. j - 1 \in Nat /\ k - 1 \in Nat /\ Digits \in Nat \ {0}
  BY LayoutAssumption
<1>2. \A a, b \in Nat : a \div Digits = b \div Digits /\ a % Digits = b % Digits => a = b
  BY <1>1
<1> QED
  BY <1>1, <1>2 DEF Bucket, Bit

LEMMA BucketRange ==
  ASSUME NEW n \in Nat \ {0}, NEW k \in 1 .. n
  PROVE  Bucket(k) \in 0 .. Buckets(n) - 1 /\ Bit(k) \in 0 .. Digits - 1
<1>1. k - 1 \in Nat /\ n - 1 \in Nat /\ k - 1 <= n - 1 /\ Digits \in Nat \ {0}
  BY LayoutAssumption
<1>2. \A a, d \in Nat : d # 0 => a \div d \in Nat /\ a % d \in 0 .. d - 1
  OBVIOUS
<1>3. \A a, b, d \in Nat : d # 0 /\ a <= b => a \div d <= b \div d
  OBVIOUS
<1>4. \A a, d \in Nat : d # 0 => (a + d) \div d = (a \div d) + 1
  OBVIOUS
<1>5. n + Digits - 1 = (n - 1) + Digits
  BY <1>1
<1>6. Buckets(n) = ((n - 1) \div Digits) + 1
  BY <1>1, <1>4, <1>5 DEF Buckets
<1>7. /\ (k - 1) \div Digits \in Nat /\ (n - 1) \div Digits \in Nat
      /\ (k - 1) % Digits \in 0 .. Digits - 1
      /\ (k - 1) \div Digits <= (n - 1) \div Digits
  BY <1>1, <1>2, <1>3
<1> QED
  BY <1>6, <1>7 DEF Bucket, Bit

(* The lookup finds the property with the id, or none.                     *)
LEMMA MatchesFound ==
  ASSUME layout \in Layouts, NEW id \in Nat, NEW k \in Matches(id)
  PROVE  k \in Props /\ layout.ids[k] = id
<1>1. Props = 1 .. Len(layout.ids) /\ Len(layout.ids) \in Nat
  BY LayoutFacts
<1>2. /\ IsFiniteSet(Props) /\ Cardinality(Props) = Len(layout.ids)
  BY <1>1, FS_Interval
<1>3. SmallEnd \in Nat /\ SmallEnd <= Len(layout.ids)
  <2> DEFINE S == {j \in Props : layout.ids[j] < SmallLimit}
  <2>1. IsFiniteSet(S) /\ Cardinality(S) <= Cardinality(Props)
    BY <1>2, FS_Subset
  <2>2. Cardinality(S) \in Nat
    BY <2>1, FS_CardinalityType
  <2> QED
    BY <1>2, <2>1, <2>2 DEF SmallEnd
<1> QED
  BY <1>1, <1>3 DEF Matches

(* A head that is accepted announces no more than there is.                *)
LEMMA HeadFacts ==
  ASSUME layout \in Layouts, input \in Inputs, Len(input) >= 1,
         HeadResult(input[1], Len(input) - 1) = "ok"
  PROVE  /\ input[1].value \in 0 .. MaxCount
         /\ Tokens(input[1].value) <= Len(input) - 1
         /\ Versioned => IsObject \/ input[1].value # 0
<1> DEFINE h == input[1]
<1>1. Len(input) \in Nat /\ h.value \in Nat /\ MaxCount \in Nat
  BY InputFacts, LayoutAssumption
<1>2. CASE IsObject /\ h.value = 0
  BY <1>1, <1>2 DEF Tokens
<1>3. CASE ~(IsObject /\ h.value = 0)
  <2>1. /\ ~TooLong(h.value, Len(input) - 1) /\ ~TooMany(h.value)
        /\ ~(Versioned /\ h.value < 1)
    BY <1>3 DEF HeadResult
  <2> QED
    BY <1>1, <2>1 DEF TooLong, TooMany, Tokens
<1> QED
  BY <1>2, <1>3

-----------------------------------------------------------------------------
(* Steps that decode no entry                                              *)

Failures ==
  {"end_of_stream", "item_type_mismatch", "too_many_properties",
   "item_version_property_missing", "item_value_out_of_range",
   "item_version_mismatch", "required_object_property_missing",
   "tuple_size_mismatch", "unknown_property"}

LEMMA HeadResultType ==
  ASSUME NEW h, NEW n
  PROVE  HeadResult(h, n) \in Failures \union {"ok"}
BY DEF HeadResult, Failures

LEMMA EntriesStay ==
  ASSUME UNCHANGED <<layout, input>>
  PROVE  \A n, k : IsEntry(n, k)' <=> IsEntry(n, k)
BY DEF IsEntry, Entries, Versioned, IsObject, Token

LEMMA ContentsStay ==
  ASSUME Contents, UNCHANGED <<layout, input, i, found, dest>>
  PROVE  Contents'
<1>1. \A k : (Decoded(k)' <=> Decoded(k)) /\ (Found(k)' <=> Found(k))
  BY EntriesStay
     DEF Decoded, Found, Entries, Versioned, IsObject, Bit, Bucket
<1> QED
  BY <1>1, EntriesStay DEF Contents, IsObject, Props

(* TypeOK, but for the step's own variables                                *)
LEMMA TypeStays ==
  ASSUME TypeOK, UNCHANGED <<layout, input, i, found, dest>>,
         at' \in 1 .. Len(input) + 1, count' \in 0 .. MaxCount, i \in 0 .. count',
         pc' \in {"version", "count", "property", "done"},
         rx' \in Failures \union {"ok"}
  PROVE  TypeOK'
BY DEF TypeOK, Failures, RequiredMask, Props, Buckets, Bit, Bucket

LEMMA FailInv ==
  ASSUME Inv, NEW r \in Failures, Done(r),
         at' \in 1 .. Len(input) + 1, count' \in 0 .. MaxCount, i \in 0 .. count',
         UNCHANGED <<layout, input, i, found, dest>>
  PROVE  Inv'
<1>1. TypeOK'
  BY TypeStays DEF Inv, Done
<1>2. Position'
  BY DEF Done, Failures, Position, Succeeded
<1> QED
  BY <1>1, <1>2, ContentsStay DEF Inv

LEMMA InitInv == Init => Inv
<1> SUFFICES ASSUME Init PROVE Inv
  OBVIOUS
<1> USE DEF Init
<1>1. Len(input) \in Nat /\ MaxCount \in Nat
  BY InputFacts, LayoutAssumption
<1>2. TypeOK
  BY <1>1 DEF TypeOK, Props, RequiredMask
<1>3. Position
  BY DEF Position, Succeeded
<1>4. \A k \in Props : Decoded(k)
  BY DEF Decoded, Props
<1>5. \A k \in Props : Found(k)
  <2> SUFFICES ASSUME NEW k \in Props PROVE Bit(k) \notin found[Bucket(k)]
    BY DEF Found
  <2>1. Bucket(k) \in 0 .. Buckets(Len(layout.ids)) - 1
    BY BucketRange, LayoutFacts
  <2> QED
    BY <2>1
<1> QED
  BY <1>2, <1>3, <1>4, <1>5 DEF Inv, Contents

LEMMA DecodeHeadInv == ASSUME Inv, DecodeHead PROVE Inv'
<1> DEFINE rc == HeadResult(Next1, Available - 1)
<1>1. /\ layout \in Layouts /\ input \in Inputs /\ Len(input) \in Nat
      /\ at = 1 /\ count = 0 /\ i = 0 /\ MaxCount \in Nat
      /\ UNCHANGED <<layout, input, i, found, dest>>
  BY InputFacts, LayoutAssumption DEF Inv, TypeOK, Position, DecodeHead
<1>2. CASE Available = 0
  <2>1. Done("end_of_stream") /\ UNCHANGED <<at, count>> /\ "end_of_stream" \in Failures
    BY <1>2 DEF DecodeHead, Failures
  <2> QED
    BY <1>1, <2>1, FailInv
<1>3. CASE Available # 0 /\ rc # "ok"
  <2>1. Done(rc) /\ at' = 2 /\ count' = 0 /\ rc \in Failures
    BY <1>1, <1>3, HeadResultType DEF DecodeHead
  <2>2. Len(input) >= 1
    BY <1>1, <1>3 DEF Available
  <2> QED
    BY <1>1, <2>1, <2>2, FailInv
<1>4. CASE Available # 0 /\ rc = "ok"
  <2>1. /\ Len(input) >= 1 /\ at' = 2 /\ count' = input[1].value
        /\ HeadResult(input[1], Len(input) - 1) = "ok"
    BY <1>1, <1>4 DEF DecodeHead, Available, Next1
  <2>2. /\ count' \in 0 .. MaxCount /\ Tokens(count') <= Len(input) - 1
        /\ Versioned => IsObject \/ count' # 0
    BY <1>1, <2>1, HeadFacts
  <2>3. /\ at' + Tokens(count') <= Len(input) + 1
        /\ Tokens(count' - i) = Tokens(count') /\ Tokens(i) = 0
    BY <1>1, <2>1, <2>2 DEF Tokens
  <2>4. CASE Versioned /\ count' # 0
    <3>1. Goto("version")
      BY <1>4, <2>1, <2>4, <1>1 DEF DecodeHead, Next1
    <3>2. TypeOK'
      BY <1>1, <2>1, <2>2, <3>1, TypeStays DEF Inv, Goto, TypeOK, Failures
    <3>3. Position'
      BY <1>1, <2>1, <2>2, <2>3, <2>4, <3>1
         DEF Position, Goto, Versioned, Tokens, IsObject, Succeeded
    <3> QED
      BY <1>1, <3>2, <3>3, ContentsStay DEF Inv
  <2>5. CASE ~(Versioned /\ count' # 0)
    <3>1. AfterHead(NoVersion)
      BY <1>4, <2>1, <2>5, <1>1 DEF DecodeHead, Next1
    <3>2. CASE Versioned
      <4>1. Done("item_version_mismatch") /\ "item_version_mismatch" \in Failures
        BY <3>1, <3>2 DEF AfterHead, Versioned, Failures
      <4> QED
        BY <1>1, <2>1, <2>2, <4>1, FailInv
    <3>3. CASE ~Versioned
      <4>1. Goto("count")
        BY <3>1, <3>3 DEF AfterHead
      <4>2. TypeOK'
        BY <1>1, <2>1, <2>2, <4>1, TypeStays DEF Inv, Goto, TypeOK, Failures
      <4>3. Position'
        BY <1>1, <2>1, <2>2, <2>3, <3>3, <4>1
           DEF Position, Goto, Versioned, Tokens, IsObject, Checked, Entries, Succeeded
      <4> QED
        BY <1>1, <4>2, <4>3, ContentsStay DEF Inv
    <3> QED
      BY <3>2, <3>3
  <2> QED
    BY <2>4, <2>5
<1> QED
  BY <1>2, <1>3, <1>4

LEMMA DecodeVersionInv == ASSUME Inv, DecodeVersion PROVE Inv'
<1> DEFINE v == IF IsObject THEN at + 1 ELSE at
<1>1. /\ layout \in Layouts /\ input \in Inputs /\ Len(input) \in Nat
      /\ at = 2 /\ count \in 1 .. MaxCount /\ i = 0 /\ MaxCount \in Nat
      /\ at + Tokens(count - i) <= Len(input) + 1 /\ Versioned
      /\ UNCHANGED <<layout, input, i, found, dest>>
  BY InputFacts, LayoutAssumption DEF Inv, TypeOK, Position, DecodeVersion
<1>2. v \in 1 .. Len(input) /\ v + 1 = Entries /\ at \in 1 .. Len(input)
  BY <1>1 DEF Tokens, Entries
<1>3. CASE IsObject /\ Next1 # Token("posint", 0)
  <2>1. Done("item_version_mismatch") /\ UNCHANGED <<at, count>>
    BY <1>1, <1>3 DEF DecodeVersion, AfterHead, Versioned
  <2> QED
    BY <1>1, <1>2, <2>1, FailInv DEF Failures
<1>4. CASE ~(IsObject /\ Next1 # Token("posint", 0))
  <2>1. /\ at' = v + 1 /\ count' = count - 1
        /\ IF input[v].type # "posint" THEN Done("item_type_mismatch")
           ELSE IF input[v].value >= NoVersion THEN Done("item_value_out_of_range")
           ELSE AfterHead(input[v].value)
    BY <1>4 DEF DecodeVersion
  <2>2. at' \in 1 .. Len(input) + 1 /\ count' \in 0 .. MaxCount /\ i \in 0 .. count'
    BY <1>1, <1>2, <2>1
  <2>3. \A r \in Failures : Done(r) => Inv'
    BY <1>1, <2>2, FailInv
  <2>4. CASE /\ input[v].type = "posint" /\ input[v].value = layout.version
             /\ Goto("count")
    <3>1. input[v] = Token("posint", layout.version)
      BY <1>1, <1>2, <2>4, InputFacts
    <3>2. TypeOK'
      BY <1>1, <2>2, <2>4, TypeStays DEF Inv, Goto, TypeOK, Failures
    <3>3. Checked'
      BY <1>1, <1>2, <2>1, <3>1 DEF Checked, Entries, Versioned, IsObject, Tokens, Token
    <3>4. at' + Tokens(count' - i) <= Len(input) + 1
      BY <1>1, <2>1 DEF Tokens
    <3>5. Position'
      BY <1>1, <2>4, <3>3, <3>4 DEF Position, Goto, Tokens, IsObject, Succeeded
    <3> QED
      BY <1>1, <3>2, <3>5, ContentsStay DEF Inv
  <2>5. AfterHead(input[v].value) =>
          Done("item_version_mismatch") \/ (input[v].value = layout.version /\ Goto("count"))
    BY <1>1 DEF AfterHead
  <2> QED
    BY <2>1, <2>3, <2>4, <2>5 DEF Failures
<1> QED
  BY <1>3, <1>4

LEMMA CountInv == ASSUME Inv, Count PROVE Inv'
<1>1. /\ layout \in Layouts /\ input \in Inputs
      /\ at \in 1 .. Len(input) + 1 /\ count \in 0 .. MaxCount /\ i \in 0 .. count
      /\ pc = "count" /\ Checked /\ at + Tokens(count - i) <= Len(input) + 1
      /\ UNCHANGED <<layout, input, at, count, i, found, dest>>
  BY DEF Inv, TypeOK, Position, Count
<1>2. \A r \in Failures : Done(r) => Inv'
  BY <1>1, FailInv
<1>3. CASE Goto("property") /\ ((~IsObject \/ ~HasOptional) => count = Len(layout.ids))
  <2>1. TypeOK'
    BY <1>1, <1>3, TypeStays DEF Inv, Goto, TypeOK, Failures
  <2>2. Checked'
    BY <1>1 DEF Checked, Entries, Versioned, IsObject, Tokens, Token
  <2>3. Position'
    BY <1>1, <1>3, <2>2 DEF Position, Goto, Tokens, IsObject, HasOptional, Props, Succeeded
  <2> QED
    BY <1>1, <2>1, <2>3, ContentsStay DEF Inv
<1> QED
  BY <1>2, <1>3 DEF Count, Failures

-----------------------------------------------------------------------------
(* Steps that decode an entry                                              *)

LEMMA DecodeValueInv ==
  ASSUME Inv, pc = "property", i < count, NEW k \in Props,
         IsObject => input[at] = Token("posint", layout.ids[k]),
         DecodeValue(k, IF IsObject THEN at + 1 ELSE at),
         UNCHANGED <<layout, input, count>>
  PROVE  Inv'
<1> DEFINE p == IF IsObject THEN at + 1 ELSE at
<1>1. /\ layout \in Layouts /\ input \in Inputs /\ Len(input) \in Nat /\ MaxCount \in Nat
      /\ at \in 1 .. Len(input) + 1 /\ count \in 0 .. MaxCount /\ i \in 0 .. count - 1
      /\ Checked /\ at + Tokens(count - i) <= Len(input) + 1
  BY InputFacts, LayoutAssumption DEF Inv, TypeOK, Position
<1>2. /\ p \in 1 .. Len(input) /\ at = Entries + Tokens(i)
      /\ p + 1 = Entries + Tokens(i + 1)
      /\ p + 1 + Tokens(count - (i + 1)) <= Len(input) + 1
      /\ Entries \in Nat
  BY <1>1 DEF Tokens, Checked, Entries
<1>3. at' = p + 1
  BY <1>1, <1>2 DEF DecodeValue
<1>4. CASE Done("item_type_mismatch") /\ UNCHANGED <<i, found, dest>>
  BY <1>1, <1>2, <1>3, <1>4, FailInv DEF Failures
<1>5. CASE /\ dest' = [dest EXCEPT ![k] = input[p].value]
           /\ found' = [found EXCEPT ![Bucket(k)] = @ \union {Bit(k)}]
           /\ i' = i + 1
           /\ UNCHANGED <<pc, rx>>
  <2>1. Bit(k) \in 0 .. Digits - 1
    BY <1>1, LayoutFacts, BucketRange
  <2>2. TypeOK'
    <3>1. found' \in [DOMAIN RequiredMask' -> SUBSET (0 .. Digits - 1)]
      <4>1. DOMAIN RequiredMask' = DOMAIN RequiredMask
        BY DEF RequiredMask, Buckets
      <4>2. found \in [DOMAIN RequiredMask -> SUBSET (0 .. Digits - 1)]
        BY DEF Inv, TypeOK
      <4> QED
        BY <1>5, <2>1, <4>1, <4>2
    <3>2. DOMAIN dest' = Props'
      BY <1>5 DEF Inv, TypeOK, Props
    <3>3. at' \in 1 .. Len(input') + 1 /\ count' \in 0 .. MaxCount /\ i' \in 0 .. count'
      BY <1>1, <1>2, <1>3, <1>5
    <3> QED
      BY <1>1, <1>5, <3>1, <3>2, <3>3 DEF Inv, TypeOK
  <2>3. Checked'
    BY <1>1, <1>2, <1>3, <1>5 DEF Checked, Entries, Versioned, IsObject, Tokens, Token
  <2>4. Position'
    BY <1>1, <1>2, <1>3, <1>5, <2>3
       DEF Inv, Position, Tokens, IsObject, HasOptional, Props, Succeeded
  <2>5. Contents'
    <3> SUFFICES ASSUME IsObject PROVE Contents'
      BY DEF Contents, IsObject
    <3>1. \A n, j : IsEntry(n, j)' <=> IsEntry(n, j)
      BY EntriesStay
    <3>2. \A j \in Props : IsEntry(i, j) <=> j = k
      <4>1. Entries + 2 * i = at
        BY <1>1, <1>2 DEF Tokens
      <4>2. \A m, n : Token("posint", m) = Token("posint", n) => m = n
        BY DEF Token
      <4>3. \A j \in Props : layout.ids[j] = layout.ids[k] => j = k
        BY <1>1, LayoutFacts
      <4> QED
        BY <4>1, <4>2, <4>3 DEF IsEntry
    <3>3. 0 .. i' - 1 = (0 .. i - 1) \union {i} /\ i \in Nat
      BY <1>1, <1>5
    <3>4. ASSUME NEW j \in Props PROVE Decoded(j)'
      <4>1. Decoded(j)
        BY DEF Inv, Contents
      <4>2. Entries' = Entries
        BY DEF Entries, Versioned, IsObject
      <4>3. CASE j = k
        <5>1. dest'[j] = input[Entries + 2 * i + 1].value
          BY <1>2, <1>5, <4>3 DEF Tokens, Inv, TypeOK
        <5>2. \A m \in 0 .. i' - 1 : m <= i
          BY <3>3
        <5> QED
          BY <3>1, <3>2, <3>3, <4>2, <4>3, <5>1, <5>2 DEF Decoded
      <4>4. CASE j # k
        <5>1. dest'[j] = dest[j] /\ ~IsEntry(i, j)
          BY <1>5, <3>2, <4>4 DEF Inv, TypeOK
        <5> QED
          BY <3>1, <3>3, <4>1, <4>2, <5>1 DEF Decoded
      <4> QED
        BY <4>3, <4>4
    <3>5. ASSUME NEW j \in Props PROVE Found(j)'
      <4>0. Found(j)
        BY DEF Inv, Contents
      <4>1. j \in Nat \ {0} /\ k \in Nat \ {0}
        <5>1. Props = 1 .. Len(layout.ids) /\ Len(layout.ids) \in Nat
          BY <1>1, LayoutFacts
        <5> QED
          BY <5>1
      <4>2. CASE j = k
        BY <3>1, <3>2, <3>3, <4>2 DEF Found
      <4>3. CASE j # k
        <5>1. Bucket(j) # Bucket(k) \/ Bit(j) # Bit(k)
          BY <4>1, <4>3, BitsDiffer
        <5>2. Bit(j) \in found'[Bucket(j)] => Bit(j) \in found[Bucket(j)]
          BY <1>5, <5>1
        <5> QED
          BY <3>1, <3>3, <4>0, <5>2 DEF Found, Bit, Bucket
      <4> QED
        BY <4>2, <4>3
    <3>6. \A n \in 0 .. i' - 1 : \E j \in Props : IsEntry(n, j)
      BY <3>2, <3>3 DEF Inv, Contents
    <3> QED
      BY <3>1, <3>4, <3>5, <3>6 DEF Contents, Props
  <2> QED
    BY <1>1, <2>2, <2>4, <2>5 DEF Inv
<1> QED
  BY <1>2, <1>4, <1>5 DEF DecodeValue

LEMMA ObjectPropertyInv == ASSUME Inv, ObjectProperty PROVE Inv'
<1>1. /\ layout \in Layouts /\ input \in Inputs /\ Len(input) \in Nat
      /\ count \in 0 .. MaxCount /\ i \in 0 .. count /\ i < count /\ MaxCount \in Nat
      /\ at \in 1 .. Len(input) + 1 /\ at + Tokens(count - i) <= Len(input) + 1
      /\ IsObject /\ pc = "property" /\ UNCHANGED <<layout, input, count>>
  BY InputFacts, LayoutAssumption DEF Inv, TypeOK, Position, ObjectProperty
<1>2. at \in 1 .. Len(input) /\ Available # 0
  BY <1>1 DEF Tokens, Available
<1>3. CASE \E r \in Failures : Done(r) /\ at' = at + 1 /\ UNCHANGED <<i, found, dest>>
  <2>1. at' \in 1 .. Len(input) + 1
    BY <1>2, <1>3, <1>1
  <2> QED
    BY <1>1, <1>3, <2>1, FailInv
<1>4. ASSUME Next1.type = "posint", NEW k \in Matches(Next1.value), DecodeValue(k, at + 1)
      PROVE  Inv'
  <2>1. Next1.value \in Nat /\ input[at] = Token("posint", Next1.value)
    BY <1>1, <1>2, <1>4, InputFacts DEF Next1
  <2>2. k \in Props /\ layout.ids[k] = Next1.value
    BY <1>1, <1>4, <2>1, MatchesFound
  <2> QED
    BY <1>1, <1>4, <2>1, <2>2, DecodeValueInv
<1> QED
  BY <1>2, <1>3, <1>4 DEF ObjectProperty, Failures

LEMMA TupleMemberInv == ASSUME Inv, TupleMember PROVE Inv'
<1>1. /\ layout \in Layouts /\ count \in 0 .. MaxCount /\ i \in 0 .. count /\ MaxCount \in Nat
      /\ ~IsObject /\ i < count /\ pc = "property" /\ count = Len(layout.ids)
  BY LayoutAssumption DEF Inv, TypeOK, Position, TupleMember
<1>2. i + 1 \in Props
  BY <1>1, LayoutFacts
<1> QED
  BY <1>1, <1>2, DecodeValueInv DEF TupleMember

LEMMA FinishInv == ASSUME Inv, Finish PROVE Inv'
<1>1. /\ layout \in Layouts /\ input \in Inputs
      /\ at \in 1 .. Len(input) + 1 /\ count \in 0 .. MaxCount /\ i = count /\ i \in 0 .. count
      /\ pc = "property" /\ Checked
      /\ (~IsObject \/ ~HasOptional) => count = Len(layout.ids)
      /\ UNCHANGED <<layout, input, at, count, i, found, dest>>
  BY DEF Inv, TypeOK, Position, Finish
<1>2. CASE Done("required_object_property_missing")
  BY <1>1, <1>2, FailInv DEF Failures
<1>3. CASE /\ Done("ok")
           /\ ~IsObject \/ ~HasOptional \/ \A b \in DOMAIN found : RequiredMask[b] \subseteq found[b]
  <2>1. TypeOK'
    BY <1>1, <1>3, TypeStays DEF Inv, Done, TypeOK, Failures
  <2>2. Checked'
    BY <1>1 DEF Checked, Entries, Versioned, IsObject, Tokens, Token
  <2>3. UNCHANGED <<IsObject, HasOptional, RequiredMask>>
    BY <1>1 DEF IsObject, HasOptional, RequiredMask, Props, Buckets, Bucket, Bit
  <2>4. Position'
    BY <1>1, <1>3, <2>2, <2>3 DEF Position, Done
  <2> QED
    BY <1>1, <2>1, <2>4, ContentsStay DEF Inv
<1> QED
  BY <1>2, <1>3 DEF Finish

LEMMA NextInv == Inv /\ [Next]_vars => Inv'
<1> SUFFICES ASSUME Inv, [Next]_vars PROVE Inv'
  OBVIOUS
<1>1. CASE UNCHANGED vars
  <2>1. UNCHANGED <<layout, input, at, count, i, found, dest, pc, rx>>
    BY <1>1 DEF vars
  <2>2. TypeOK'
    BY <2>1 DEF Inv, TypeOK, RequiredMask, Props, Buckets, Bucket, Bit
  <2>3. Checked' <=> Checked
    BY <2>1 DEF Checked, Entries, Versioned, IsObject, Tokens, Token
  <2>4. UNCHANGED <<IsObject, HasOptional, RequiredMask, Versioned>>
    BY <2>1 DEF IsObject, HasOptional, RequiredMask, Props, Versioned, Buckets, Bucket, Bit
  <2>5. Position'
    BY <2>1, <2>3, <2>4 DEF Inv, Position, Tokens, Succeeded
  <2> QED
    BY <2>1, <2>2, <2>5, ContentsStay DEF Inv
<1> QED
  BY <1>1, DecodeHeadInv, DecodeVersionInv, CountInv, ObjectPropertyInv, TupleMemberInv,
     FinishInv DEF Next

LEMMA Invariance == Spec => []Inv
BY InitInv, NextInv, PTL DEF Spec

-----------------------------------------------------------------------------
(* What the invariant says of a decoded item                               *)

LEMMA EntriesOfFacts ==
  ASSUME i = count
  PROVE  \A k : EntriesOf(k) = {n \in 0 .. i - 1 : IsEntry(n, k)}
BY DEF EntriesOf, IsEntry

LEMMA DecodedHolds == Inv => DecodedFromEntries
<1> SUFFICES ASSUME Inv, Succeeded, IsObject PROVE DecodedFromEntries
  BY DEF DecodedFromEntries
<1>1. i = count /\ at = Entries + 2 * count
  BY DEF Inv, Position, Checked, Tokens
<1>2. ASSUME NEW k \in Props
      PROVE  IF EntriesOf(k) = {} THEN dest[k] = Unset
             ELSE \E n \in EntriesOf(k) : /\ \A m \in EntriesOf(k) : m <= n
                                          /\ dest[k] = input[Entries + 2 * n + 1].value
  <2>1. Decoded(k)
    BY DEF Inv, Contents
  <2> QED
    BY <1>1, <2>1, EntriesOfFacts DEF Decoded
<1> QED
  BY <1>1, <1>2 DEF DecodedFromEntries

(* With optional properties every required bit was found.                  *)
LEMMA RequiredBitsHold ==
  ASSUME Inv, Succeeded, IsObject, HasOptional, NEW k \in layout.required
  PROVE  EntriesOf(k) # {}
<1>1. layout \in Layouts /\ i = count /\ \A b \in DOMAIN found : RequiredMask[b] \subseteq found[b]
  BY DEF Inv, TypeOK, Position
<1>2. Props = 1 .. Len(layout.ids) /\ Len(layout.ids) \in Nat \ {0} /\ k \in Props
  BY <1>1, LayoutFacts
<1>3. Bucket(k) \in DOMAIN RequiredMask
  BY <1>2, BucketRange DEF RequiredMask
<1>4. Bit(k) \in RequiredMask[Bucket(k)]
  BY <1>3 DEF RequiredMask
<1>5. Bit(k) \in found[Bucket(k)]
  <2>1. Bucket(k) \in DOMAIN found
    BY <1>3 DEF Inv, TypeOK
  <2> QED
    BY <1>1, <1>4, <2>1
<1>6. \E n \in 0 .. i - 1 : IsEntry(n, k)
  BY <1>2, <1>5 DEF Inv, Contents, Found
<1> QED
  BY <1>1, <1>6, EntriesOfFacts

(* Without, as many entries as properties and no id twice leave none out.  *)
LEMMA EntriesFillProps ==
  ASSUME Inv, Succeeded, IsObject, ~HasOptional,
         \A k \in Props : Cardinality(EntriesOf(k)) <= 1,
         NEW k \in Props
  PROVE  EntriesOf(k) # {}
<1> SUFFICES ASSUME EntriesOf(k) = {} PROVE FALSE
  OBVIOUS
<1> DEFINE S == 0 .. count - 1
           T == Props \ {k}
           f == [n \in S |-> CHOOSE j \in Props : IsEntry(n, j)]
<1>1. /\ layout \in Layouts /\ i = count /\ count = Len(layout.ids)
      /\ \A n \in S : \E j \in Props : IsEntry(n, j)
  BY DEF Inv, TypeOK, Position, Contents
<1>2. Props = 1 .. Len(layout.ids) /\ Len(layout.ids) \in Nat \ {0}
  BY <1>1, LayoutFacts
<1>3. IsFiniteSet(S) /\ Cardinality(S) = Len(layout.ids)
  <2>1. 0 \in Int /\ count - 1 \in Int /\ ~(0 > count - 1)
    BY <1>1, <1>2
  <2>2. IsFiniteSet(S) /\ Cardinality(S) = IF 0 > count - 1 THEN 0 ELSE (count - 1) - 0 + 1
    BY <2>1, FS_Interval
  <2> QED
    BY <1>1, <1>2, <2>1, <2>2
<1>4. IsFiniteSet(T) /\ Cardinality(T) = Len(layout.ids) - 1
  <2>1. IsFiniteSet(Props) /\ Cardinality(Props) = Len(layout.ids)
    BY <1>2, FS_Interval
  <2> QED
    BY <2>1, FS_RemoveElement
<1>5. \A n \in S : f[n] \in Props /\ IsEntry(n, f[n])
  BY <1>1
<1>6. \A j : \A n \in S : IsEntry(n, j) => n \in EntriesOf(j)
  BY <1>1, EntriesOfFacts
<1>7. f \in [S -> T]
  BY <1>5, <1>6
<1>8. PICK x, y \in S : x # y /\ f[x] = f[y]
  <2>1. Cardinality(T) < Cardinality(S)
    BY <1>2, <1>3, <1>4
  <2> HIDE DEF S, T, f
  <2> QED
    BY <1>3, <1>4, <1>7, <2>1, FS_PigeonHole
<1>9. {x, y} \subseteq EntriesOf(f[x]) /\ f[x] \in Props
  BY <1>5, <1>6, <1>8
<1>10. IsFiniteSet(EntriesOf(f[x])) /\ Cardinality({x, y}) <= Cardinality(EntriesOf(f[x]))
  <2>1. EntriesOf(f[x]) \subseteq S
    BY <1>1, EntriesOfFacts
  <2>2. IsFiniteSet(EntriesOf(f[x]))
    BY <1>3, <2>1, FS_Subset
  <2> QED
    BY <1>9, <2>2, FS_Subset
<1>11. Cardinality({x, y}) = 2
  <2>1. IsFiniteSet({x}) /\ Cardinality({x}) = 1
    BY FS_Singleton
  <2>2. {x, y} = {x} \cup {y} /\ y \notin {x}
    BY <1>8
  <2>3. Cardinality({x} \cup {y}) = IF y \in {x} THEN Cardinality({x}) ELSE Cardinality({x}) + 1
    BY <2>1, FS_AddElement
  <2> QED
    BY <2>1, <2>2, <2>3
<1>12. Cardinality(EntriesOf(f[x])) \in Nat /\ Cardinality(EntriesOf(f[x])) <= 1
  BY <1>9, <1>10, FS_CardinalityType
<1> QED
  BY <1>10, <1>11, <1>12

LEMMA RequiredHolds == Inv => RequiredDecoded
<1> SUFFICES ASSUME Inv, Succeeded, IsObject,
                    HasOptional \/ \A k \in Props : Cardinality(EntriesOf(k)) <= 1,
                    NEW k \in layout.required
             PROVE  EntriesOf(k) # {}
  BY DEF RequiredDecoded
<1>1. k \in Props
  BY LayoutFacts DEF Inv, TypeOK
<1> QED
  BY <1>1, RequiredBitsHold, EntriesFillProps

-----------------------------------------------------------------------------
(* Theorems                                                                *)

(* Decoding keeps to its types whatever the input holds: it never reads    *)
(* behind the end of the item's tokens, the counts stay in the range of    *)
(* the std::int32_t that holds them, and every found bit has its bucket.   *)
THEOREM TypeCorrect == Spec => []TypeOK
<1>1. Inv => TypeOK
  BY DEF Inv
<1> QED
  BY <1>1, Invariance, PTL

(* decode_object takes every member from the last entry with its id, for   *)
(* any number of properties and entries, in any order (auto_object.hpp).   *)
THEOREM MembersComeFromEntries == Spec => []DecodedFromEntries
BY DecodedHolds, Invariance, PTL

(* decode_object finds every required property: by the buckets of found    *)
(* bits, for any number of them, or, without optional properties, by the   *)
(* number of entries if no id comes twice.                                 *)
THEOREM RequiredAreFound == Spec => []RequiredDecoded
BY RequiredHolds, Invariance, PTL

(* No item of another version is decoded, by objects and tuples.           *)
THEOREM VersionsAreGuarded == Spec => []VersionGuard
<1>1. Inv => VersionGuard
  BY DEF Inv, Position, Checked, VersionGuard
<1> QED
  BY <1>1, Invariance, PTL
=============================================================================
