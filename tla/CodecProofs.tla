---------------------------- MODULE CodecProofs -----------------------------
(***************************************************************************)
(* Proofs about Codec, for every set of values, however deep they nest,    *)
(* every setup and every size of pages, and whatever the decoders do:      *)
(* what encode() puts has the size that encoded_size_of() says, a buffer   *)
(* of that size is enough, and the output holds the encodings in order.    *)
(* At the end, what is known of an input and of the parsing of a head.     *)
(***************************************************************************)
EXTENDS Codec, Recursion, SequenceTheorems

-----------------------------------------------------------------------------
(* Bits                                                                    *)

(* The recursion of the bit scan has a solution.                           *)
LEMMA LastSetBitDefined ==
  LastSetBit = [n \in Nat |-> IF n < 2 THEN 0 ELSE 1 + LastSetBit[n \div 2]]
<1> DEFINE body(n, g) == IF n < 2 THEN 0 ELSE 1 + g[n \div 2]
           m == [n \in Nat |-> n]
           V == [n \in Nat |-> Nat]
           G == {g \in [Nat -> Nat] : \A x \in Nat : g[x] \in V[x]}
           F == [n \in Nat |-> [g \in G |-> body(n, g)]]
           P(f) == f = [n \in Nat |-> body(n, f)]
<1>1. \A n \in Nat : n >= 2 => n \div 2 \in Nat /\ n \div 2 < n
  OBVIOUS
<1>2. IsBody(Nat, m, Nat, V, G, F)
  <2>1. G # {}
    <3>1. [n \in Nat |-> 0] \in G
      OBVIOUS
    <3> QED
      BY <3>1
  <2>2. \A n \in Nat, g \in G : body(n, g) \in Nat
    BY <1>1
  <2>3. F \in [Nat -> [G -> Nat]] /\ \A n \in Nat, g \in G : F[n][g] = body(n, g)
    BY <2>2
  <2>4. \A n \in Nat, g, h \in G :
          (\A y \in Nat : m[y] < m[n] => g[y] = h[y]) => body(n, g) = body(n, h)
    BY <1>1
  <2>5. m \in [Nat -> Nat] /\ V \in [Nat -> SUBSET Nat]
    OBVIOUS
  <2>6. \A n \in Nat, g \in G : F[n][g] \in V[n]
    BY <2>2, <2>3
  <2> HIDE DEF body
  <2>7. \A n \in Nat, g, h \in G :
          (\A y \in Nat : m[y] < m[n] => g[y] = h[y]) => F[n][g] = F[n][h]
    BY <2>3, <2>4
  <2> HIDE DEF F
  <2> QED
    BY <2>1, <2>3, <2>5, <2>6, <2>7 DEF IsBody
<1>3. \E f : P(f)
  <2> HIDE DEF F
  <2>1. \E f \in G : \A n \in Nat : f[n] = F[n][f]
    BY <1>2, MeasureRecursion
  <2>2. PICK f \in G : \A n \in Nat : f[n] = F[n][f]
    BY <2>1
  <2>3. P(f)
    BY <2>2 DEF F
  <2> QED
    BY <2>3
<1>4. LastSetBit = CHOOSE f : P(f)
  BY Zenon DEF LastSetBit
<1> HIDE DEF P
<1>5. P(CHOOSE f : P(f))
  BY <1>3, Zenon
<1> QED
  BY <1>4, <1>5, Zenon DEF P

LEMMA LastSetBitIs ==
  /\ LastSetBit[0] = 0 /\ LastSetBit[1] = 0
  /\ \A n \in Nat : n >= 2 => LastSetBit[n] = 1 + LastSetBit[n \div 2]
BY LastSetBitDefined

LEMMA LastSetBitType == \A n \in Nat : LastSetBit[n] \in Nat
<1> DEFINE m == [n \in Nat |-> n]
           T == {n \in Nat : LastSetBit[n] \in Nat}
<1>1. m \in [Nat -> Nat]
  OBVIOUS
<1>2. ASSUME NEW n \in Nat, \A k \in Nat : m[k] < m[n] => k \in T
      PROVE  n \in T
  <2>1. CASE n < 2
    BY <2>1, LastSetBitIs
  <2>2. CASE n >= 2
    <3>1. n \div 2 \in Nat /\ n \div 2 < n
      BY <2>2
    <3>2. LastSetBit[n \div 2] \in Nat
      BY <1>2, <3>1
    <3> QED
      BY <2>2, <3>2, LastSetBitIs
  <2> QED
    BY <2>1, <2>2
<1> HIDE DEF m, T
<1>3. \A n \in Nat : n \in T
  BY <1>1, <1>2, MeasureInduction
<1> QED
  BY <1>3 DEF T

(* Four bits at a time                                                     *)
LEMMA LastSetBitBy4 ==
  \A n \in Nat : n >= 16 => n \div 16 \in Nat /\ LastSetBit[n] = 4 + LastSetBit[n \div 16]
<1> TAKE n \in Nat
<1> HAVE n >= 16
<1>1. LastSetBit[n] = 1 + LastSetBit[n \div 2] /\ n \div 2 \in Nat /\ n \div 2 >= 8
  BY LastSetBitIs
<1>2. LastSetBit[n \div 2] = 1 + LastSetBit[(n \div 2) \div 2] /\ (n \div 2) \div 2 = n \div 4
  BY <1>1, LastSetBitIs
<1>3. LastSetBit[n \div 4] = 1 + LastSetBit[(n \div 4) \div 2] /\ (n \div 4) \div 2 = n \div 8
  BY LastSetBitIs
<1>4. LastSetBit[n \div 8] = 1 + LastSetBit[(n \div 8) \div 2] /\ (n \div 8) \div 2 = n \div 16
  BY LastSetBitIs
<1>5. n \div 16 \in Nat /\ LastSetBit[n \div 16] \in Nat
  BY LastSetBitType
<1> QED
  BY <1>1, <1>2, <1>3, <1>4, <1>5

(* The number of bits of a byte, of two bytes and of four                  *)
LEMMA LastSetBitOfNibble ==
  \A n \in 1 .. 15 : LastSetBit[n] = IF n < 2 THEN 0 ELSE IF n < 4 THEN 1 ELSE IF n < 8 THEN 2 ELSE 3
<1>1. \A n \in 2 .. 3 : LastSetBit[n] = 1
  <2> TAKE n \in 2 .. 3
  <2>1. n \div 2 = 1 /\ LastSetBit[n] = 1 + LastSetBit[n \div 2]
    BY LastSetBitIs
  <2> QED
    BY <2>1, LastSetBitIs
<1>2. \A n \in 4 .. 7 : LastSetBit[n] = 2
  <2> TAKE n \in 4 .. 7
  <2>1. n \div 2 \in 2 .. 3 /\ LastSetBit[n] = 1 + LastSetBit[n \div 2]
    BY LastSetBitIs
  <2> QED
    BY <2>1, <1>1
<1>3. \A n \in 8 .. 15 : LastSetBit[n] = 3
  <2> TAKE n \in 8 .. 15
  <2>1. n \div 2 \in 4 .. 7 /\ LastSetBit[n] = 1 + LastSetBit[n \div 2]
    BY LastSetBitIs
  <2> QED
    BY <2>1, <1>2
<1> QED
  BY <1>1, <1>2, <1>3, LastSetBitIs

LEMMA LastSetBitOfByte ==
  \A n \in Nat : 16 <= n /\ n < 256 => LastSetBit[n] \in 4 .. 7
<1> TAKE n \in Nat
<1> HAVE 16 <= n /\ n < 256
<1>1. n \div 16 \in 1 .. 15 /\ LastSetBit[n] = 4 + LastSetBit[n \div 16]
  BY LastSetBitBy4
<1>2. LastSetBit[n \div 16] \in 0 .. 3
  BY <1>1, LastSetBitOfNibble
<1> QED
  BY <1>1, <1>2

(* Eight bits at a time                                                    *)
LEMMA LastSetBitBy8 ==
  \A n \in Nat : n >= 256 => n \div 256 \in Nat /\ LastSetBit[n] = 8 + LastSetBit[n \div 256]
<1> TAKE n \in Nat
<1> HAVE n >= 256
<1>1. LastSetBit[n] = 4 + LastSetBit[n \div 16] /\ n \div 16 \in Nat /\ n \div 16 >= 16
  BY LastSetBitBy4
<1>2. LastSetBit[n \div 16] = 4 + LastSetBit[(n \div 16) \div 16]
  BY <1>1, LastSetBitBy4
<1>3. (n \div 16) \div 16 = n \div 256 /\ n \div 256 \in Nat
  OBVIOUS
<1>4. LastSetBit[n \div 256] \in Nat
  BY <1>3, LastSetBitType
<1> QED
  BY <1>1, <1>2, <1>3, <1>4

LEMMA LastSetBitOfTwoBytes ==
  \A n \in Nat : 256 <= n /\ n < 256 * 256 => LastSetBit[n] \in 8 .. 15
<1> TAKE n \in Nat
<1> HAVE 256 <= n /\ n < 256 * 256
<1>1. /\ n \div 256 \in Nat /\ 1 <= n \div 256 /\ n \div 256 < 256
      /\ LastSetBit[n] = 8 + LastSetBit[n \div 256]
  BY LastSetBitBy8
<1>2. LastSetBit[n \div 256] \in 0 .. 7
  <2>1. CASE n \div 256 < 16
    <3>1. n \div 256 \in 1 .. 15
      BY <1>1, <2>1
    <3> QED
      BY <3>1, LastSetBitOfNibble
  <2>2. CASE n \div 256 >= 16
    <3>1. LastSetBit[n \div 256] \in 4 .. 7
      BY <1>1, <2>2, LastSetBitOfByte
    <3> QED
      BY <3>1
  <2> QED
    BY <1>1, <2>1, <2>2
<1> QED
  BY <1>1, <1>2

LEMMA LastSetBitOfFourBytes ==
  \A n \in Nat : 256 * 256 <= n /\ n < 256 * 256 * 256 * 256 => LastSetBit[n] \in 16 .. 31
<1> TAKE n \in Nat
<1> HAVE 256 * 256 <= n /\ n < 256 * 256 * 256 * 256
<1>1. /\ n \div 256 \in Nat /\ 256 <= n \div 256 /\ n \div 256 < 256 * 256 * 256
      /\ LastSetBit[n] = 8 + LastSetBit[n \div 256]
  BY LastSetBitBy8
<1> DEFINE k == n \div 256
<1> HIDE DEF k
<1>2. k \in Nat /\ 256 <= k /\ k < 256 * 256 * 256 /\ LastSetBit[n] = 8 + LastSetBit[k]
  BY <1>1 DEF k
<1>3. LastSetBit[k] \in 8 .. 23
  <2>1. CASE k < 256 * 256
    <3>1. LastSetBit[k] \in 8 .. 15
      BY <1>2, <2>1, LastSetBitOfTwoBytes
    <3> QED
      BY <3>1
  <2>2. CASE k >= 256 * 256
    <3>1. /\ k \div 256 \in Nat /\ 256 <= k \div 256 /\ k \div 256 < 256 * 256
          /\ LastSetBit[k] = 8 + LastSetBit[k \div 256]
      BY <1>2, <2>2, LastSetBitBy8
    <3>2. LastSetBit[k \div 256] \in 8 .. 15
      BY <3>1, LastSetBitOfTwoBytes
    <3> QED
      BY <3>1, <3>2
  <2> QED
    BY <1>2, <2>1, <2>2
<1> QED
  BY <1>2, <1>3

(* 2^64 - 1 is above the numbers that two bytes hold, and the model's      *)
(* numbers below it are those of four bytes.                               *)
LEMMA HugeIs == Huge \in Nat /\ 65535 < Huge /\ Huge < 256 * 256 * 256 * 256
BY SMT DEF Huge

(* The width of a value's argument, by its last set bit's last set bit     *)
LEMMA BytePower ==
  ASSUME NEW v \in Nat, InlineMax < v, v <= Huge
  PROVE  BytePowerPlus2(v) =
           IF v <= 255 THEN 2 ELSE IF v <= 65535 THEN 3 ELSE IF v < Huge THEN 4 ELSE 5
<1>1. LastSetBit[63] = 5
  <2>1. 63 \div 16 = 3 /\ LastSetBit[63] = 4 + LastSetBit[63 \div 16]
    BY LastSetBitBy4
  <2> QED
    BY <2>1, LastSetBitOfNibble
<1>2. \A k \in 16 .. 31 : LastSetBit[k] = 4
  <2> TAKE k \in 16 .. 31
  <2>1. k \div 16 = 1 /\ LastSetBit[k] = 4 + LastSetBit[k \div 16]
    BY LastSetBitBy4
  <2> QED
    BY <2>1, LastSetBitIs
<1>3. \A k \in 0 .. 63 : FindLastSetBit(k) = LastSetBit[k]
  BY HugeIs DEF FindLastSetBit
<1>4. CASE v = Huge
  <2>1. FindLastSetBit(v) = 63 /\ FindLastSetBit(63) = 5
    BY <1>1, <1>3, <1>4 DEF FindLastSetBit
  <2> QED
    BY <1>4, <2>1, HugeIs DEF BytePowerPlus2
<1>5. CASE v # Huge
  <2>1. FindLastSetBit(v) = LastSetBit[v]
    BY <1>5 DEF FindLastSetBit
  <2>2. CASE v <= 255
    <3>1. LastSetBit[v] \in 4 .. 7
      BY <2>2, LastSetBitOfByte DEF InlineMax
    <3>2. FindLastSetBit(LastSetBit[v]) = 2
      BY <1>3, <3>1, LastSetBitOfNibble
    <3> QED
      BY <2>1, <2>2, <3>2 DEF BytePowerPlus2
  <2>3. CASE 256 <= v /\ v <= 65535
    <3>1. LastSetBit[v] \in 8 .. 15
      BY <2>3, LastSetBitOfTwoBytes
    <3>2. FindLastSetBit(LastSetBit[v]) = 3
      BY <1>3, <3>1, LastSetBitOfNibble
    <3> QED
      BY <2>1, <2>3, <3>2 DEF BytePowerPlus2
  <2>4. CASE 65535 < v
    <3>1. LastSetBit[v] \in 16 .. 31
      BY <2>4, LastSetBitOfFourBytes, HugeIs
    <3>2. FindLastSetBit(LastSetBit[v]) = 4
      BY <1>2, <1>3, <3>1
    <3>3. ~(v <= 255) /\ ~(v <= 65535) /\ v < Huge
      BY <1>5, <2>4, HugeIs
    <3> QED
      BY <2>1, <3>2, <3>3 DEF BytePowerPlus2
  <2> QED
    BY <2>2, <2>3, <2>4
<1> QED
  BY <1>4, <1>5

-----------------------------------------------------------------------------
(* Heads                                                                   *)

TypeNames == {"posint", "negint", "binary", "text", "array", "map", "tag", "special"}

LEMMA CodeOf ==
  ASSUME NEW type \in TypeNames
  PROVE  \E n \in 1 .. 8 : MajorTypes[n] = type /\ Code(type) = 32 * (n - 1)
<1>1. DOMAIN MajorTypes = 1 .. 8
  BY DEF MajorTypes
<1>2. \E n \in 1 .. 8 : MajorTypes[n] = type
  BY DEF MajorTypes, TypeNames
<1> DEFINE n == CHOOSE k \in DOMAIN MajorTypes : MajorTypes[k] = type
<1>3. n \in 1 .. 8 /\ MajorTypes[n] = type
  BY <1>1, <1>2
<1>4. Code(type) = 32 * (n - 1)
  BY DEF Code
<1> HIDE DEF n
<1> QED
  BY <1>3, <1>4

LEMMA ByteRange == \A n \in Nat : n % 256 \in Bytes /\ (n < 256 => n \in Bytes)
BY DEF Bytes

(* The bytes of a number                                                   *)
LEMMA StoreType ==
  ASSUME NEW v \in Nat, NEW n \in {1, 2, 4, 8}
  PROVE  Store(v, n) \in Seq(Bytes) /\ Len(Store(v, n)) = n
<1>1. \A k \in 0 .. 3 : 256^k \in Nat /\ 256^k > 0
  <2>1. 256^0 \in Nat /\ 256^0 > 0 /\ 256^1 \in Nat /\ 256^1 > 0
    BY SMT
  <2>2. 256^2 \in Nat /\ 256^2 > 0 /\ 256^3 \in Nat /\ 256^3 > 0
    BY SMT
  <2>3. \A k \in 0 .. 3 : k = 0 \/ k = 1 \/ k = 2 \/ k = 3
    OBVIOUS
  <2> QED
    BY <2>1, <2>2, <2>3
<1>2. ASSUME NEW k \in 1 .. n PROVE Store(v, n)[k] \in Bytes
  <2>1. Store(v, n)[k] = IF v = Huge THEN 255 ELSE IF n - k > 3 THEN 0
                         ELSE (v \div 256^(n - k)) % 256
    BY DEF Store
  <2>2. CASE v = Huge
    BY <2>1, <2>2, ByteRange
  <2>3. CASE v # Huge /\ n - k > 3
    BY <2>1, <2>3, ByteRange
  <2>4. CASE v # Huge /\ ~(n - k > 3)
    <3>1. n - k \in 0 .. 3
      BY <2>4
    <3> DEFINE d == 256^(n - k)
    <3>2. d \in Nat /\ d > 0
      BY <1>1, <3>1
    <3>3. Store(v, n)[k] = (v \div d) % 256
      BY <2>1, <2>4
    <3> HIDE DEF d
    <3>4. v \div d \in Nat
      BY <3>2
    <3> QED
      BY <3>3, <3>4, ByteRange
  <2> QED
    BY <2>2, <2>3, <2>4
<1>3. DOMAIN Store(v, n) = 1 .. n
  BY DEF Store
<1>4. Store(v, n) \in [1 .. n -> Bytes]
  <2>1. Store(v, n) = [k \in 1 .. n |-> Store(v, n)[k]]
    BY DEF Store
  <2> HIDE DEF Store
  <2> QED
    BY <1>2, <2>1
<1> QED
  BY <1>3, <1>4

(* What emit writes as a head has the length that both computations of it  *)
(* yield.                                                                  *)
LEMMA HeadLength ==
  ASSUME NEW type \in TypeNames, NEW v \in Nat, v <= Huge
  PROVE  /\ HeadBytes(type, v) \in Seq(Bytes)
         /\ Len(HeadBytes(type, v)) = EncodedSize(v)
         /\ EncodedSize(v) = EncodedSizeBranching(v)
         /\ EncodedSize(v) \in Nat /\ 1 <= EncodedSize(v) /\ EncodedSize(v) <= 9
         /\ v # Huge => EncodedSize(v) <= 5
<1>1. PICK n \in 1 .. 8 : Code(type) = 32 * (n - 1)
  BY CodeOf
<1>2. CASE v <= InlineMax
  <2>1. Code(type) + v \in Bytes
    BY <1>1, <1>2, ByteRange DEF InlineMax
  <2>2. HeadBytes(type, v) = <<Code(type) + v>> /\ EncodedSize(v) = 1
    BY <1>2 DEF HeadBytes, EncodedSize
  <2>3. EncodedSizeBranching(v) = 1
    BY <1>2 DEF EncodedSizeBranching
  <2>4. HeadBytes(type, v) \in Seq(Bytes) /\ Len(HeadBytes(type, v)) = 1
    BY <2>1, <2>2
  <2> QED
    BY <2>2, <2>3, <2>4
<1>3. CASE ~(v <= InlineMax)
  <2> DEFINE b == BytePowerPlus2(v)
             w == 2^(b - 2)
  <2>1. b = IF v <= 255 THEN 2 ELSE IF v <= 65535 THEN 3 ELSE IF v < Huge THEN 4 ELSE 5
    <3>1. InlineMax < v
      BY <1>3 DEF InlineMax
    <3> QED
      BY <3>1, BytePower
  <2>2. b \in {2, 3, 4, 5}
    BY <2>1, SMT
  <2>3. w = IF v <= 255 THEN 1 ELSE IF v <= 65535 THEN 2 ELSE IF v < Huge THEN 4 ELSE 8
    BY <2>1, SMT
  <2>4. HeadBytes(type, v) = <<Code(type) + InlineMax + b - 1>> \o Store(v, w)
    BY <1>3, Zenon DEF HeadBytes
  <2>5. EncodedSize(v) = 1 + w
    BY <1>3, Zenon DEF EncodedSize, BytePowerPlus2
  <2>6. EncodedSizeBranching(v) = 1 + w
    BY <1>3, <2>3, SMT DEF EncodedSizeBranching
  <2> HIDE DEF b, w
  <2>7. w \in {1, 2, 4, 8} /\ (v # Huge => w <= 4)
    BY <2>3, HugeIs, SMT
  <2>8. Store(v, w) \in Seq(Bytes) /\ Len(Store(v, w)) = w
    BY <2>7, StoreType
  <2>9. Code(type) + InlineMax + b - 1 \in Bytes
    <3>1. Code(type) + InlineMax + b - 1 \in Nat /\ Code(type) + InlineMax + b - 1 < 256
      BY <1>1, <2>2 DEF InlineMax
    <3> QED
      BY <3>1, ByteRange
  <2>10. HeadBytes(type, v) \in Seq(Bytes) /\ Len(HeadBytes(type, v)) = 1 + w
    BY <2>4, <2>7, <2>8, <2>9
  <2> QED
    BY <2>5, <2>6, <2>7, <2>10
<1> QED
  BY <1>2, <1>3

(* The word that is stored on the fast path begins with the head.          *)
LEMMA WordBegins ==
  ASSUME NEW type \in TypeNames, NEW v \in Nat, v <= Huge, NEW width \in {4, 8},
         width = 4 => v # Huge
  PROVE  LET bytes == HeadBytes(type, v)  word == HeadWord(type, v, width) IN
         /\ word \in Seq(Bytes) /\ Len(word) = 1 + width
         /\ Len(bytes) <= 1 + width
         /\ \A k \in 1 .. Len(bytes) : word[k] = bytes[k]
<1> DEFINE bytes == HeadBytes(type, v)
           word == HeadWord(type, v, width)
<1>1. /\ bytes \in Seq(Bytes) /\ Len(bytes) \in Nat /\ Len(bytes) <= 9
      /\ v # Huge => Len(bytes) <= 5
  BY HeadLength
<1>2. Len(bytes) <= 1 + width
  <2> HIDE DEF bytes
  <2>1. CASE width = 4
    BY <1>1, <2>1
  <2>2. CASE width = 8
    BY <1>1, <2>2
  <2> QED
    BY <2>1, <2>2
<1>3. word = [k \in 1 .. 1 + width |->
                IF k <= Len(bytes) THEN bytes[k]
                ELSE IF k = 2 /\ v <= InlineMax THEN 128 * (v % 2) ELSE 0]
  BY DEF HeadWord
<1> HIDE DEF bytes, word
<1>4. 128 * (v % 2) \in Bytes /\ 0 \in Bytes
  BY ByteRange
<1>5. \A k \in 1 .. 1 + width : word[k] \in Bytes
  BY <1>1, <1>3, <1>4
<1>6. word \in [1 .. 1 + width -> Bytes]
  BY <1>3, <1>5
<1>7. word \in Seq(Bytes) /\ Len(word) = 1 + width
  BY <1>6
<1>8. \A k \in 1 .. Len(bytes) : word[k] = bytes[k]
  BY <1>1, <1>2, <1>3
<1> QED
  BY <1>2, <1>7, <1>8 DEF bytes, word

-----------------------------------------------------------------------------
(* Heads read back                                                         *)

(* Loading: f[k] is the number that the first k bytes stand for.           *)
IsNumber(f, s) ==
  /\ f \in [0 .. Len(s) -> Nat]
  /\ f[0] = 0
  /\ \A k \in 1 .. Len(s) : f[k] = 256 * f[k - 1] + s[k]

LEMMA LoadIs ==
  ASSUME NEW s \in Seq(Nat), s # Store(Huge, 8)
  PROVE  \E f : IsNumber(f, s) /\ Load(s) = f[Len(s)]
<1> DEFINE n == Len(s)
           H == [p \in (1 .. n) \X Nat |-> 256 * p[2] + s[p[1]]]
           body(g) == [k \in 0 .. Len(s) |-> IF k = 0 THEN 0 ELSE 256 * g[k - 1] + s[k]]
           P(g) == g = body(g)
<1>1. n \in Nat /\ \A k \in 1 .. n : s[k] \in Nat
  OBVIOUS
<1>2. H \in [(1 .. n) \X Nat -> Nat] /\ \A k \in 1 .. n, x \in Nat : H[<<k, x>>] = 256 * x + s[k]
  <2> HIDE DEF n
  <2> DEFINE step(k, x) == 256 * x + s[k]
  <2>1. \A k \in 1 .. n, x \in Nat : step(k, x) \in Nat
    BY <1>1
  <2>2. H = [p \in (1 .. n) \X Nat |-> step(p[1], p[2])]
    OBVIOUS
  <2> HIDE DEF H, step
  <2>3. \A k \in 1 .. n, x \in Nat : H[<<k, x>>] = step(k, x)
    BY <2>2
  <2>4. H \in [(1 .. n) \X Nat -> Nat]
    BY <2>1, <2>2
  <2> QED
    BY <2>3, <2>4 DEF step
<1>3. PICK f : IsRun(f, Nat, n, 0, H)
  <2> HIDE DEF H, n
  <2> QED
    BY <1>1, <1>2, Iteration
<1>4. IsNumber(f, s)
  <2> HIDE DEF H, n
  <2>1. \A k \in 1 .. n : k - 1 \in 0 .. n
    BY <1>1
  <2>2. f \in [0 .. n -> Nat] /\ f[0] = 0 /\ \A k \in 1 .. n : f[k] = H[<<k, f[k - 1]>>]
    BY <1>3 DEF IsRun
  <2>3. ASSUME NEW k \in 1 .. n PROVE f[k] = 256 * f[k - 1] + s[k]
    <3>1. f[k - 1] \in Nat
      BY <2>1, <2>2
    <3>2. f[k] = H[<<k, f[k - 1]>>]
      BY <2>2
    <3> QED
      BY <1>2, <3>1, <3>2
  <2> QED
    BY <2>2, <2>3 DEF IsNumber, n
<1>5. P(f)
  <2>1. f = [k \in 0 .. Len(s) |-> f[k]]
    BY <1>4 DEF IsNumber
  <2>2. \A k \in 0 .. Len(s) : f[k] = IF k = 0 THEN 0 ELSE 256 * f[k - 1] + s[k]
    BY <1>1, <1>4 DEF IsNumber
  <2> QED
    BY <2>1, <2>2
<1> DEFINE h == CHOOSE g : P(g)
<1>6. Load(s) = h[Len(s)]
  BY Zenon DEF Load
<1>7. h = body(h)
  <2> HIDE DEF P
  <2>1. P(h)
    BY <1>5, Zenon
  <2> QED
    BY <2>1 DEF P
<1> HIDE DEF h
<1>8. h[Len(s)] = f[Len(s)]
  <2> DEFINE T == {k \in Nat : k <= n => h[k] = f[k]}
  <2>1. 0 \in T
    BY <1>1, <1>4, <1>7 DEF IsNumber
  <2>2. ASSUME NEW k \in Nat, k \in T PROVE k + 1 \in T
    <3> SUFFICES ASSUME k + 1 <= n PROVE h[k + 1] = f[k + 1]
      OBVIOUS
    <3>1. k + 1 \in 1 .. n /\ (k + 1) - 1 = k /\ h[k] = f[k] /\ k + 1 # 0
      BY <1>1, <2>2
    <3>2. h[k + 1] = 256 * h[k] + s[k + 1]
      BY <1>7, <3>1
    <3>3. f[k + 1] = 256 * f[k] + s[k + 1]
      BY <1>4, <3>1 DEF IsNumber
    <3> QED
      BY <3>1, <3>2, <3>3
  <2> HIDE DEF T
  <2>3. \A k \in Nat : k \in T
    BY <2>1, <2>2, NumberInduction
  <2> QED
    BY <1>1, <2>3 DEF T
<1> QED
  BY <1>4, <1>6, <1>8

(* The four digits of a number to the base 256                             *)
LEMMA FourDigits ==
  ASSUME NEW v \in Nat, v < 256 * 256 * 256 * 256
  PROVE  LET a == (v \div (256 * 256 * 256)) % 256
             b == (v \div (256 * 256)) % 256
             c == (v \div 256) % 256
             d == v % 256
         IN  /\ a \in Nat /\ b \in Nat /\ c \in Nat /\ d \in Nat
             /\ v = 256 * (256 * (256 * a + b) + c) + d
             /\ v <= 65535 => v = 256 * c + d
             /\ v <= 255 => v = d
<1> DEFINE a == v \div 256
           b == a \div 256
           c == b \div 256
<1>1. \A n \in Nat : /\ n \div 256 \in Nat /\ n % 256 \in 0 .. 255
                     /\ n = 256 * (n \div 256) + (n % 256)
                     /\ n < 256 => n % 256 = n
  OBVIOUS
<1>2. a \in Nat /\ v % 256 \in 0 .. 255 /\ v = 256 * a + (v % 256)
  BY <1>1
<1>3. b \in Nat /\ a % 256 \in 0 .. 255 /\ a = 256 * b + (a % 256)
  BY <1>1, <1>2
<1>4. c \in Nat /\ b % 256 \in 0 .. 255 /\ b = 256 * c + (b % 256)
  BY <1>1, <1>3
<1>5. v \div (256 * 256) = b
  OBVIOUS
<1>6. v \div (256 * 256 * 256) = c
  OBVIOUS
<1> HIDE DEF a, b, c
<1>7. c < 256 /\ (v <= 65535 => a < 256)
  <2> DEFINE r == v % 256  s == a % 256  t == b % 256
  <2> HIDE DEF r, s, t
  <2>1. r \in 0 .. 255 /\ s \in 0 .. 255 /\ t \in 0 .. 255
    BY <1>2, <1>3, <1>4 DEF r, s, t
  <2>2. v = 256 * a + r /\ a = 256 * b + s /\ b = 256 * c + t
    BY <1>2, <1>3, <1>4 DEF r, s, t
  <2> QED
    BY <1>2, <1>3, <1>4, <2>1, <2>2
<1>8. c % 256 = c /\ (v <= 65535 => a % 256 = a)
  BY <1>1, <1>2, <1>4, <1>7
<1>9. v <= 255 => v % 256 = v
  BY <1>1
<1>10. v = 256 * (256 * (256 * (c % 256) + (b % 256)) + (a % 256)) + (v % 256)
  BY <1>2, <1>3, <1>4, <1>8
<1>11. v <= 65535 => v = 256 * (a % 256) + (v % 256)
  BY <1>2, <1>8
<1>12. c % 256 \in Nat
  BY <1>1, <1>4
<1> QED
  BY <1>2, <1>3, <1>4, <1>5, <1>6, <1>9, <1>10, <1>11, <1>12 DEF a

(* The widths a value fits in                                              *)
Fits(v, n) ==
  v <= Huge /\ (v = Huge => n = 8) /\ (n = 1 => v <= 255) /\ (n = 2 => v <= 65535)

(* What store() has written load() reads back.                             *)
LEMMA LoadOfStore ==
  ASSUME NEW v \in Nat, NEW n \in {1, 2, 4, 8}, Fits(v, n)
  PROVE  Load(Store(v, n)) = v
<1>1. CASE v = Huge
  <2>1. n = 8
    BY <1>1 DEF Fits
  <2> QED
    BY <1>1, <2>1 DEF Load
<1>2. CASE v # Huge
  <2> DEFINE s == Store(v, n)
  <2>1. s \in Seq(Bytes) /\ Len(s) = n
    BY StoreType
  <2>2. v < 256 * 256 * 256 * 256
    BY <1>2, HugeIs DEF Fits
  <2>3. 256^0 = 1 /\ 256^1 = 256 /\ 256^2 = 256 * 256 /\ 256^3 = 256 * 256 * 256
    BY SMT
  <2>4. \A k \in 1 .. n : s[k] = IF n - k > 3 THEN 0 ELSE (v \div 256^(n - k)) % 256
    BY <1>2 DEF Store
  <2>5. s # Store(Huge, 8)
    <3>1. Len(Store(Huge, 8)) = 8
      BY HugeIs, StoreType
    <3>2. Store(Huge, 8)[1] = 255
      <4>1. 1 \in 1 .. 8
        OBVIOUS
      <4> QED
        BY <4>1, Zenon DEF Store
    <3>3. n = 8 => s[1] = 0
      BY <2>4
    <3> HIDE DEF s
    <3> SUFFICES ASSUME s = Store(Huge, 8) PROVE FALSE
      OBVIOUS
    <3>4. n = 8
      BY <2>1, <3>1
    <3> QED
      BY <3>2, <3>3, <3>4
  <2> HIDE DEF s
  <2>6. s \in Seq(Nat)
    <3>1. \A byte \in Bytes : byte \in Nat
      BY DEF Bytes
    <3>2. s \in [1 .. n -> Nat]
      BY <2>1, <3>1
    <3> QED
      BY <3>2
  <2>7. PICK f : IsNumber(f, s) /\ Load(s) = f[n]
    BY <2>1, <2>5, <2>6, LoadIs
  <2>8. /\ f[0] = 0
        /\ \A k \in 1 .. n : f[k - 1] \in Nat /\ f[k] = 256 * f[k - 1] + s[k]
    BY <2>1, <2>7 DEF IsNumber
  <2> DEFINE a == (v \div (256 * 256 * 256)) % 256
             b == (v \div (256 * 256)) % 256
             c == (v \div 256) % 256
             d == v % 256
  <2>9. /\ a \in Nat /\ b \in Nat /\ c \in Nat /\ d \in Nat
        /\ v = 256 * (256 * (256 * a + b) + c) + d
        /\ v <= 65535 => v = 256 * c + d
        /\ v <= 255 => v = d
    BY <2>2, FourDigits
  <2>10. v \div 1 = v
    OBVIOUS
  <2>11. CASE n = 1
    <3>1. s[1] = d
      BY <2>3, <2>4, <2>10, <2>11
    <3>2. f[1] = 256 * f[0] + s[1]
      BY <2>8, <2>11
    <3> HIDE DEF d
    <3> QED
      BY <2>7, <2>8, <2>9, <2>11, <3>1, <3>2 DEF Fits, s
  <2>12. CASE n = 2
    <3>1. s[1] = c /\ s[2] = d
      BY <2>3, <2>4, <2>10, <2>12
    <3> HIDE DEF c, d
    <3>2. f[1] = 256 * f[0] + s[1] /\ f[2] = 256 * f[1] + s[2]
      BY <2>8, <2>12
    <3> QED
      BY <2>7, <2>8, <2>9, <2>12, <3>1, <3>2 DEF Fits, s
  <2>13. CASE n = 4
    <3>1. s[1] = a /\ s[2] = b
      BY <2>3, <2>4, <2>13
    <3>2. s[3] = c /\ s[4] = d
      BY <2>3, <2>4, <2>10, <2>13
    <3> HIDE DEF a, b, c, d
    <3>3. /\ f[1] = 256 * f[0] + s[1] /\ f[2] = 256 * f[1] + s[2]
          /\ f[3] = 256 * f[2] + s[3] /\ f[4] = 256 * f[3] + s[4]
      BY <2>8, <2>13
    <3> QED
      BY <2>7, <2>8, <2>9, <2>13, <3>1, <3>2, <3>3 DEF s
  <2>14. CASE n = 8
    <3>1. s[1] = 0 /\ s[2] = 0 /\ s[3] = 0 /\ s[4] = 0
      BY <2>4, <2>14
    <3>2. s[5] = a /\ s[6] = b
      BY <2>3, <2>4, <2>14
    <3>3. s[7] = c /\ s[8] = d
      BY <2>3, <2>4, <2>10, <2>14
    <3> HIDE DEF a, b, c, d
    <3>4. /\ f[1] = 256 * f[0] + s[1] /\ f[2] = 256 * f[1] + s[2]
          /\ f[3] = 256 * f[2] + s[3] /\ f[4] = 256 * f[3] + s[4]
      BY <2>8, <2>14
    <3>5. /\ f[5] = 256 * f[4] + s[5] /\ f[6] = 256 * f[5] + s[6]
          /\ f[7] = 256 * f[6] + s[7] /\ f[8] = 256 * f[7] + s[8]
      BY <2>8, <2>14
    <3> QED
      BY <2>7, <2>8, <2>9, <2>14, <3>1, <3>2, <3>3, <3>4, <3>5 DEF s
  <2> QED
    BY <2>11, <2>12, <2>13, <2>14
<1> QED
  BY <1>1, <1>2

(* The bytes that are left of a word when it is shifted are the argument.  *)
LEMMA ShiftIs ==
  ASSUME NEW i \in 24 .. 27
  PROVE  9 - (((56 * 2^(i - 24)) % 64) \div 8) = 1 + 2^(i - 24) /\ 2^(i - 24) \in {1, 2, 4, 8}
<1>1. 2^0 = 1 /\ 2^1 = 2 /\ 2^2 = 4 /\ 2^3 = 8
  BY SMT
<1>2. CASE i = 24
  <2>1. i - 24 = 0
    BY <1>2
  <2> QED
    BY <1>1, <2>1, SMT
<1>3. CASE i = 25
  <2>1. i - 24 = 1
    BY <1>3
  <2> QED
    BY <1>1, <2>1, SMT
<1>4. CASE i = 26
  <2>1. i - 24 = 2
    BY <1>4
  <2> QED
    BY <1>1, <2>1, SMT
<1>5. CASE i = 27
  <2>1. i - 24 = 3
    BY <1>5
  <2> QED
    BY <1>1, <2>1, SMT
<1> QED
  BY <1>2, <1>3, <1>4, <1>5

(* do_parse_item_head finds the same value whether it loads a whole word   *)
(* and shifts it or loads the bytes of the argument, for any bytes.        *)
THEOREM ParsersAgree ==
  ASSUME NEW nine \in Seq(Bytes), Len(nine) = VarUintMax
  PROVE  LET length == LengthOf(nine[1]) IN
         /\ length \in 1 .. VarUintMax
         /\ InfoOf(nine[1]) <= 27 => FastValue(nine) = SlowValue(SubSeq(nine, 1, length))
<1> DEFINE i == InfoOf(nine[1])
           length == LengthOf(nine[1])
           slow == SubSeq(nine, 1, length)
<1>1. nine[1] \in Bytes /\ Len(nine) = 9
  BY DEF VarUintMax
<1>2. \A byte \in Bytes : InfoOf(byte) \in 0 .. 31
  BY DEF Bytes, InfoOf
<1>3. i \in 0 .. 31
  BY <1>1, <1>2
<1>4. length = IF i \in 24 .. 27 THEN 1 + 2^(i - 24) ELSE 1
  BY Zenon DEF LengthOf
<1>5. FastValue(nine) = IF length = 1 THEN i
                        ELSE Load(SubSeq(nine, 2, 9 - (((56 * 2^(i - 24)) % 64) \div 8)))
  BY Zenon DEF FastValue
<1>6. SlowValue(slow) = IF Len(slow) = 1 THEN InfoOf(slow[1]) ELSE Load(SubSeq(slow, 2, Len(slow)))
  BY Zenon DEF SlowValue
<1> HIDE DEF i, length
<1>7. length \in 1 .. 9
  <2>1. CASE i \in 24 .. 27
    <3>1. 2^(i - 24) \in {1, 2, 4, 8}
      BY <2>1, ShiftIs
    <3>2. length = 1 + 2^(i - 24)
      BY <1>4, <2>1
    <3> QED
      BY <3>1, <3>2
  <2>2. CASE i \notin 24 .. 27
    BY <1>4, <2>2
  <2> QED
    BY <2>1, <2>2
<1>8. /\ slow \in Seq(Bytes) /\ Len(slow) = length
      /\ \A k \in 1 .. length : slow[k] = nine[k]
  <2>1. length \in Int /\ 1 \in Int /\ 1 <= length /\ \A k \in 1 .. length : nine[k] \in Bytes
    <3>1. \A k \in 1 .. Len(nine) : nine[k] \in Bytes
      OBVIOUS
    <3>2. \A k \in 1 .. length : k \in 1 .. Len(nine)
      BY <1>1, <1>7
    <3>3. length \in Int /\ 1 \in Int /\ 1 <= length
      BY <1>7
    <3> QED
      BY <3>1, <3>2, <3>3
  <2>2. /\ slow \in Seq(Bytes)
        /\ Len(slow) = IF 1 <= length THEN length - 1 + 1 ELSE 0
        /\ \A k \in 1 .. length - 1 + 1 : slow[k] = nine[1 + k - 1]
    BY <2>1, SubSeqProperties
  <2>3. length - 1 + 1 = length /\ \A k \in 1 .. length : 1 + k - 1 = k
    BY <1>7
  <2> HIDE DEF slow
  <2> QED
    BY <2>1, <2>2, <2>3
<1> HIDE DEF slow
<1>9. CASE i \in 24 .. 27
  <2>1. length # 1 /\ FastValue(nine) = Load(SubSeq(nine, 2, length))
    <3>1. 2^(i - 24) \in {1, 2, 4, 8}
      BY <1>9, ShiftIs
    <3>2. length = 1 + 2^(i - 24)
      BY <1>4, <1>9
    <3>3. length # 1
      BY <3>1, <3>2
    <3>4. 9 - (((56 * 2^(i - 24)) % 64) \div 8) = length
      BY <1>9, <3>2, ShiftIs
    <3> QED
      BY <1>5, <3>3, <3>4, Zenon
  <2>2. SubSeq(slow, 2, Len(slow)) = SubSeq(nine, 2, length)
    BY <1>1, <1>7, <1>8, <2>1
  <2> QED
    BY <1>6, <1>7, <1>8, <2>1, <2>2 DEF VarUintMax, slow, length
<1>10. CASE i <= 23 \/ i > 27
  <2>1. length = 1
    BY <1>3, <1>4, <1>10
  <2> QED
    BY <1>1, <1>5, <1>6, <1>8, <2>1 DEF VarUintMax, slow, length, i
<1> QED
  BY <1>3, <1>9, <1>10

(* What a head's initial byte says                                         *)
LEMMA InitialByte ==
  ASSUME NEW type \in TypeNames, NEW i \in 0 .. 27
  PROVE  LET byte == Code(type) + i IN
         TypeOf(byte) = type /\ InfoOf(byte) = i /\ WellFormedInfo(byte)
<1>1. PICK n \in 1 .. 8 : MajorTypes[n] = type /\ Code(type) = 32 * (n - 1)
  BY CodeOf
<1> DEFINE byte == Code(type) + i
<1>2. byte \div 32 = n - 1 /\ byte % 32 = i
  BY <1>1
<1> HIDE DEF byte
<1>3. byte \div 32 + 1 = n
  BY <1>2
<1>4. TypeOf(byte) = type
  BY <1>1, <1>3, Zenon DEF TypeOf
<1>5. InfoOf(byte) = i
  BY <1>2, Zenon DEF InfoOf
<1>6. WellFormedInfo(byte)
  BY <1>5 DEF WellFormedInfo
<1> QED
  BY <1>4, <1>5, <1>6 DEF byte

(* What store_var_uint writes do_parse_item_head reads back, on both of    *)
(* its paths and whatever follows the head: the type, the length and the   *)
(* value.  Only a special value from 24 to 31 would be refused.            *)
THEOREM HeadsReadBack ==
  ASSUME NEW type \in TypeNames, NEW v \in Nat, v <= Huge
  PROVE  LET bytes == HeadBytes(type, v) IN
         /\ TypeOf(bytes[1]) = type
         /\ WellFormedInfo(bytes[1]) /\ InfoOf(bytes[1]) # IndefiniteInfo
         /\ LengthOf(bytes[1]) = Len(bytes)
         /\ SlowValue(bytes) = v
         /\ \A rest \in Seq(Bytes) : Len(bytes \o rest) = VarUintMax => FastValue(bytes \o rest) = v
         /\ Forbidden(bytes[1], v) <=> type = "special" /\ InlineMax < v /\ v < 32
<1> DEFINE bytes == HeadBytes(type, v)
           first == bytes[1]
<1>1. bytes \in Seq(Bytes) /\ Len(bytes) \in 1 .. 9
  <2>1. /\ bytes \in Seq(Bytes) /\ Len(bytes) = EncodedSize(v)
        /\ EncodedSize(v) \in Nat /\ 1 <= EncodedSize(v) /\ EncodedSize(v) <= 9
    BY HeadLength
  <2> HIDE DEF bytes
  <2> QED
    BY <2>1
<1>2. /\ TypeOf(first) = type /\ InfoOf(first) \in 0 .. 27 /\ WellFormedInfo(first)
      /\ LengthOf(first) = Len(bytes) /\ SlowValue(bytes) = v
      /\ LengthOf(first) = 2 <=> InlineMax < v /\ v <= 255
  <2>1. CASE v <= InlineMax
    <3>1. bytes = <<Code(type) + v>>
      BY <2>1, Zenon DEF HeadBytes
    <3>2. v \in 0 .. 27 /\ v \notin 24 .. 27
      BY <2>1 DEF InlineMax
    <3>3. first = Code(type) + v /\ Len(bytes) = 1
      BY <3>1
    <3> HIDE DEF first, bytes
    <3>4. TypeOf(first) = type /\ InfoOf(first) = v /\ WellFormedInfo(first)
      BY <3>2, <3>3, InitialByte
    <3>5. LengthOf(first) = 1
      BY <3>2, <3>4, Zenon DEF LengthOf
    <3>6. SlowValue(bytes) = v
      BY <3>3, <3>4, Zenon DEF SlowValue, first
    <3> QED
      BY <2>1, <3>2, <3>3, <3>4, <3>5, <3>6 DEF InlineMax
  <2>2. CASE ~(v <= InlineMax)
    <3> DEFINE b == BytePowerPlus2(v)
               w == 2^(b - 2)
    <3>1. b = IF v <= 255 THEN 2 ELSE IF v <= 65535 THEN 3 ELSE IF v < Huge THEN 4 ELSE 5
      <4>1. InlineMax < v
        BY <2>2 DEF InlineMax
      <4> QED
        BY <4>1, BytePower
    <3>2. w = IF v <= 255 THEN 1 ELSE IF v <= 65535 THEN 2 ELSE IF v < Huge THEN 4 ELSE 8
      BY <3>1, SMT
    <3>3. bytes = <<Code(type) + InlineMax + b - 1>> \o Store(v, w)
      BY <2>2, Zenon DEF HeadBytes
    <3>4. b \in {2, 3, 4, 5}
      BY <3>1, SMT
    <3> HIDE DEF b
    <3>5. 23 + b - 1 \in 24 .. 27 /\ (23 + b - 1) - 24 = b - 2
      BY <3>4
    <3> DEFINE i == 23 + b - 1
    <3>6. i \in 24 .. 27 /\ w = 2^(i - 24)
      BY <3>5, Zenon
    <3> HIDE DEF w, i, bytes
    <3>7. w \in {1, 2, 4, 8}
      BY <3>2, SMT
    <3>8. Fits(v, w)
      BY <3>2, HugeIs, SMT DEF Fits
    <3>9. Store(v, w) \in Seq(Bytes) /\ Len(Store(v, w)) = w
      BY <3>7, StoreType
    <3>10. Load(Store(v, w)) = v
      BY <3>7, <3>8, LoadOfStore
    <3>11. Code(type) + InlineMax + b - 1 = Code(type) + i
      <4>1. Code(type) \in Nat
        BY CodeOf
      <4> QED
        BY <3>4, <4>1 DEF InlineMax, i
    <3>12. bytes = <<Code(type) + i>> \o Store(v, w)
      BY <3>3, <3>11
    <3>13. first = Code(type) + i /\ Len(bytes) = 1 + w
      BY <3>9, <3>12
    <3>14. SubSeq(bytes, 2, Len(bytes)) = Store(v, w)
      BY <3>7, <3>9, <3>12, <3>13
    <3> HIDE DEF first
    <3>15. TypeOf(first) = type /\ InfoOf(first) = i /\ WellFormedInfo(first)
      <4>1. i \in 0 .. 27
        BY <3>6
      <4> QED
        BY <3>13, <4>1, InitialByte
    <3>16. LengthOf(first) = 1 + w
      BY <3>6, <3>15, Zenon DEF LengthOf
    <3>17. Len(bytes) # 1
      BY <3>7, <3>13
    <3>18. SlowValue(bytes) = v
      BY <3>10, <3>14, <3>17, Zenon DEF SlowValue
    <3>19. LengthOf(first) = 2 <=> InlineMax < v /\ v <= 255
      BY <2>2, <3>2, <3>16, HugeIs DEF InlineMax
    <3>20. InfoOf(first) \in 0 .. 27
      BY <3>6, <3>15
    <3> QED
      BY <3>13, <3>15, <3>16, <3>18, <3>19, <3>20
  <2> QED
    BY <2>1, <2>2
<1> HIDE DEF first, bytes
<1>3. InfoOf(first) \in 0 .. 27 /\ LengthOf(first) = Len(bytes)
  BY <1>2, Zenon
<1>4. ASSUME NEW rest \in Seq(Bytes), Len(bytes \o rest) = VarUintMax
      PROVE  FastValue(bytes \o rest) = v
  <2> DEFINE nine == bytes \o rest
  <2>1. nine \in Seq(Bytes) /\ nine[1] = first /\ SubSeq(nine, 1, Len(bytes)) = bytes
    BY <1>1 DEF first
  <2> HIDE DEF nine
  <2>2. InfoOf(nine[1]) <= 27 /\ LengthOf(nine[1]) = Len(bytes)
    <3>1. \A n \in 0 .. 27 : n <= 27
      OBVIOUS
    <3> QED
      BY <1>3, <2>1, <3>1, Zenon
  <2>3. FastValue(nine) = SlowValue(SubSeq(nine, 1, LengthOf(nine[1])))
    BY <1>4, <2>1, <2>2, ParsersAgree DEF nine
  <2> QED
    BY <1>2, <2>1, <2>2, <2>3 DEF nine
<1>5. InfoOf(first) # IndefiniteInfo
  <2>1. \A n \in 0 .. 27 : n # 31
    OBVIOUS
  <2> QED
    BY <1>3, <2>1, Zenon DEF IndefiniteInfo
<1>6. Forbidden(first, v) <=> type = "special" /\ InlineMax < v /\ v < 32
  BY <1>2 DEF Forbidden, InlineMax
<1> QED
  BY <1>2, <1>4, <1>5, <1>6 DEF first, bytes

-----------------------------------------------------------------------------
(* Sequences put together                                                  *)

(* f[k] is what the first k of the sequences are together.                 *)
IsFlattening(f, S, s) ==
  /\ f \in [0 .. Len(s) -> Seq(S)]
  /\ f[0] = <<>>
  /\ \A k \in 1 .. Len(s) : f[k] = f[k - 1] \o s[k]

LEMMA EmptyIsUnit ==
  ASSUME NEW S PROVE <<>> \in Seq(S) /\ Len(<<>>) = 0 /\ \A s \in Seq(S) : <<>> \o s = s /\ s \o <<>> = s
OBVIOUS

LEMMA FlatteningExists ==
  ASSUME NEW S, NEW s \in Seq(Seq(S))
  PROVE  /\ \E f : IsFlattening(f, S, s)
         /\ \A f, g : IsFlattening(f, S, s) /\ IsFlattening(g, S, s) => f = g
<1> DEFINE V == Seq(S)
           n == Len(s)
           a == <<>>
           H == [p \in (1 .. n) \X V |-> p[2] \o s[p[1]]]
<1>1. n \in Nat /\ a \in V
  OBVIOUS
<1>2. \A k \in 1 .. n, x \in V : <<k, x>> \in (1 .. n) \X V /\ x \o s[k] \in V
  OBVIOUS
<1>3. H \in [(1 .. n) \X V -> V]
  BY <1>2
<1>4. \A k \in 1 .. n, x \in V : H[<<k, x>>] = x \o s[k]
  BY <1>2
<1>5. \A f : IsRun(f, V, n, a, H) <=> IsFlattening(f, S, s)
  <2> TAKE f
  <2>1. f \in [0 .. n -> V] => \A k \in 1 .. n : f[k - 1] \in V
    OBVIOUS
  <2>2. f \in [0 .. n -> V] => \A k \in 1 .. n : H[<<k, f[k - 1]>>] = f[k - 1] \o s[k]
    BY <1>4, <2>1
  <2> HIDE DEF H
  <2> QED
    BY <2>2 DEF IsRun, IsFlattening
<1> HIDE DEF H, V, n, a
<1>6. /\ \E f : IsRun(f, V, n, a, H)
      /\ \A f, g : IsRun(f, V, n, a, H) /\ IsRun(g, V, n, a, H) => f = g
  BY <1>1, <1>3, Iteration
<1> QED
  BY <1>5, <1>6

LEMMA FlattenIs ==
  ASSUME NEW S, NEW s \in Seq(Seq(S)), NEW f, IsFlattening(f, S, s)
  PROVE  FlattenSeq(s) = f[Len(s)] /\ FlattenSeq(s) \in Seq(S)
<1>1. f \in [0 .. Len(s) -> Seq(S)] /\ Len(s) \in Nat
  BY DEF IsFlattening
<1>2. CASE Len(s) = 0
  <2>1. FlattenSeq(s) = s /\ s = <<>>
    BY <1>2 DEF FlattenSeq
  <2> QED
    BY <1>1, <1>2, <2>1 DEF IsFlattening
<1>3. CASE Len(s) # 0
  <2> DEFINE body(g) == [i \in 1 .. Len(s) |-> IF i = 1 THEN s[i] ELSE g[i - 1] \o s[i]]
             P(g) == g = body(g)
             h == CHOOSE g : P(g)
  <2>1. FlattenSeq(s) = h[Len(s)]
    BY <1>3, Zenon DEF FlattenSeq
  <2>2. P([i \in 1 .. Len(s) |-> f[i]])
    <3>1. \A i \in 1 .. Len(s) : f[i] = IF i = 1 THEN s[i] ELSE f[i - 1] \o s[i]
      <4> TAKE i \in 1 .. Len(s)
      <4>1. f[i] = f[i - 1] \o s[i] /\ s[i] \in Seq(S)
        BY DEF IsFlattening
      <4>2. CASE i = 1
        <5>1. f[i - 1] = <<>>
          BY <4>2 DEF IsFlattening
        <5>2. <<>> \o s[i] = s[i]
          BY <4>1, EmptyIsUnit
        <5> QED
          BY <4>1, <4>2, <5>1, <5>2
      <4> QED
        BY <4>1, <4>2
    <3> QED
      BY <3>1
  <2> HIDE DEF P
  <2>3. P(h)
    BY <2>2, Zenon
  <2>4. h = body(h)
    BY <2>3 DEF P
  <2> HIDE DEF h
  <2> DEFINE T == {k \in Nat : k + 1 <= Len(s) => h[k + 1] = f[k + 1]}
  <2>5. 0 \in T
    <3>1. 1 \in 1 .. Len(s) /\ h[1] = s[1]
      BY <1>1, <1>3, <2>4
    <3>2. f[1] = f[0] \o s[1] /\ f[0] = <<>> /\ s[1] \in Seq(S)
      <4>1. f[1] = f[0] \o s[1] /\ f[0] = <<>>
        <5>1. 1 - 1 = 0
          OBVIOUS
        <5> DEFINE k == 1
        <5>2. k \in 1 .. Len(s) /\ k - 1 = 0
          BY <3>1, <5>1
        <5> HIDE DEF k
        <5>3. f[k] = f[k - 1] \o s[k] /\ f[0] = <<>>
          BY <5>2 DEF IsFlattening
        <5> QED
          BY <5>2, <5>3 DEF k
      <4>2. s[1] \in Seq(S)
        BY <3>1
      <4> QED
        BY <4>1, <4>2
    <3>3. <<>> \o s[1] = s[1]
      BY <3>2, EmptyIsUnit
    <3> QED
      BY <3>1, <3>2, <3>3
  <2>6. ASSUME NEW k \in Nat, k \in T PROVE k + 1 \in T
    <3> SUFFICES ASSUME (k + 1) + 1 <= Len(s) PROVE h[(k + 1) + 1] = f[(k + 1) + 1]
      OBVIOUS
    <3>1. h[k + 1] = f[k + 1]
      BY <2>6
    <3>2. (k + 1) + 1 \in 1 .. Len(s) /\ (k + 1) + 1 # 1 /\ ((k + 1) + 1) - 1 = k + 1
      BY <1>1
    <3>3. h[(k + 1) + 1] = h[k + 1] \o s[(k + 1) + 1]
      BY <2>4, <3>2
    <3>4. f[(k + 1) + 1] = f[k + 1] \o s[(k + 1) + 1]
      BY <3>2 DEF IsFlattening
    <3> QED
      BY <3>1, <3>3, <3>4
  <2> HIDE DEF T
  <2>7. \A k \in Nat : k \in T
    BY <2>5, <2>6, NumberInduction
  <2>8. Len(s) - 1 \in T /\ Len(s) - 1 \in Nat /\ (Len(s) - 1) + 1 = Len(s)
    BY <1>1, <1>3, <2>7
  <2>9. h[Len(s)] = f[Len(s)]
    BY <1>1, <2>8 DEF T
  <2> QED
    BY <1>1, <2>1, <2>9
<1> QED
  BY <1>2, <1>3

LEMMA FlattenEmpty == FlattenSeq(<<>>) = <<>>
BY DEF FlattenSeq

LEMMA FlattenAppend ==
  ASSUME NEW S, NEW s \in Seq(Seq(S)), NEW e \in Seq(S)
  PROVE  /\ FlattenSeq(Append(s, e)) = FlattenSeq(s) \o e
         /\ FlattenSeq(s) \in Seq(S) /\ FlattenSeq(Append(s, e)) \in Seq(S)
<1>1. PICK f : IsFlattening(f, S, s)
  BY FlatteningExists
<1> DEFINE t == Append(s, e)
           n == Len(s)
           g == [k \in 0 .. Len(s) + 1 |-> IF k = Len(s) + 1 THEN f[Len(s)] \o e ELSE f[k]]
<1>2. /\ n \in Nat /\ f \in [0 .. n -> Seq(S)] /\ f[0] = <<>>
      /\ \A k \in 1 .. n : f[k] = f[k - 1] \o s[k]
  BY <1>1 DEF IsFlattening
<1>3. /\ t \in Seq(Seq(S)) /\ Len(t) = n + 1 /\ t[n + 1] = e
      /\ \A k \in 1 .. n : t[k] = s[k]
  OBVIOUS
<1>4. IsFlattening(g, S, t)
  <2>1. f[n] \o e \in Seq(S) /\ g[n + 1] = f[n] \o e /\ \A k \in 0 .. n : g[k] = f[k]
    <3>1. n \in 0 .. n /\ n + 1 \in 0 .. n + 1
      BY <1>2
    <3>2. f[n] \in Seq(S)
      BY <1>2, <3>1
    <3>3. f[n] \o e \in Seq(S)
      BY <3>2
    <3>4. g[n + 1] = f[n] \o e
      BY <3>1
    <3>5. \A k \in 0 .. n : g[k] = f[k]
      BY <1>2
    <3> QED
      BY <3>3, <3>4, <3>5
  <2>2. g \in [0 .. n + 1 -> Seq(S)]
    BY <1>2, <2>1
  <2> HIDE DEF g, t
  <2>3. \A k \in 1 .. n + 1 : g[k] = g[k - 1] \o t[k]
    <3> TAKE k \in 1 .. n + 1
    <3>1. CASE k = n + 1
      <4>1. k - 1 = n /\ n \in 0 .. n
        BY <1>2, <3>1
      <4> QED
        BY <1>3, <2>1, <3>1, <4>1
    <3>2. CASE k # n + 1
      <4>1. k \in 1 .. n /\ k \in 0 .. n /\ k - 1 \in 0 .. n
        BY <1>2, <3>2
      <4> QED
        BY <1>2, <1>3, <2>1, <4>1
    <3> QED
      BY <3>1, <3>2
  <2>4. g[0] = <<>>
    <3>1. 0 \in 0 .. n
      BY <1>2
    <3> QED
      BY <1>2, <2>1, <3>1
  <2> QED
    BY <1>3, <2>2, <2>3, <2>4 DEF IsFlattening
<1>5. FlattenSeq(s) = f[n] /\ FlattenSeq(s) \in Seq(S)
  BY <1>1, FlattenIs
<1>6. g[n + 1] = f[n] \o e
  <2>1. n + 1 \in 0 .. n + 1
    BY <1>2
  <2> QED
    BY <2>1
<1> HIDE DEF g, t
<1>7. FlattenSeq(t) = g[n + 1] /\ FlattenSeq(t) \in Seq(S)
  BY <1>3, <1>4, FlattenIs
<1> QED
  BY <1>5, <1>6, <1>7 DEF t

LEMMA FrontAndLast ==
  ASSUME NEW S, NEW s \in Seq(S), s # <<>>
  PROVE  \E t \in Seq(S), e \in S : s = Append(t, e) /\ Len(s) = Len(t) + 1
<1> DEFINE n == Len(s)
           t == [k \in 1 .. n - 1 |-> s[k]]
<1>1. n \in Nat /\ n # 0
  OBVIOUS
<1>2. t \in Seq(S) /\ Len(t) = n - 1 /\ s[n] \in S
  BY <1>1
<1>3. s = Append(t, s[n])
  <2>1. Len(Append(t, s[n])) = n /\ Append(t, s[n]) \in Seq(S)
    BY <1>1, <1>2
  <2>2. \A k \in 1 .. n : Append(t, s[n])[k] = s[k]
    BY <1>1, <1>2
  <2> HIDE DEF t
  <2> QED
    BY <2>1, <2>2, SeqEqual
<1>4. Len(s) = Len(t) + 1
  BY <1>1, <1>2
<1> DEFINE e == s[n]
<1> HIDE DEF t, n, e
<1>5. t \in Seq(S) /\ e \in S /\ s = Append(t, e) /\ Len(s) = Len(t) + 1
  BY <1>2, <1>3, <1>4 DEF e, n
<1> QED
  BY <1>5

LEMMA Reassociate ==
  \A S : \A a \in Seq(S), b \in Seq(S), c \in Seq(S) : (a \o b) \o c = a \o (b \o c)
BY ConcatAssociative

LEMMA FlattenConcat ==
  ASSUME NEW S, NEW s \in Seq(Seq(S)), NEW t \in Seq(Seq(S))
  PROVE  FlattenSeq(s \o t) = FlattenSeq(s) \o FlattenSeq(t)
<1> DEFINE Q == Seq(Seq(S))
           T == {n \in Nat : \A u \in Q : Len(u) = n =>
                               FlattenSeq(s \o u) = FlattenSeq(s) \o FlattenSeq(u)}
<1>1. FlattenSeq(s) \in Seq(S)
  <2>1. <<>> \in Seq(S)
    OBVIOUS
  <2> QED
    BY <2>1, FlattenAppend
<1>2. 0 \in T
  <2>1. ASSUME NEW u \in Q, Len(u) = 0
        PROVE  FlattenSeq(s \o u) = FlattenSeq(s) \o FlattenSeq(u)
    <3>1. u = <<>> /\ s \o u = s
      BY <2>1
    <3>2. FlattenSeq(s) \o <<>> = FlattenSeq(s)
      BY <1>1, EmptyIsUnit
    <3> QED
      BY <3>1, <3>2, FlattenEmpty
  <2> QED
    BY <2>1
<1>3. ASSUME NEW n \in Nat, n \in T PROVE n + 1 \in T
  <2>1. ASSUME NEW u \in Q, Len(u) = n + 1
        PROVE  FlattenSeq(s \o u) = FlattenSeq(s) \o FlattenSeq(u)
    <3>1. u # <<>>
      BY <2>1
    <3>2. PICK v \in Q, e \in Seq(S) : u = Append(v, e) /\ Len(u) = Len(v) + 1
      BY <3>1, FrontAndLast
    <3>3. Len(v) = n
      BY <2>1, <3>2
    <3>4. FlattenSeq(s \o v) = FlattenSeq(s) \o FlattenSeq(v)
      BY <1>3, <3>3
    <3>5. s \o u = Append(s \o v, e) /\ s \o v \in Q
      BY <3>2
    <3>6. FlattenSeq(s \o u) = FlattenSeq(s \o v) \o e
      BY <3>5, FlattenAppend
    <3>7. FlattenSeq(u) = FlattenSeq(v) \o e /\ FlattenSeq(v) \in Seq(S)
      BY <3>2, FlattenAppend
    <3>8. (FlattenSeq(s) \o FlattenSeq(v)) \o e = FlattenSeq(s) \o (FlattenSeq(v) \o e)
      <4> DEFINE a == FlattenSeq(s)
                 b == FlattenSeq(v)
      <4>1. a \in Seq(S) /\ b \in Seq(S) /\ e \in Seq(S)
        BY <1>1, <3>2, <3>7
      <4> HIDE DEF a, b
      <4>2. (a \o b) \o e = a \o (b \o e)
        BY <4>1, Reassociate
      <4> QED
        BY <4>2 DEF a, b
    <3> QED
      BY <3>4, <3>6, <3>7, <3>8, Zenon
  <2> QED
    BY <2>1
<1> HIDE DEF T
<1>4. \A n \in Nat : n \in T
  BY <1>2, <1>3, NumberInduction
<1> QED
  <2>1. Len(t) \in T
    BY <1>4
  <2> QED
    BY <2>1 DEF T

(* Total adds up.                                                          *)
IsSum(f, s) ==
  /\ f \in [0 .. Len(s) -> Nat]
  /\ f[0] = 0
  /\ \A k \in 1 .. Len(s) : f[k] = f[k - 1] + s[k]

LEMMA TotalIs ==
  ASSUME NEW s \in Seq(Nat)
  PROVE  /\ \E f : IsSum(f, s)
         /\ \A f : IsSum(f, s) => Total(s) = f[Len(s)]
<1> DEFINE n == Len(s)
           H == [p \in (1 .. n) \X Nat |-> p[2] + s[p[1]]]
           body(g) == [k \in 0 .. Len(s) |-> IF k = 0 THEN 0 ELSE g[k - 1] + s[k]]
           P(g) == g = body(g)
<1>1. n \in Nat /\ \A k \in 1 .. n : s[k] \in Nat
  OBVIOUS
<1>2. H \in [(1 .. n) \X Nat -> Nat] /\ \A k \in 1 .. n, x \in Nat : H[<<k, x>>] = x + s[k]
  BY <1>1
<1>3. \A f : IsRun(f, Nat, n, 0, H) <=> IsSum(f, s)
  <2> TAKE f
  <2>1. f \in [0 .. n -> Nat] => \A k \in 1 .. n : H[<<k, f[k - 1]>>] = f[k - 1] + s[k]
    <3> HIDE DEF H, n
    <3>1. \A k \in 1 .. n : k - 1 \in 0 .. n
      BY <1>1
    <3>2. f \in [0 .. n -> Nat] => \A k \in 1 .. n : f[k - 1] \in Nat
      BY <3>1
    <3> QED
      BY <1>2, <3>2
  <2> HIDE DEF H
  <2> QED
    BY <2>1 DEF IsRun, IsSum
<1>4. /\ \E f : IsRun(f, Nat, n, 0, H)
      /\ \A f, g : IsRun(f, Nat, n, 0, H) /\ IsRun(g, Nat, n, 0, H) => f = g
  <2> HIDE DEF H, n
  <2> QED
    BY <1>1, <1>2, Iteration
<1>5. PICK f : IsSum(f, s)
  BY <1>3, <1>4
<1>6. P(f)
  <2>1. f = [k \in 0 .. Len(s) |-> f[k]]
    BY <1>5 DEF IsSum
  <2>2. \A k \in 0 .. Len(s) : f[k] = IF k = 0 THEN 0 ELSE f[k - 1] + s[k]
    BY <1>1, <1>5 DEF IsSum
  <2> QED
    BY <2>1, <2>2
<1> DEFINE h == CHOOSE g : P(g)
<1>7. Total(s) = h[Len(s)]
  BY Zenon DEF Total
<1>8. h = body(h)
  <2> HIDE DEF P
  <2>1. P(h)
    BY <1>6, Zenon
  <2> QED
    BY <2>1 DEF P
<1> HIDE DEF h
<1>9. h = f
  <2> DEFINE T == {k \in Nat : k <= n => h[k] = f[k]}
  <2>1. 0 \in T
    BY <1>1, <1>5, <1>8 DEF IsSum
  <2>2. ASSUME NEW k \in Nat, k \in T PROVE k + 1 \in T
    <3> SUFFICES ASSUME k + 1 <= n PROVE h[k + 1] = f[k + 1]
      OBVIOUS
    <3>1. k + 1 \in 1 .. n /\ (k + 1) - 1 = k /\ h[k] = f[k] /\ k + 1 # 0
      BY <1>1, <2>2
    <3>2. h[k + 1] = h[k] + s[k + 1]
      BY <1>8, <3>1
    <3>3. f[k + 1] = f[k] + s[k + 1]
      BY <1>5, <3>1 DEF IsSum
    <3> QED
      BY <3>1, <3>2, <3>3
  <2> HIDE DEF T
  <2>3. \A k \in Nat : k \in T
    BY <2>1, <2>2, NumberInduction
  <2>4. \A k \in 0 .. n : h[k] = f[k]
    BY <2>3 DEF T
  <2>5. f = [k \in 0 .. n |-> f[k]] /\ h = [k \in 0 .. n |-> h[k]]
    BY <1>5, <1>8 DEF IsSum
  <2> QED
    BY <2>4, <2>5
<1>10. \A g : IsSum(g, s) => g = f
  BY <1>3, <1>4, <1>5
<1> QED
  BY <1>5, <1>7, <1>9, <1>10

-----------------------------------------------------------------------------
(* The calls of encoders                                                   *)

VarUints ==
  {c \in [name : {"varuint"}, type : TypeNames, value : 0 .. Huge, arg : {4, 8}] :
     c.arg = 4 => c.value # Huge}

Stores ==
  [name : {"inline", "float"}, type : TypeNames, value : {0}, arg : {s \in Seq(Bytes) : Len(s) <= 9}]

Bulks == [name : {"bulk"}, type : TypeNames, value : {0}, arg : Seq(Bytes)]

Allocations == [name : {"allocate"}, type : TypeNames, value : {0}, arg : {<<>>}]

Calls == VarUints \union Stores \union Bulks \union Allocations

(* What a call writes are bytes.                                           *)
LEMMA CallBytesType == \A c \in Calls : CallBytes(c) \in Seq(Bytes)
<1> TAKE c \in Calls
<1>1. CASE c \in VarUints
  <2>1. c.name = "varuint" /\ c.type \in TypeNames /\ c.value \in 0 .. Huge
    BY <1>1 DEF VarUints
  <2>2. c.value \in Nat /\ c.value <= Huge
    BY <2>1, HugeIs
  <2> DEFINE v == c.value
  <2> HIDE DEF v
  <2>3. HeadBytes(c.type, v) \in Seq(Bytes)
    BY <2>1, <2>2, HeadLength DEF v
  <2> QED
    BY <2>1, <2>3 DEF CallBytes, v
<1>2. CASE c \in Stores \union Bulks \union Allocations
  <2>1. CASE c \in Stores
    BY <2>1 DEF Stores, CallBytes
  <2>2. CASE c \in Bulks
    BY <2>2 DEF Bulks, CallBytes
  <2>3. CASE c \in Allocations
    <3>1. c.name # "varuint" /\ c.arg = <<>>
      BY <2>3 DEF Allocations
    <3> QED
      BY <3>1, EmptyIsUnit DEF CallBytes
  <2> QED
    BY <1>2, <2>1, <2>2, <2>3
<1> QED
  BY <1>1, <1>2 DEF Calls

LEMMA BytesOfType ==
  ASSUME NEW calls \in Seq(Calls)
  PROVE  /\ [k \in DOMAIN calls |-> CallBytes(calls[k])] \in Seq(Seq(Bytes))
         /\ Len([k \in DOMAIN calls |-> CallBytes(calls[k])]) = Len(calls)
         /\ BytesOf(calls) \in Seq(Bytes)
<1> DEFINE s == [k \in DOMAIN calls |-> CallBytes(calls[k])]
<1>1. s \in Seq(Seq(Bytes)) /\ Len(s) = Len(calls)
  <2>1. DOMAIN calls = 1 .. Len(calls) /\ Len(calls) \in Nat /\ \A k \in 1 .. Len(calls) : calls[k] \in Calls
    OBVIOUS
  <2>2. \A k \in 1 .. Len(calls) : CallBytes(calls[k]) \in Seq(Bytes)
    BY <2>1, CallBytesType
  <2> QED
    BY <2>1, <2>2
<1> HIDE DEF s
<1>2. FlattenSeq(s) \in Seq(Bytes)
  <2>1. <<>> \in Seq(Bytes)
    OBVIOUS
  <2> QED
    BY <1>1, <2>1, FlattenAppend
<1> QED
  BY <1>1, <1>2 DEF BytesOf, s

LEMMA ConcatIs ==
  ASSUME NEW S, NEW a \in Seq(S), NEW b \in Seq(S)
  PROVE  /\ a \o b \in Seq(S) /\ Len(a \o b) = Len(a) + Len(b)
         /\ \A k \in 1 .. Len(a) + Len(b) :
              (a \o b)[k] = IF k <= Len(a) THEN a[k] ELSE b[k - Len(a)]
OBVIOUS

LEMMA BytesOfConcat ==
  ASSUME NEW a \in Seq(Calls), NEW b \in Seq(Calls)
  PROVE  BytesOf(a \o b) = BytesOf(a) \o BytesOf(b)
<1> DEFINE s == [k \in DOMAIN a |-> CallBytes(a[k])]
           t == [k \in DOMAIN b |-> CallBytes(b[k])]
           u == [k \in DOMAIN (a \o b) |-> CallBytes((a \o b)[k])]
<1>1. s \in Seq(Seq(Bytes)) /\ t \in Seq(Seq(Bytes)) /\ Len(s) = Len(a) /\ Len(t) = Len(b)
  BY BytesOfType
<1>2. a \o b \in Seq(Calls) /\ Len(a \o b) = Len(a) + Len(b) /\ Len(a) \in Nat /\ Len(b) \in Nat
  OBVIOUS
<1>3. u \in Seq(Seq(Bytes)) /\ Len(u) = Len(a) + Len(b)
  BY <1>2, BytesOfType
<1>4. u = s \o t
  <2>1. /\ s \o t \in Seq(Seq(Bytes)) /\ Len(s \o t) = Len(a) + Len(b)
        /\ \A k \in 1 .. Len(a) + Len(b) :
             (s \o t)[k] = IF k <= Len(a) THEN s[k] ELSE t[k - Len(a)]
    <3> DEFINE W == Seq(Bytes)
    <3>1. s \in Seq(W) /\ t \in Seq(W)
      BY <1>1
    <3> HIDE DEF s, t, W
    <3>2. /\ s \o t \in Seq(W) /\ Len(s \o t) = Len(s) + Len(t)
          /\ \A k \in 1 .. Len(s) + Len(t) :
               (s \o t)[k] = IF k <= Len(s) THEN s[k] ELSE t[k - Len(s)]
      BY <3>1, ConcatIs
    <3> QED
      BY <1>1, <3>2 DEF W
  <2>2. ASSUME NEW k \in 1 .. Len(a) + Len(b) PROVE u[k] = (s \o t)[k]
    <3>1. u[k] = CallBytes((a \o b)[k])
      BY <1>2
    <3>2. CASE k <= Len(a)
      <4>1. (a \o b)[k] = a[k] /\ k \in DOMAIN a
        BY <1>2, <3>2
      <4>2. (s \o t)[k] = s[k]
        BY <2>1, <3>2
      <4> QED
        BY <3>1, <4>1, <4>2
    <3>3. CASE ~(k <= Len(a))
      <4>1. (a \o b)[k] = b[k - Len(a)] /\ k - Len(a) \in DOMAIN b
        BY <1>2, <3>3
      <4>2. (s \o t)[k] = t[k - Len(a)]
        BY <2>1, <3>3
      <4> QED
        BY <3>1, <4>1, <4>2
    <3> QED
      BY <3>2, <3>3
  <2> HIDE DEF s, t, u
  <2> QED
    BY <1>3, <2>1, <2>2, SeqEqual
<1> HIDE DEF s, t, u
<1>5. FlattenSeq(s \o t) = FlattenSeq(s) \o FlattenSeq(t)
  BY <1>1, FlattenConcat
<1> QED
  BY <1>4, <1>5 DEF BytesOf, s, t, u

(* The bytes of several sequences of calls are as many as they have        *)
(* together.                                                               *)
LEMMA LengthsAddUp ==
  ASSUME NEW s \in Seq(Seq(Calls)), NEW n \in Seq(Nat), Len(n) = Len(s),
         \A k \in 1 .. Len(s) : n[k] = Len(BytesOf(s[k]))
  PROVE  FlattenSeq(s) \in Seq(Calls) /\ Len(BytesOf(FlattenSeq(s))) = Total(n)
<1>1. PICK f : IsFlattening(f, Calls, s)
  BY FlatteningExists
<1>2. PICK g : IsSum(g, n)
  BY TotalIs
<1>3. FlattenSeq(s) = f[Len(s)] /\ FlattenSeq(s) \in Seq(Calls)
  BY <1>1, FlattenIs
<1>4. Total(n) = g[Len(s)]
  BY <1>2, TotalIs
<1>5. Len(s) \in Nat
  OBVIOUS
<1> DEFINE T == {k \in Nat : k <= Len(s) => Len(BytesOf(f[k])) = g[k]}
<1>6. 0 \in T
  <2>1. f[0] = <<>> /\ g[0] = 0
    BY <1>1, <1>2 DEF IsFlattening, IsSum
  <2>2. BytesOf(<<>>) = <<>>
    BY FlattenEmpty DEF BytesOf
  <2> QED
    BY <2>1, <2>2
<1>7. ASSUME NEW k \in Nat, k \in T PROVE k + 1 \in T
  <2> SUFFICES ASSUME k + 1 <= Len(s) PROVE Len(BytesOf(f[k + 1])) = g[k + 1]
    OBVIOUS
  <2>1. k + 1 \in 1 .. Len(s) /\ (k + 1) - 1 = k /\ k \in 0 .. Len(s)
    BY <1>5
  <2>2. f[k + 1] = f[k] \o s[k + 1] /\ f[k] \in Seq(Calls)
    BY <1>1, <2>1 DEF IsFlattening
  <2>3. g[k + 1] = g[k] + n[k + 1] /\ n[k + 1] = Len(BytesOf(s[k + 1]))
    BY <1>2, <2>1 DEF IsSum
  <2>4. s[k + 1] \in Seq(Calls)
    BY <2>1
  <2>5. BytesOf(f[k + 1]) = BytesOf(f[k]) \o BytesOf(s[k + 1])
    BY <2>2, <2>4, BytesOfConcat
  <2>6. BytesOf(f[k]) \in Seq(Bytes) /\ BytesOf(s[k + 1]) \in Seq(Bytes)
    BY <2>2, <2>4, BytesOfType
  <2>7. Len(BytesOf(f[k + 1])) = Len(BytesOf(f[k])) + Len(BytesOf(s[k + 1]))
    BY <2>5, <2>6
  <2>8. Len(BytesOf(f[k])) = g[k]
    BY <1>7, <2>1
  <2> QED
    BY <2>3, <2>7, <2>8
<1> HIDE DEF T
<1>8. Len(s) \in T
  BY <1>5, <1>6, <1>7, NumberInduction
<1> QED
  BY <1>3, <1>4, <1>5, <1>8 DEF T

-----------------------------------------------------------------------------
(* What the encoder of each type calls                                     *)

LEMMA SingleCall ==
  ASSUME NEW c \in Calls
  PROVE  <<c>> \in Seq(Calls) /\ BytesOf(<<c>>) = CallBytes(c)
<1> DEFINE s == [k \in DOMAIN <<c>> |-> CallBytes(<<c>>[k])]
<1>1. CallBytes(c) \in Seq(Bytes)
  BY CallBytesType
<1>2. s = Append(<<>>, CallBytes(c)) /\ <<>> \in Seq(Seq(Bytes))
  OBVIOUS
<1>3. FlattenSeq(s) = <<>> \o CallBytes(c)
  BY <1>1, <1>2, FlattenAppend, FlattenEmpty
<1>4. FlattenSeq(s) = CallBytes(c)
  BY <1>1, <1>3, EmptyIsUnit
<1> QED
  BY <1>4 DEF BytesOf

LEMMA VarUintCall ==
  ASSUME NEW type \in TypeNames, NEW v \in Nat, v <= Huge, NEW width \in {4, 8},
         width = 4 => v # Huge
  PROVE  /\ VarUint(type, v, width) \in Seq(Calls) /\ Len(BytesOf(VarUint(type, v, width))) = EncodedSize(v)
         /\ BytesOf(VarUint(type, v, width)) = HeadBytes(type, v)
<1> DEFINE c == Call("varuint", type, v, width)
<1>1. c \in Calls
  <2>1. v \in 0 .. Huge
    BY HugeIs
  <2> QED
    BY <2>1 DEF Call, Calls, VarUints
<1>2. CallBytes(c) = HeadBytes(type, v)
  BY DEF CallBytes, Call
<1>3. VarUint(type, v, width) = <<c>>
  BY DEF VarUint
<1> HIDE DEF c
<1>4. Len(HeadBytes(type, v)) = EncodedSize(v)
  BY HeadLength
<1> QED
  BY <1>1, <1>2, <1>3, <1>4, SingleCall

LEMMA StoreCall ==
  ASSUME NEW name \in {"inline", "float"}, NEW bytes \in Seq(Bytes), Len(bytes) <= 9
  PROVE  /\ <<Call(name, "special", 0, bytes)>> \in Seq(Calls)
         /\ BytesOf(<<Call(name, "special", 0, bytes)>>) = bytes
<1> DEFINE c == Call(name, "special", 0, bytes)
<1>1. c \in Calls
  BY DEF Call, Calls, Stores, TypeNames
<1>2. CallBytes(c) = bytes
  BY DEF CallBytes, Call
<1> HIDE DEF c
<1>3. <<c>> \in Seq(Calls) /\ BytesOf(<<c>>) = bytes
  BY <1>1, <1>2, SingleCall
<1> QED
  BY <1>3 DEF c

LEMMA InlineCall ==
  ASSUME NEW byte \in Bytes
  PROVE  Inline(byte) \in Seq(Calls) /\ Len(BytesOf(Inline(byte))) = 1 /\ BytesOf(Inline(byte)) = <<byte>>
<1>1. <<byte>> \in Seq(Bytes) /\ Len(<<byte>>) = 1
  OBVIOUS
<1> DEFINE bytes == <<byte>>
<1> HIDE DEF bytes
<1>2. /\ <<Call("inline", "special", 0, bytes)>> \in Seq(Calls)
      /\ BytesOf(<<Call("inline", "special", 0, bytes)>>) = bytes
  <2>1. bytes \in Seq(Bytes) /\ Len(bytes) <= 9
    BY <1>1 DEF bytes
  <2> QED
    BY <2>1, StoreCall
<1>3. Inline(byte) = <<Call("inline", "special", 0, bytes)>>
  BY DEF Inline, bytes
<1> QED
  BY <1>1, <1>2, <1>3 DEF bytes

(* An integer is at most as large as its type allows.                      *)
LEMMA Limits ==
  ASSUME NEW t, t.n \in {1, 2, 4, 8}, t.flag \in BOOLEAN, NEW v \in Int,
         Complement(v) <= LimitOf(t.n, t.flag)
  PROVE  /\ Complement(v) \in Nat /\ Complement(v) <= Huge
         /\ t.n <= 4 => Complement(v) # Huge
<1>1. Complement(v) \in Nat
  BY DEF Complement
<1>2. /\ LimitOf(t.n, t.flag) <= Huge /\ LimitOf(t.n, t.flag) \in Nat
      /\ t.n <= 4 => LimitOf(t.n, t.flag) < Huge
  BY HugeIs DEF LimitOf
<1> QED
  BY <1>1, <1>2, HugeIs

LEMMA IntegerCalls ==
  ASSUME NEW t, t.n \in {1, 2, 4, 8}, t.flag \in BOOLEAN, NEW v \in Int,
         Complement(v) <= LimitOf(t.n, t.flag)
  PROVE  /\ EmitInteger(t, v) \in Seq(Calls)
         /\ Len(BytesOf(EmitInteger(t, v))) = EncodedSize(Complement(v))
<1> DEFINE type == IF v < 0 THEN "negint" ELSE "posint"
           width == IF t.n <= 4 THEN 4 ELSE 8
           u == Complement(v)
<1>1. type \in TypeNames /\ width \in {4, 8} /\ (width = 4 => t.n <= 4)
  BY DEF TypeNames
<1>2. u \in Nat /\ u <= Huge /\ (t.n <= 4 => u # Huge)
  BY Limits
<1>3. EmitInteger(t, v) = VarUint(type, u, width)
  BY DEF EmitInteger
<1> HIDE DEF type, width, u
<1>4. VarUint(type, u, width) \in Seq(Calls) /\ Len(BytesOf(VarUint(type, u, width))) = EncodedSize(u)
  BY <1>1, <1>2, VarUintCall
<1> QED
  BY <1>3, <1>4 DEF u

LEMMA FloatCalls ==
  ASSUME NEW t, t.n \in {4, 8}, NEW v, v[2] \in Nat
  PROVE  EmitFloat(t, v) \in Seq(Calls) /\ Len(BytesOf(EmitFloat(t, v))) = 1 + t.n
<1> DEFINE first == <<IF t.n = 4 THEN FloatSingle ELSE FloatDouble>>
           bytes == first \o Store(v[2], t.n)
<1>1. first \in Seq(Bytes) /\ Len(first) = 1
  BY DEF Bytes, FloatSingle, FloatDouble
<1>2. Store(v[2], t.n) \in Seq(Bytes) /\ Len(Store(v[2], t.n)) = t.n
  BY StoreType
<1> DEFINE rest == Store(v[2], t.n)
<1> HIDE DEF first, rest
<1>3. first \o rest \in Seq(Bytes) /\ Len(first \o rest) = 1 + t.n
  <2>1. rest \in Seq(Bytes) /\ Len(rest) = t.n
    BY <1>2 DEF rest
  <2>2. first \o rest \in Seq(Bytes) /\ Len(first \o rest) = Len(first) + Len(rest)
    BY <1>1, <2>1, ConcatIs
  <2> QED
    BY <1>1, <2>1, <2>2
<1>4. bytes \in Seq(Bytes) /\ Len(bytes) = 1 + t.n
  BY <1>3 DEF rest
<1>5. EmitFloat(t, v) = <<Call("float", "special", 0, bytes)>>
  BY DEF EmitFloat, first
<1> HIDE DEF bytes
<1>6. Len(bytes) <= 9
  BY <1>4
<1> QED
  BY <1>4, <1>5, <1>6, StoreCall

LEMMA StringCalls ==
  ASSUME NEW t, NEW v \in Seq(Bytes), Len(v) <= Huge
  PROVE  EmitString(t, v) \in Seq(Calls) /\ Len(BytesOf(EmitString(t, v))) = SizeOfString(Len(v))
<1> DEFINE type == StringType(t)
           a == IF t.kind = "path" THEN <<Call("allocate", "text", 0, <<>>)>> ELSE <<>>
           h == VarUint(type, Len(v), 8)
           c == Call("bulk", type, 0, v)
<1>1. type \in TypeNames
  BY DEF StringType, TypeNames
<1>2. a \in Seq(Calls) /\ BytesOf(a) = <<>>
  <2>1. CASE t.kind = "path"
    <3> DEFINE d == Call("allocate", "text", 0, <<>>)
    <3>1. d \in Calls /\ CallBytes(d) = <<>>
      BY DEF Call, Calls, Allocations, TypeNames, CallBytes
    <3>2. a = <<d>>
      BY <2>1
    <3> HIDE DEF d, a
    <3> QED
      BY <3>1, <3>2, SingleCall
  <2>2. CASE t.kind # "path"
    BY <2>2, FlattenEmpty DEF BytesOf
  <2> QED
    BY <2>1, <2>2
<1>3. h \in Seq(Calls) /\ Len(BytesOf(h)) = EncodedSize(Len(v))
  <2>1. Len(v) \in Nat
    OBVIOUS
  <2> HIDE DEF type
  <2> QED
    BY <1>1, <2>1, VarUintCall
<1>4. c \in Calls /\ CallBytes(c) = v
  <2> HIDE DEF type
  <2> QED
    BY <1>1 DEF Call, Calls, Bulks, CallBytes
<1>5. EmitString(t, v) = a \o h \o <<c>>
  BY DEF EmitString
<1> HIDE DEF a, h, c, type
<1>6. <<c>> \in Seq(Calls) /\ BytesOf(<<c>>) = v
  BY <1>4, SingleCall
<1>7. a \o h \in Seq(Calls) /\ a \o h \o <<c>> \in Seq(Calls)
  BY <1>2, <1>3, <1>6, ConcatIs
<1>8. BytesOf(a \o h \o <<c>>) = BytesOf(a) \o BytesOf(h) \o v
  BY <1>2, <1>3, <1>6, <1>7, BytesOfConcat
<1>9. BytesOf(h) \in Seq(Bytes)
  BY <1>3, BytesOfType
<1>10. BytesOf(a) \o BytesOf(h) = BytesOf(h)
  BY <1>2, <1>9, EmptyIsUnit
<1>11. Len(BytesOf(h) \o v) = EncodedSize(Len(v)) + Len(v)
  BY <1>3, <1>9, ConcatIs
<1> QED
  BY <1>5, <1>7, <1>8, <1>10, <1>11 DEF SizeOfString

-----------------------------------------------------------------------------
(* The descent into the components                                         *)

(* A value is of one kind, and a container has its parts.                  *)
IsContainer(x) ==
  /\ x.type.kind \in ContainerKinds /\ x.type.flag \in BOOLEAN
  /\ Parts(x) \in Seq(Encodable) /\ NumElements(x) \in Nat /\ NumElements(x) <= Huge
  /\ \A k \in 1 .. Len(Parts(x)) : Nesting[Parts(x)[k]] < Nesting[x]

LEMMA Kinds ==
  ASSUME NEW x \in Encodable
  PROVE  \/ /\ x.type.kind \in IntegerKinds /\ x.type.n \in {1, 2, 4, 8} /\ x.type.flag \in BOOLEAN
            /\ x.value \in Int /\ Complement(x.value) <= LimitOf(x.type.n, x.type.flag)
         \/ x.type.kind \in {"null", "bool"} /\ (x.type.kind = "bool" => x.value \in BOOLEAN)
         \/ x.type.kind = "float" /\ x.type.n \in {4, 8} /\ x.value[2] \in Nat
         \/ x.type.kind \in StringKinds /\ x.value \in Seq(Bytes) /\ Len(x.value) <= Huge
         \/ IsContainer(x)
<1>1. HasType(x) /\ (x.type.kind \in ContainerKinds =>
        \A k \in DOMAIN Parts(x) : Nesting[Parts(x)[k]] < Nesting[x])
  BY NestingAssumption
<1>2. CASE /\ x.type.kind \in ContainerKinds /\ x.type.flag \in BOOLEAN
           /\ Parts(x) \in Seq(Encodable) /\ NumElements(x) \in 0 .. Huge
  <2>1. NumElements(x) \in Nat /\ NumElements(x) <= Huge
    BY <1>2, HugeIs
  <2>2. DOMAIN Parts(x) = 1 .. Len(Parts(x))
    BY <1>2
  <2> QED
    BY <1>1, <1>2, <2>1, <2>2 DEF IsContainer
<1> QED
  BY <1>1, <1>2, Zenon DEF HasType

(* The head and the end of a container                                     *)
LEMMA ContainerCalls ==
  ASSUME NEW t, t.flag \in BOOLEAN, NEW n \in Nat, n <= Huge
  PROVE  /\ EmitBegin(t, n) \in Seq(Calls) /\ EmitEnd(t) \in Seq(Calls)
         /\ Len(BytesOf(EmitBegin(t, n))) + Len(BytesOf(EmitEnd(t)))
              = IF t.flag THEN 1 + 1 ELSE EncodedSize(n)
<1> DEFINE type == IF t.kind = "map" THEN "map" ELSE "array"
           byte == Code(type) + IndefiniteInfo
<1>1. type \in TypeNames
  BY DEF TypeNames
<1>2. CASE t.flag
  <2>1. PICK k \in 1 .. 8 : Code(type) = 32 * (k - 1)
    <3> HIDE DEF type
    <3> QED
      BY <1>1, CodeOf
  <2>2. byte \in Nat /\ byte < 256
    <3> HIDE DEF type
    <3> QED
      BY <2>1 DEF IndefiniteInfo
  <2>3. byte \in Bytes /\ Break \in Bytes
    <3>1. Break \in Nat /\ Break < 256
      BY DEF Break
    <3> HIDE DEF byte
    <3> QED
      BY <2>2, <3>1, ByteRange
  <2>4. EmitBegin(t, n) = Inline(byte) /\ EmitEnd(t) = Inline(Break)
    BY <1>2 DEF EmitBegin, EmitEnd
  <2> HIDE DEF byte
  <2> QED
    BY <1>2, <2>3, <2>4, InlineCall
<1>3. CASE ~t.flag
  <2>1. EmitBegin(t, n) = VarUint(type, n, 8) /\ EmitEnd(t) = <<>>
    BY <1>3 DEF EmitBegin, EmitEnd
  <2> HIDE DEF type
  <2>2. VarUint(type, n, 8) \in Seq(Calls) /\ Len(BytesOf(VarUint(type, n, 8))) = EncodedSize(n)
    BY <1>1, VarUintCall
  <2>3. BytesOf(<<>>) = <<>> /\ <<>> \in Seq(Calls) /\ Len(<<>>) = 0
    BY FlattenEmpty DEF BytesOf
  <2>4. EncodedSize(n) + 0 = EncodedSize(n)
    BY HeadLength, <1>1
  <2> QED
    BY <1>3, <2>1, <2>2, <2>3, <2>4
<1> QED
  BY <1>2, <1>3

-----------------------------------------------------------------------------
LEMMA OfParts ==
  ASSUME NEW x \in Encodable, IsContainer(x), NEW W, NEW g \in [Encodable -> W]
  PROVE  /\ [k \in DOMAIN Parts(x) |-> g[Parts(x)[k]]] \in Seq(W)
         /\ Len([k \in DOMAIN Parts(x) |-> g[Parts(x)[k]]]) = Len(Parts(x))
         /\ \A k \in 1 .. Len(Parts(x)) :
              /\ Parts(x)[k] \in Encodable
              /\ [j \in DOMAIN Parts(x) |-> g[Parts(x)[j]]][k] = g[Parts(x)[k]]
<1> DEFINE p == Parts(x)
<1>1. p \in Seq(Encodable)
  BY DEF IsContainer
<1> HIDE DEF p
<1>2. DOMAIN p = 1 .. Len(p) /\ Len(p) \in Nat /\ \A k \in 1 .. Len(p) : p[k] \in Encodable
  BY <1>1
<1> QED
  BY <1>2 DEF p

LEMMA KindsDiffer ==
  \A k :
    /\ k \in IntegerKinds => /\ k # "null" /\ k # "bool" /\ k # "float"
                             /\ k \notin StringKinds /\ k \notin ContainerKinds
    /\ k \in StringKinds => k # "null" /\ k # "bool" /\ k # "float" /\ k \notin ContainerKinds
    /\ k \in ContainerKinds => k # "null" /\ k # "bool" /\ k # "float"
BY DEF IntegerKinds, StringKinds, ContainerKinds

LEMMA ScalarKinds ==
  ASSUME NEW x \in Encodable
  PROVE  /\ x.type.kind \in IntegerKinds =>
              /\ x.type.n \in {1, 2, 4, 8} /\ x.type.flag \in BOOLEAN
              /\ x.value \in Int /\ Complement(x.value) <= LimitOf(x.type.n, x.type.flag)
         /\ x.type.kind = "float" => x.type.n \in {4, 8} /\ x.value[2] \in Nat
         /\ x.type.kind \in StringKinds => x.value \in Seq(Bytes) /\ Len(x.value) <= Huge
BY Kinds, KindsDiffer, Zenon DEF IsContainer

(* What the bodies are for each kind                                       *)
LEMMA OneKind ==
  ASSUME NEW x, NEW g
  PROVE  /\ x.type.kind \in IntegerKinds =>
              /\ EmitWith(x, g) = EmitInteger(x.type, x.value)
              /\ SizeWith(x, g) = EncodedSize(Complement(x.value))
         /\ x.type.kind = "null" => EmitWith(x, g) = Inline(Null) /\ SizeWith(x, g) = 1
         /\ x.type.kind = "bool" =>
              EmitWith(x, g) = Inline(IF x.value THEN True ELSE False) /\ SizeWith(x, g) = 1
         /\ x.type.kind = "float" =>
              EmitWith(x, g) = EmitFloat(x.type, x.value) /\ SizeWith(x, g) = 1 + x.type.n
         /\ x.type.kind \in StringKinds =>
              /\ EmitWith(x, g) = EmitString(x.type, x.value)
              /\ SizeWith(x, g) = SizeOfString(Len(x.value))
         /\ x.type.kind \in ContainerKinds =>
              /\ EmitWith(x, g) =
                   EmitBegin(x.type, NumElements(x))
                     \o FlattenSeq([k \in DOMAIN Parts(x) |-> g[Parts(x)[k]]])
                     \o EmitEnd(x.type)
              /\ SizeWith(x, g) =
                   (IF x.type.flag THEN 1 + 1 ELSE EncodedSize(NumElements(x)))
                     + Total([k \in DOMAIN Parts(x) |-> g[Parts(x)[k]]])
<1> DEFINE k == x.type.kind
<1>1. ASSUME k \in IntegerKinds
      PROVE  /\ EmitWith(x, g) = EmitInteger(x.type, x.value)
             /\ SizeWith(x, g) = EncodedSize(Complement(x.value))
  <2>1. k # "null" /\ k # "bool" /\ k # "float" /\ k \notin StringKinds /\ k \notin ContainerKinds
    BY <1>1, KindsDiffer
  <2>2. EmitWith(x, g) = EmitInteger(x.type, x.value)
    BY <1>1, <2>1, Zenon DEF EmitWith
  <2>3. SizeWith(x, g) = EncodedSize(Complement(x.value))
    BY <1>1, <2>1, Zenon DEF SizeWith
  <2> QED
    BY <2>2, <2>3
<1>2. ASSUME k = "null"
      PROVE  /\ EmitWith(x, g) = Inline(Null)
             /\ SizeWith(x, g) = 1
  <2>1. k # "bool" /\ k # "float" /\ k \notin IntegerKinds /\ k \notin StringKinds /\ k \notin ContainerKinds
    BY <1>2, KindsDiffer
  <2>2. EmitWith(x, g) = Inline(Null)
    BY <1>2, <2>1, Zenon DEF EmitWith
  <2>3. SizeWith(x, g) = 1
    BY <1>2, <2>1, Zenon DEF SizeWith
  <2> QED
    BY <2>2, <2>3
<1>3. ASSUME k = "bool"
      PROVE  /\ EmitWith(x, g) = Inline(IF x.value THEN True ELSE False)
             /\ SizeWith(x, g) = 1
  <2>1. k # "null" /\ k # "float" /\ k \notin IntegerKinds /\ k \notin StringKinds /\ k \notin ContainerKinds
    BY <1>3, KindsDiffer
  <2>2. EmitWith(x, g) = Inline(IF x.value THEN True ELSE False)
    BY <1>3, <2>1, Zenon DEF EmitWith
  <2>3. SizeWith(x, g) = 1
    BY <1>3, <2>1, Zenon DEF SizeWith
  <2> QED
    BY <2>2, <2>3
<1>4. ASSUME k = "float"
      PROVE  /\ EmitWith(x, g) = EmitFloat(x.type, x.value)
             /\ SizeWith(x, g) = 1 + x.type.n
  <2>1. k # "null" /\ k # "bool" /\ k \notin IntegerKinds /\ k \notin StringKinds /\ k \notin ContainerKinds
    BY <1>4, KindsDiffer
  <2>2. EmitWith(x, g) = EmitFloat(x.type, x.value)
    BY <1>4, <2>1, Zenon DEF EmitWith
  <2>3. SizeWith(x, g) = 1 + x.type.n
    BY <1>4, <2>1, Zenon DEF SizeWith
  <2> QED
    BY <2>2, <2>3
<1>5. ASSUME k \in StringKinds
      PROVE  /\ EmitWith(x, g) = EmitString(x.type, x.value)
             /\ SizeWith(x, g) = SizeOfString(Len(x.value))
  <2>1. k # "null" /\ k # "bool" /\ k # "float" /\ k \notin IntegerKinds /\ k \notin ContainerKinds
    BY <1>5, KindsDiffer
  <2>2. EmitWith(x, g) = EmitString(x.type, x.value)
    BY <1>5, <2>1, Zenon DEF EmitWith
  <2>3. SizeWith(x, g) = SizeOfString(Len(x.value))
    BY <1>5, <2>1, Zenon DEF SizeWith
  <2> QED
    BY <2>2, <2>3
<1>6. ASSUME k \in ContainerKinds
      PROVE  /\ EmitWith(x, g) = EmitBegin(x.type, NumElements(x))
                           \o FlattenSeq([j \in DOMAIN Parts(x) |-> g[Parts(x)[j]]])
                           \o EmitEnd(x.type)
             /\ SizeWith(x, g) = (IF x.type.flag THEN 1 + 1 ELSE EncodedSize(NumElements(x)))
                           + Total([j \in DOMAIN Parts(x) |-> g[Parts(x)[j]]])
  <2>1. k # "null" /\ k # "bool" /\ k # "float" /\ k \notin IntegerKinds /\ k \notin StringKinds
    BY <1>6, KindsDiffer
  <2>2. EmitWith(x, g) = EmitBegin(x.type, NumElements(x))
                           \o FlattenSeq([j \in DOMAIN Parts(x) |-> g[Parts(x)[j]]])
                           \o EmitEnd(x.type)
    BY <1>6, <2>1, Zenon DEF EmitWith
  <2>3. SizeWith(x, g) = (IF x.type.flag THEN 1 + 1 ELSE EncodedSize(NumElements(x)))
                           + Total([j \in DOMAIN Parts(x) |-> g[Parts(x)[j]]])
    BY <1>6, <2>1, Zenon DEF SizeWith
  <2> QED
    BY <2>2, <2>3
<1> QED
  BY <1>1, <1>2, <1>3, <1>4, <1>5, <1>6, Zenon

(* Both bodies depend on the components only, and yield calls and numbers. *)
LEMMA EmitWithType ==
  ASSUME NEW x \in Encodable, NEW g \in [Encodable -> Seq(Calls)]
  PROVE  EmitWith(x, g) \in Seq(Calls)
<1>1. CASE x.type.kind \in IntegerKinds
  <2>1. EmitWith(x, g) = EmitInteger(x.type, x.value)
    BY <1>1, OneKind
  <2> QED
    BY <1>1, <2>1, ScalarKinds, IntegerCalls
<1>2. CASE x.type.kind \in {"null", "bool"}
  <2>1. Null \in Bytes /\ True \in Bytes /\ False \in Bytes
    BY DEF Bytes, Null, True, False
  <2>2. EmitWith(x, g) = Inline(IF x.type.kind = "null" THEN Null ELSE IF x.value THEN True ELSE False)
    BY <1>2, OneKind
  <2> QED
    BY <2>1, <2>2, InlineCall
<1>3. CASE x.type.kind = "float"
  <2>1. EmitWith(x, g) = EmitFloat(x.type, x.value)
    BY <1>3, OneKind
  <2> QED
    BY <1>3, <2>1, ScalarKinds, FloatCalls
<1>4. CASE x.type.kind \in StringKinds
  <2>1. EmitWith(x, g) = EmitString(x.type, x.value)
    BY <1>4, OneKind
  <2> QED
    BY <1>4, <2>1, ScalarKinds, StringCalls
<1>5. CASE IsContainer(x)
  <2> DEFINE s == [k \in DOMAIN Parts(x) |-> g[Parts(x)[k]]]
             b == EmitBegin(x.type, NumElements(x))
             e == EmitEnd(x.type)
  <2>1. EmitWith(x, g) = b \o FlattenSeq(s) \o e
    BY <1>5, OneKind DEF IsContainer
  <2>2. s \in Seq(Seq(Calls))
    BY <1>5, OfParts
  <2>3. b \in Seq(Calls) /\ e \in Seq(Calls)
    BY <1>5, ContainerCalls DEF IsContainer
  <2> HIDE DEF s, b, e
  <2>4. FlattenSeq(s) \in Seq(Calls)
    <3>1. <<>> \in Seq(Calls)
      OBVIOUS
    <3> QED
      BY <2>2, <3>1, FlattenAppend
  <2> QED
    BY <2>1, <2>3, <2>4, ConcatIs
<1> QED
  BY <1>1, <1>2, <1>3, <1>4, <1>5, Kinds

LEMMA SizeWithType ==
  ASSUME NEW x \in Encodable, NEW g \in [Encodable -> Nat]
  PROVE  SizeWith(x, g) \in Nat
<1>1. \A v \in Nat : v <= Huge => EncodedSize(v) \in Nat
  <2>1. "text" \in TypeNames
    BY DEF TypeNames
  <2> QED
    BY <2>1, HeadLength
<1>2. CASE x.type.kind \in IntegerKinds
  <2>1. SizeWith(x, g) = EncodedSize(Complement(x.value))
    BY <1>2, OneKind
  <2>2. Complement(x.value) \in Nat /\ Complement(x.value) <= Huge
    BY <1>2, Kinds, KindsDiffer, Limits DEF IsContainer
  <2> QED
    BY <1>1, <2>1, <2>2
<1>3. CASE x.type.kind \in {"null", "bool"}
  <2>1. SizeWith(x, g) = 1
    BY <1>3, OneKind
  <2> QED
    BY <2>1
<1>4. CASE x.type.kind = "float"
  <2>1. SizeWith(x, g) = 1 + x.type.n
    BY <1>4, OneKind
  <2>2. x.type.n \in {4, 8}
    BY <1>4, Kinds, KindsDiffer DEF IsContainer
  <2> QED
    BY <2>1, <2>2
<1>5. CASE x.type.kind \in StringKinds
  <2>1. SizeWith(x, g) = EncodedSize(Len(x.value)) + Len(x.value)
    BY <1>5, OneKind DEF SizeOfString
  <2>2. x.value \in Seq(Bytes) /\ Len(x.value) <= Huge
    BY <1>5, Kinds, KindsDiffer DEF IsContainer
  <2>3. Len(x.value) \in Nat
    BY <2>2
  <2> QED
    BY <1>1, <2>1, <2>2, <2>3
<1>6. CASE IsContainer(x)
  <2> DEFINE s == [k \in DOMAIN Parts(x) |-> g[Parts(x)[k]]]
             h == IF x.type.flag THEN 1 + 1 ELSE EncodedSize(NumElements(x))
  <2>1. SizeWith(x, g) = h + Total(s)
    BY <1>6, OneKind DEF IsContainer
  <2>2. s \in Seq(Nat)
    BY <1>6, OfParts
  <2>3. h \in Nat
    BY <1>1, <1>6 DEF IsContainer
  <2> HIDE DEF s, h
  <2>4. Total(s) \in Nat
    <3>1. PICK f : IsSum(f, s)
      BY <2>2, TotalIs
    <3>2. Len(s) \in 0 .. Len(s)
      BY <2>2
    <3>3. Total(s) = f[Len(s)]
      BY <2>2, <3>1, TotalIs
    <3>4. f \in [0 .. Len(s) -> Nat]
      BY <3>1 DEF IsSum
    <3> QED
      BY <3>2, <3>3, <3>4
  <2> QED
    BY <2>1, <2>3, <2>4
<1> QED
  BY <1>2, <1>3, <1>4, <1>5, <1>6, Kinds

LEMMA SameParts ==
  ASSUME NEW x \in Encodable, NEW W, NEW g \in [Encodable -> W], NEW h \in [Encodable -> W],
         \A y \in Encodable : Nesting[y] < Nesting[x] => g[y] = h[y], IsContainer(x)
  PROVE  [k \in DOMAIN Parts(x) |-> g[Parts(x)[k]]] = [k \in DOMAIN Parts(x) |-> h[Parts(x)[k]]]
<1> DEFINE p == Parts(x)
<1>1. DOMAIN p = 1 .. Len(p) /\ \A k \in 1 .. Len(p) : p[k] \in Encodable /\ Nesting[p[k]] < Nesting[x]
  BY DEF IsContainer
<1> HIDE DEF p
<1>2. \A k \in DOMAIN p : g[p[k]] = h[p[k]]
  BY <1>1
<1> QED
  BY <1>2 DEF p

LEMMA EmitWithSame ==
  ASSUME NEW x \in Encodable, NEW W, NEW g \in [Encodable -> W], NEW h \in [Encodable -> W],
         \A y \in Encodable : Nesting[y] < Nesting[x] => g[y] = h[y]
  PROVE  EmitWith(x, g) = EmitWith(x, h) /\ SizeWith(x, g) = SizeWith(x, h)
<1>1. CASE IsContainer(x)
  <2>1. [k \in DOMAIN Parts(x) |-> g[Parts(x)[k]]] = [k \in DOMAIN Parts(x) |-> h[Parts(x)[k]]]
    BY <1>1, SameParts
  <2> QED
    BY <2>1, Zenon DEF EmitWith, SizeWith
<1>2. CASE x.type.kind \notin ContainerKinds
  <2> DEFINE p == Parts(x)
             n == NumElements(x)
  <2> HIDE DEF p, n
  <2>1. EmitWith(x, g) = EmitWith(x, h)
    BY <1>2, Kinds DEF EmitWith, IntegerKinds, StringKinds, ContainerKinds, IsContainer
  <2>2. SizeWith(x, g) = SizeWith(x, h)
    BY <1>2, Kinds DEF SizeWith, IntegerKinds, StringKinds, ContainerKinds, IsContainer
  <2> QED
    BY <2>1, <2>2
<1> QED
  BY <1>1, <1>2, Kinds DEF IntegerKinds, StringKinds, ContainerKinds, IsContainer

-----------------------------------------------------------------------------
(* The recursions of encode and size_of have solutions.                    *)
LEMMA EmitDefined ==
  Emit = [x \in Encodable |-> EmitWith(x, Emit)]
<1> DEFINE W == Seq(Calls)
           V == [x \in Encodable |-> W]
           G == {g \in [Encodable -> W] : \A x \in Encodable : g[x] \in V[x]}
           F == [x \in Encodable |-> [g \in G |-> EmitWith(x, g)]]
           P(f) == f = [x \in Encodable |-> EmitWith(x, f)]
<1>1. G = [Encodable -> W]
  OBVIOUS
<1>2. \A x \in Encodable, g \in G : EmitWith(x, g) \in W
  BY <1>1, EmitWithType
<1>3. F \in [Encodable -> [G -> W]] /\ \A x \in Encodable, g \in G : F[x][g] = EmitWith(x, g)
  BY <1>2
<1>4. IsBody(Encodable, Nesting, W, V, G, F)
  <2>1. Nesting \in [Encodable -> Nat]
    BY NestingAssumption
  <2>2. V \in [Encodable -> SUBSET W] /\ \A x \in Encodable : V[x] = W
    OBVIOUS
  <2>3. G # {}
    <3>1. <<>> \in W
      OBVIOUS
    <3>2. [x \in Encodable |-> <<>>] \in G
      BY <1>1, <3>1
    <3> QED
      BY <3>2
  <2>4. \A x \in Encodable, g, h \in G :
          (\A y \in Encodable : Nesting[y] < Nesting[x] => g[y] = h[y]) => F[x][g] = F[x][h]
    <3> TAKE x \in Encodable, g \in G, h \in G
    <3> HAVE \A y \in Encodable : Nesting[y] < Nesting[x] => g[y] = h[y]
    <3>1. EmitWith(x, g) = EmitWith(x, h)
      <4>1. g \in [Encodable -> W] /\ h \in [Encodable -> W]
        BY <1>1
      <4> HIDE DEF W, V, G, F
      <4> QED
        BY <4>1, EmitWithSame
    <3> HIDE DEF F
    <3> QED
      BY <1>3, <3>1
  <2>5. \A x \in Encodable, g \in G : F[x][g] \in V[x]
    <3> HIDE DEF F, V
    <3> QED
      BY <1>2, <1>3, <2>2
  <2>6. G = {g \in [Encodable -> W] : \A x \in Encodable : g[x] \in V[x]}
    OBVIOUS
  <2> HIDE DEF F, V, G, W
  <2> QED
    BY <1>3, <2>1, <2>2, <2>3, <2>4, <2>5, <2>6 DEF IsBody
<1>5. \E f : P(f)
  <2> HIDE DEF F, V, G, W
  <2>1. PICK f \in G : \A x \in Encodable : f[x] = F[x][f]
    BY <1>4, MeasureRecursion
  <2>2. f \in [Encodable -> W] /\ \A x \in Encodable : f[x] = EmitWith(x, f)
    BY <1>1, <1>3, <2>1
  <2>3. P(f)
    BY <2>2
  <2> QED
    BY <2>3
<1>6. Emit = CHOOSE f : P(f)
  BY Zenon DEF Emit
<1> HIDE DEF P
<1>7. P(CHOOSE f : P(f))
  BY <1>5, Zenon
<1> QED
  BY <1>6, <1>7, Zenon DEF P

LEMMA EmitType == Emit \in [Encodable -> Seq(Calls)]
<1> DEFINE T == {x \in Encodable : Emit[x] \in Seq(Calls)}
<1>1. ASSUME NEW x \in Encodable, \A y \in Encodable : Nesting[y] < Nesting[x] => y \in T
      PROVE  x \in T
  <2> DEFINE g == [y \in Encodable |-> IF Emit[y] \in Seq(Calls) THEN Emit[y] ELSE <<>>]
  <2>1. <<>> \in Seq(Calls)
    OBVIOUS
  <2>2. g \in [Encodable -> Seq(Calls)]
    BY <2>1
  <2>3. \A y \in Encodable : Nesting[y] < Nesting[x] => Emit[y] = g[y]
    BY <1>1
  <2>4. Emit[x] = EmitWith(x, Emit)
    BY EmitDefined
  <2> DEFINE U == {Emit[y] : y \in Encodable} \union Seq(Calls)
  <2>5. Emit \in [Encodable -> U] /\ g \in [Encodable -> U]
    <3>1. Emit = [y \in Encodable |-> Emit[y]]
      BY EmitDefined
    <3>2. \A y \in Encodable : Emit[y] \in U
      OBVIOUS
    <3> HIDE DEF g
    <3>3. g \in [Encodable -> U]
      BY <2>2
    <3> HIDE DEF U
    <3> QED
      BY <3>1, <3>2, <3>3
  <2> HIDE DEF g, U
  <2>6. EmitWith(x, Emit) = EmitWith(x, g)
    BY <2>3, <2>5, EmitWithSame
  <2>7. EmitWith(x, g) \in Seq(Calls)
    BY <2>2, EmitWithType
  <2> QED
    BY <2>4, <2>6, <2>7
<1> HIDE DEF T
<1>2. \A x \in Encodable : x \in T
  <2>1. Nesting \in [Encodable -> Nat]
    BY NestingAssumption
  <2> QED
    BY <1>1, <2>1, MeasureInduction
<1>3. Emit = [y \in Encodable |-> Emit[y]]
  BY EmitDefined
<1> QED
  BY <1>2, <1>3 DEF T

LEMMA SizeOfDefined ==
  SizeOf = [x \in Encodable |-> SizeWith(x, SizeOf)]
<1> DEFINE W == Nat
           V == [x \in Encodable |-> W]
           G == {g \in [Encodable -> W] : \A x \in Encodable : g[x] \in V[x]}
           F == [x \in Encodable |-> [g \in G |-> SizeWith(x, g)]]
           P(f) == f = [x \in Encodable |-> SizeWith(x, f)]
<1>1. G = [Encodable -> W]
  OBVIOUS
<1>2. \A x \in Encodable, g \in G : SizeWith(x, g) \in W
  BY <1>1, SizeWithType
<1>3. F \in [Encodable -> [G -> W]] /\ \A x \in Encodable, g \in G : F[x][g] = SizeWith(x, g)
  BY <1>2
<1>4. IsBody(Encodable, Nesting, W, V, G, F)
  <2>1. Nesting \in [Encodable -> Nat]
    BY NestingAssumption
  <2>2. V \in [Encodable -> SUBSET W] /\ \A x \in Encodable : V[x] = W
    OBVIOUS
  <2>3. G # {}
    <3>1. 0 \in W
      OBVIOUS
    <3>2. [x \in Encodable |-> 0] \in G
      BY <1>1, <3>1
    <3> QED
      BY <3>2
  <2>4. \A x \in Encodable, g, h \in G :
          (\A y \in Encodable : Nesting[y] < Nesting[x] => g[y] = h[y]) => F[x][g] = F[x][h]
    <3> TAKE x \in Encodable, g \in G, h \in G
    <3> HAVE \A y \in Encodable : Nesting[y] < Nesting[x] => g[y] = h[y]
    <3>1. SizeWith(x, g) = SizeWith(x, h)
      <4>1. g \in [Encodable -> W] /\ h \in [Encodable -> W]
        BY <1>1
      <4> HIDE DEF W, V, G, F
      <4> QED
        BY <4>1, EmitWithSame
    <3> HIDE DEF F
    <3> QED
      BY <1>3, <3>1
  <2>5. \A x \in Encodable, g \in G : F[x][g] \in V[x]
    <3> HIDE DEF F, V
    <3> QED
      BY <1>2, <1>3, <2>2
  <2>6. G = {g \in [Encodable -> W] : \A x \in Encodable : g[x] \in V[x]}
    OBVIOUS
  <2> HIDE DEF F, V, G, W
  <2> QED
    BY <1>3, <2>1, <2>2, <2>3, <2>4, <2>5, <2>6 DEF IsBody
<1>5. \E f : P(f)
  <2> HIDE DEF F, V, G, W
  <2>1. PICK f \in G : \A x \in Encodable : f[x] = F[x][f]
    BY <1>4, MeasureRecursion
  <2>2. f \in [Encodable -> W] /\ \A x \in Encodable : f[x] = SizeWith(x, f)
    BY <1>1, <1>3, <2>1
  <2>3. P(f)
    BY <2>2
  <2> QED
    BY <2>3
<1>6. SizeOf = CHOOSE f : P(f)
  BY Zenon DEF SizeOf
<1> HIDE DEF P
<1>7. P(CHOOSE f : P(f))
  BY <1>5, Zenon
<1> QED
  BY <1>6, <1>7, Zenon DEF P

LEMMA SizeOfType == SizeOf \in [Encodable -> Nat]
<1> DEFINE T == {x \in Encodable : SizeOf[x] \in Nat}
<1>1. ASSUME NEW x \in Encodable, \A y \in Encodable : Nesting[y] < Nesting[x] => y \in T
      PROVE  x \in T
  <2> DEFINE g == [y \in Encodable |-> IF SizeOf[y] \in Nat THEN SizeOf[y] ELSE 0]
  <2>1. 0 \in Nat
    OBVIOUS
  <2>2. g \in [Encodable -> Nat]
    BY <2>1
  <2>3. \A y \in Encodable : Nesting[y] < Nesting[x] => SizeOf[y] = g[y]
    BY <1>1
  <2>4. SizeOf[x] = SizeWith(x, SizeOf)
    BY SizeOfDefined
  <2> DEFINE U == {SizeOf[y] : y \in Encodable} \union Nat
  <2>5. SizeOf \in [Encodable -> U] /\ g \in [Encodable -> U]
    <3>1. SizeOf = [y \in Encodable |-> SizeOf[y]]
      BY SizeOfDefined
    <3>2. \A y \in Encodable : SizeOf[y] \in U
      OBVIOUS
    <3> HIDE DEF g
    <3>3. g \in [Encodable -> U]
      BY <2>2
    <3> HIDE DEF U
    <3> QED
      BY <3>1, <3>2, <3>3
  <2> HIDE DEF g, U
  <2>6. SizeWith(x, SizeOf) = SizeWith(x, g)
    BY <2>3, <2>5, EmitWithSame
  <2>7. SizeWith(x, g) \in Nat
    BY <2>2, SizeWithType
  <2> QED
    BY <2>4, <2>6, <2>7
<1> HIDE DEF T
<1>2. \A x \in Encodable : x \in T
  <2>1. Nesting \in [Encodable -> Nat]
    BY NestingAssumption
  <2> QED
    BY <1>1, <2>1, MeasureInduction
<1>3. SizeOf = [y \in Encodable |-> SizeOf[y]]
  BY SizeOfDefined
<1> QED
  BY <1>2, <1>3 DEF T

-----------------------------------------------------------------------------
(* encoded_size_of() is the number of bytes encode() puts, for every value *)
(* of every type: by induction over the nesting of its components.         *)
THEOREM SizeOfIsLength ==
  \A x \in Encodable :
    /\ Encoding(x) \in Seq(Bytes)
    /\ SizeOf[x] = Len(Encoding(x))
    /\ x.type.kind \in IntegerKinds => SizeOf[x] = EncodedSizeBranching(Complement(x.value))
<1>1. \A x \in Encodable : Emit[x] \in Seq(Calls) /\ SizeOf[x] \in Nat
  BY EmitType, SizeOfType
<1>2. \A x \in Encodable : Emit[x] = EmitWith(x, Emit) /\ SizeOf[x] = SizeWith(x, SizeOf)
  BY EmitDefined, SizeOfDefined, Zenon
<1> DEFINE T == {x \in Encodable : SizeOf[x] = Len(BytesOf(Emit[x]))}
<1>3. ASSUME NEW x \in Encodable, \A y \in Encodable : Nesting[y] < Nesting[x] => y \in T
      PROVE  x \in T
  <2>1. CASE x.type.kind \in IntegerKinds
    <3>1. Emit[x] = EmitInteger(x.type, x.value) /\ SizeOf[x] = EncodedSize(Complement(x.value))
      BY <1>2, <2>1, OneKind
    <3> QED
      BY <2>1, <3>1, ScalarKinds, IntegerCalls
  <2>2. CASE x.type.kind \in {"null", "bool"}
    <3>1. Null \in Bytes /\ True \in Bytes /\ False \in Bytes
      BY DEF Bytes, Null, True, False
    <3>2. PICK b \in Bytes : Emit[x] = Inline(b)
      BY <1>2, <2>2, <3>1, OneKind
    <3>3. SizeOf[x] = 1
      BY <1>2, <2>2, OneKind
    <3> QED
      BY <3>2, <3>3, InlineCall
  <2>3. CASE x.type.kind = "float"
    <3>1. Emit[x] = EmitFloat(x.type, x.value) /\ SizeOf[x] = 1 + x.type.n
      BY <1>2, <2>3, OneKind
    <3> QED
      BY <2>3, <3>1, ScalarKinds, FloatCalls
  <2>4. CASE x.type.kind \in StringKinds
    <3>1. Emit[x] = EmitString(x.type, x.value) /\ SizeOf[x] = SizeOfString(Len(x.value))
      BY <1>2, <2>4, OneKind
    <3> QED
      BY <2>4, <3>1, ScalarKinds, StringCalls
  <2>5. CASE IsContainer(x)
    <3> DEFINE s == [k \in DOMAIN Parts(x) |-> Emit[Parts(x)[k]]]
               n == [k \in DOMAIN Parts(x) |-> SizeOf[Parts(x)[k]]]
               b == EmitBegin(x.type, NumElements(x))
               e == EmitEnd(x.type)
               z == IF x.type.flag THEN 1 + 1 ELSE EncodedSize(NumElements(x))
    <3>1. Emit[x] = b \o FlattenSeq(s) \o e /\ SizeOf[x] = z + Total(n)
      BY <1>2, <2>5, OneKind DEF IsContainer
    <3>2. /\ s \in Seq(Seq(Calls)) /\ Len(s) = Len(Parts(x))
          /\ n \in Seq(Nat) /\ Len(n) = Len(Parts(x))
          /\ \A k \in 1 .. Len(Parts(x)) :
               /\ Parts(x)[k] \in Encodable
               /\ s[k] = Emit[Parts(x)[k]] /\ n[k] = SizeOf[Parts(x)[k]]
      <4>1. /\ s \in Seq(Seq(Calls)) /\ Len(s) = Len(Parts(x))
            /\ \A k \in 1 .. Len(Parts(x)) : Parts(x)[k] \in Encodable /\ s[k] = Emit[Parts(x)[k]]
        <5>1. Emit \in [Encodable -> Seq(Calls)]
          BY EmitType
        <5> HIDE DEF s
        <5>2. s = [k \in DOMAIN Parts(x) |-> Emit[Parts(x)[k]]]
          BY DEF s
        <5> QED
          BY <2>5, <5>1, <5>2, OfParts, Zenon
      <4>2. /\ n \in Seq(Nat) /\ Len(n) = Len(Parts(x))
            /\ \A k \in 1 .. Len(Parts(x)) : n[k] = SizeOf[Parts(x)[k]]
        BY <2>5, SizeOfType, OfParts
      <4> HIDE DEF s, n
      <4> QED
        BY <4>1, <4>2
    <3>3. \A k \in 1 .. Len(Parts(x)) : Nesting[Parts(x)[k]] < Nesting[x]
      BY <2>5 DEF IsContainer
    <3>4. b \in Seq(Calls) /\ e \in Seq(Calls) /\ Len(BytesOf(b)) + Len(BytesOf(e)) = z
      <4> DEFINE t == x.type
                 m == NumElements(x)
      <4>1. t.flag \in BOOLEAN /\ m \in Nat /\ m <= Huge
        BY <2>5 DEF IsContainer
      <4> HIDE DEF t, m
      <4>2. /\ EmitBegin(t, m) \in Seq(Calls) /\ EmitEnd(t) \in Seq(Calls)
            /\ Len(BytesOf(EmitBegin(t, m))) + Len(BytesOf(EmitEnd(t)))
                 = IF t.flag THEN 1 + 1 ELSE EncodedSize(m)
        BY <4>1, ContainerCalls
      <4> QED
        BY <4>2 DEF t, m
    <3> HIDE DEF s, n, b, e, z
    <3>5. \A k \in 1 .. Len(s) : n[k] = Len(BytesOf(s[k]))
      BY <1>3, <3>2, <3>3
    <3>6. FlattenSeq(s) \in Seq(Calls) /\ Len(BytesOf(FlattenSeq(s))) = Total(n)
      BY <3>2, <3>5, LengthsAddUp
    <3>7. /\ BytesOf(b \o FlattenSeq(s)) = BytesOf(b) \o BytesOf(FlattenSeq(s))
          /\ b \o FlattenSeq(s) \in Seq(Calls)
      BY <3>4, <3>6, BytesOfConcat, ConcatIs
    <3>8. BytesOf(b \o FlattenSeq(s) \o e) = (BytesOf(b) \o BytesOf(FlattenSeq(s))) \o BytesOf(e)
      BY <3>4, <3>7, BytesOfConcat
    <3>9. BytesOf(b) \in Seq(Bytes) /\ BytesOf(FlattenSeq(s)) \in Seq(Bytes) /\ BytesOf(e) \in Seq(Bytes)
      BY <3>4, <3>6, BytesOfType
    <3>10. Len((BytesOf(b) \o BytesOf(FlattenSeq(s))) \o BytesOf(e))
             = (Len(BytesOf(b)) + Total(n)) + Len(BytesOf(e))
      <4> DEFINE p == BytesOf(b)
                 q == BytesOf(FlattenSeq(s))
                 r == BytesOf(e)
      <4> HIDE DEF p, q, r
      <4>1. p \in Seq(Bytes) /\ q \in Seq(Bytes) /\ r \in Seq(Bytes) /\ Len(q) = Total(n)
        BY <3>6, <3>9 DEF p, q, r
      <4>2. p \o q \in Seq(Bytes) /\ Len(p \o q) = Len(p) + Len(q)
        BY <4>1, ConcatIs
      <4>3. Len((p \o q) \o r) = Len(p \o q) + Len(r)
        BY <4>1, <4>2, ConcatIs
      <4> QED
        BY <4>1, <4>2, <4>3 DEF p, q, r
    <3>11. Len(BytesOf(b)) \in Nat /\ Len(BytesOf(e)) \in Nat /\ Total(n) \in Nat
      BY <3>6, <3>9
    <3> DEFINE lb == Len(BytesOf(b))
               le == Len(BytesOf(e))
               t == Total(n)
    <3> HIDE DEF lb, le, t
    <3>12. (lb + t) + le = z + t
      BY <3>4, <3>11 DEF lb, le, t
    <3> QED
      BY <3>1, <3>8, <3>10, <3>12 DEF lb, le, t
  <2> QED
    BY <2>1, <2>2, <2>3, <2>4, <2>5, Kinds
<1>4. \A x \in Encodable : SizeOf[x] = Len(BytesOf(Emit[x]))
  <2>1. Nesting \in [Encodable -> Nat]
    BY NestingAssumption
  <2> HIDE DEF T
  <2>2. \A x \in Encodable : x \in T
    BY <1>3, <2>1, MeasureInduction
  <2> QED
    BY <2>2 DEF T
<1>5. ASSUME NEW x \in Encodable, x.type.kind \in IntegerKinds
      PROVE  SizeOf[x] = EncodedSizeBranching(Complement(x.value))
  <2>1. SizeOf[x] = EncodedSize(Complement(x.value))
    BY <1>2, <1>5, OneKind
  <2>2. Complement(x.value) \in Nat /\ Complement(x.value) <= Huge
    BY <1>5, Kinds, KindsDiffer, Limits DEF IsContainer
  <2>3. "posint" \in TypeNames
    BY DEF TypeNames
  <2> QED
    BY <2>1, <2>2, <2>3, HeadLength
<1> QED
  BY <1>1, <1>4, <1>5, BytesOfType DEF Encoding

-----------------------------------------------------------------------------
(* How much the buffer of a dynamic stream grows                           *)

LEMMA PageSizeIs == PageSize \in Nat /\ PageSize >= 2
<1>1. PICK n \in 1 .. 12 : PageSize = 2^n
  BY StreamAssumption
<1>2. n = 1 \/ n = 2 \/ n = 3 \/ n = 4 \/ n = 5 \/ n = 6
      \/ n = 7 \/ n = 8 \/ n = 9 \/ n = 10 \/ n = 11 \/ n = 12
  BY SMT
<1>3. n = 1 => PageSize = 2
  <2>1. 2^1 = 2
    BY SMT
  <2> QED
    BY <1>1, <2>1
<1>4. n = 2 => PageSize = 4
  <2>1. 2^2 = 4
    BY SMT
  <2> QED
    BY <1>1, <2>1
<1>5. n = 3 => PageSize = 8
  <2>1. 2^3 = 8
    BY SMT
  <2> QED
    BY <1>1, <2>1
<1>6. n = 4 => PageSize = 16
  <2>1. 2^4 = 16
    BY SMT
  <2> QED
    BY <1>1, <2>1
<1>7. n = 5 => PageSize = 32
  <2>1. 2^5 = 32
    BY SMT
  <2> QED
    BY <1>1, <2>1
<1>8. n = 6 => PageSize = 64
  <2>1. 2^6 = 64
    BY SMT
  <2> QED
    BY <1>1, <2>1
<1>9. n = 7 => PageSize = 128
  <2>1. 2^7 = 128
    BY SMT
  <2> QED
    BY <1>1, <2>1
<1>10. n = 8 => PageSize = 256
  <2>1. 2^8 = 256
    BY SMT
  <2> QED
    BY <1>1, <2>1
<1>11. n = 9 => PageSize = 512
  <2>1. 2^9 = 512
    BY SMT
  <2> QED
    BY <1>1, <2>1
<1>12. n = 10 => PageSize = 1024
  <2>1. 2^10 = 1024
    BY SMT
  <2> QED
    BY <1>1, <2>1
<1>13. n = 11 => PageSize = 2048
  <2>1. 2^11 = 2048
    BY SMT
  <2> QED
    BY <1>1, <2>1
<1>14. n = 12 => PageSize = 4096
  <2>1. 2^12 = 4096
    BY SMT
  <2> QED
    BY <1>1, <2>1
<1> QED
  BY <1>2, <1>3, <1>4, <1>5, <1>6, <1>7, <1>8, <1>9, <1>10, <1>11, <1>12, <1>13, <1>14

LEMMA DivMul ==
  ASSUME NEW x \in Nat, NEW p \in Nat, p > 0
  PROVE  (x \div p) \in Nat /\ (x \div p) * p + p > x
<1>1. x \div p \in Nat
  BY SMT
<1>2. x = (x \div p) * p + (x % p) /\ x % p < p
  BY SMT
<1>3. x % p \in Nat
  BY SMT
<1> QED
  BY <1>1, <1>2, <1>3, SMT

LEMMA RoundUpIs ==
  ASSUME NEW n \in Nat
  PROVE  RoundUp(n) \in Nat /\ RoundUp(n) >= n /\ (n > 0 => RoundUp(n) >= PageSize)
<1> DEFINE k == (n + PageSize - 1) \div PageSize
<1>1. n + PageSize - 1 \in Nat
  BY PageSizeIs
<1>2. k \in Nat /\ k * PageSize + PageSize > n + PageSize - 1
  BY <1>1, PageSizeIs, DivMul
<1>3. RoundUp(n) = k * PageSize
  BY DEF RoundUp
<1> HIDE DEF k
<1> QED
  BY <1>2, <1>3, PageSizeIs, SMT

LEMMA NextBuffer ==
  ASSUME NEW acc \in Nat, acc > 0
  PROVE  RoundUp((acc * 3) \div 2) \in Nat /\ RoundUp((acc * 3) \div 2) > acc
<1> DEFINE n == (acc * 3) \div 2
<1>1. n \in Nat /\ n > 0 /\ (acc > 1 => n > acc) /\ n >= acc
  BY SMT
<1> HIDE DEF n
<1>2. RoundUp(n) \in Nat /\ RoundUp(n) >= n /\ RoundUp(n) >= PageSize
  BY <1>1, RoundUpIs
<1>3. RoundUp(n) > acc
  BY <1>1, <1>2, PageSizeIs
<1> QED
  BY <1>2, <1>3 DEF n

(* The buffer grows until it is large enough.                              *)
LEMMA BufferSuffices ==
  ASSUME NEW required \in Nat
  PROVE  BufferSizeFor(required) \in Nat /\ BufferSizeFor(required) >= required
<1> DEFINE D == Nat \ {0}
           next(acc) == RoundUp((acc * 3) \div 2)
           body(acc, g) == IF acc >= required THEN acc ELSE g[next(acc)]
           m == [acc \in D |-> IF acc >= required THEN 0 ELSE required - acc]
           W == {n \in Nat : n >= required}
           V == [acc \in D |-> W]
           G == {g \in [D -> W] : \A acc \in D : g[acc] \in V[acc]}
           F == [acc \in D |-> [g \in G |-> body(acc, g)]]
           P(f) == f = [acc \in D |-> body(acc, f)]
           h == CHOOSE f : P(f)
<1>1. \A acc \in D : next(acc) \in D /\ next(acc) > acc
  <2> TAKE acc \in D
  <2>1. acc \in Nat /\ acc > 0
    OBVIOUS
  <2>2. next(acc) \in Nat /\ next(acc) > acc
    BY <2>1, NextBuffer
  <2> HIDE DEF next
  <2> QED
    BY <2>1, <2>2
<1>2. BufferSizeFor(required) = h[PageSize]
  BY Zenon DEF BufferSizeFor
<1> HIDE DEF next
<1>3. m \in [D -> Nat] /\ \A acc \in D : ~(acc >= required) => m[next(acc)] < m[acc]
  BY <1>1
<1>4. G = [D -> W]
  OBVIOUS
<1>5. \A acc \in D, g \in G : body(acc, g) \in W
  BY <1>1, <1>4
<1>6. IsBody(D, m, W, V, G, F)
  <2>1. F \in [D -> [G -> W]] /\ \A acc \in D, g \in G : F[acc][g] = body(acc, g)
    BY <1>5
  <2>2. G # {}
    <3>1. required \in W
      OBVIOUS
    <3> HIDE DEF W
    <3>2. [acc \in D |-> required] \in [D -> W]
      BY <3>1
    <3> QED
      BY <1>4, <3>2
  <2>3. V \in [D -> SUBSET W] /\ \A acc \in D : V[acc] = W
    OBVIOUS
  <2>4. \A acc \in D, g, k \in G :
          (\A y \in D : m[y] < m[acc] => g[y] = k[y]) => body(acc, g) = body(acc, k)
    <3> HIDE DEF m, D, G
    <3> QED
      BY <1>1, <1>3
  <2>5. G = {g \in [D -> W] : \A acc \in D : g[acc] \in V[acc]}
    OBVIOUS
  <2> HIDE DEF F, V, G, W, m, D, body
  <2>6. \A acc \in D, g, k \in G :
          (\A y \in D : m[y] < m[acc] => g[y] = k[y]) => F[acc][g] = F[acc][k]
    BY <2>1, <2>4
  <2>7. \A acc \in D, g \in G : F[acc][g] \in V[acc]
    BY <1>5, <2>1, <2>3
  <2> QED
    BY <1>3, <2>1, <2>2, <2>3, <2>5, <2>6, <2>7 DEF IsBody
<1>7. \E f : P(f)
  <2>1. PICK f \in G : \A acc \in D : f[acc] = F[acc][f]
    <3> HIDE DEF F, V, G, W, m, D, body, P
    <3> QED
      BY <1>6, MeasureRecursion
  <2>2. f \in [D -> W] /\ \A acc \in D : f[acc] = body(acc, f)
    BY <1>4, <1>5, <2>1
  <2> HIDE DEF body, D, W
  <2>3. P(f)
    BY <2>2
  <2> QED
    BY <2>3
<1>8. h = [acc \in D |-> body(acc, h)]
  <2> HIDE DEF P
  <2>1. P(h)
    BY <1>7, Zenon
  <2> QED
    BY <2>1 DEF P
<1> HIDE DEF h
<1> DEFINE T == {acc \in D : h[acc] \in W}
<1>9. ASSUME NEW acc \in D, \A y \in D : m[y] < m[acc] => y \in T
      PROVE  acc \in T
  <2>1. h[acc] = body(acc, h)
    BY <1>8
  <2>2. CASE acc >= required
    BY <2>1, <2>2
  <2>3. CASE ~(acc >= required)
    <3>1. h[acc] = h[next(acc)]
      BY <2>1, <2>3
    <3>2. m[next(acc)] < m[acc] /\ next(acc) \in D
      BY <1>1, <1>3, <2>3
    <3> HIDE DEF m, W, D
    <3> QED
      BY <1>9, <3>1, <3>2
  <2> QED
    BY <2>2, <2>3
<1>10. \A acc \in D : acc \in T
  <2> HIDE DEF m, T, D
  <2> QED
    BY <1>3, <1>9, MeasureInduction
<1>11. PageSize \in D
  BY PageSizeIs
<1> QED
  BY <1>2, <1>10, <1>11

-----------------------------------------------------------------------------
(* Output streams                                                          *)

Stored == Bytes \union {Junk}

IsStream(o) ==
  /\ o \in [kind : {"memory", "dynamic", "void", "legacy"}, mem : Seq(Stored), at : Nat, room : Nat,
            total : Nat, buf : [begin : Nat, size : Nat, alloc : Nat]]
  /\ o.at + o.room = Len(o.mem)
  /\ o.kind = "void" => Len(o.mem) = VoidSize

(* A stream that cannot grow                                               *)
Fixed(o) == o.kind \in {"memory", "legacy"}

(* Of the bytes q that were written, a stream has each; a void stream      *)
(* their number.                                                           *)
Holds(o, q) ==
  IF o.kind = "void" THEN TotalWritten(o) = Len(q)
  ELSE o.at = Len(q) /\ \A k \in 1 .. Len(q) : o.mem[k] = q[k]

(* A stream later on                                                       *)
Same(o, p) == p.kind = o.kind /\ p.buf = o.buf /\ (Fixed(o) => Len(p.mem) = Len(o.mem))

LEMMA OverwriteIs ==
  ASSUME NEW mem \in Seq(Stored), NEW at \in Nat, NEW bytes \in Seq(Bytes)
  PROVE  /\ Overwrite(mem, at, bytes) \in Seq(Stored) /\ Len(Overwrite(mem, at, bytes)) = Len(mem)
         /\ \A k \in 1 .. Len(mem) :
              Overwrite(mem, at, bytes)[k] = IF at < k /\ k <= at + Len(bytes) THEN bytes[k - at] ELSE mem[k]
<1> DEFINE new == [k \in DOMAIN mem |-> IF k - at \in DOMAIN bytes THEN bytes[k - at] ELSE mem[k]]
<1>1. DOMAIN mem = 1 .. Len(mem) /\ Len(mem) \in Nat /\ DOMAIN bytes = 1 .. Len(bytes) /\ Len(bytes) \in Nat
  OBVIOUS
<1>2. \A k \in 1 .. Len(mem) : mem[k] \in Stored
  OBVIOUS
<1>3. \A k \in 1 .. Len(bytes) : bytes[k] \in Stored
  BY DEF Stored
<1>4. \A k \in 1 .. Len(mem) : new[k] \in Stored
  BY <1>1, <1>2, <1>3
<1>5. new \in Seq(Stored) /\ Len(new) = Len(mem)
  BY <1>1, <1>4
<1>6. \A k \in 1 .. Len(mem) : new[k] = IF at < k /\ k <= at + Len(bytes) THEN bytes[k - at] ELSE mem[k]
  BY <1>1
<1> QED
  BY <1>5, <1>6 DEF Overwrite

LEMMA ResizedIs ==
  ASSUME NEW mem \in Seq(Stored), NEW n \in Nat, n >= Len(mem)
  PROVE  /\ Resized(mem, n, 0) \in Seq(Stored) /\ Len(Resized(mem, n, 0)) = n
         /\ \A k \in 1 .. Len(mem) : Resized(mem, n, 0)[k] = mem[k]
<1> DEFINE new == [k \in 1 .. n |-> IF k <= Len(mem) THEN mem[k] ELSE 0]
<1>1. 0 \in Stored
  BY DEF Stored, Bytes
<1>2. \A k \in 1 .. n : k <= Len(mem) => mem[k] \in Stored
  OBVIOUS
<1>3. \A k \in 1 .. n : new[k] \in Stored
  BY <1>1, <1>2
<1>4. new \in Seq(Stored) /\ Len(new) = n
  BY <1>3
<1>5. \A k \in 1 .. Len(mem) : new[k] = mem[k]
  OBVIOUS
<1> QED
  BY <1>4, <1>5 DEF Resized

(* Bytes that fit are stored behind the others, and what is stored behind  *)
(* them does not count.                                                    *)
LEMMA PutOutcome ==
  ASSUME NEW o, IsStream(o), NEW q \in Seq(Bytes), Holds(o, q),
         NEW word \in Seq(Bytes), NEW bytes \in Seq(Bytes), Len(bytes) <= Len(word),
         \A k \in 1 .. Len(bytes) : word[k] = bytes[k], Len(word) <= o.room,
         NEW r \in Put(o, word, Len(bytes))
  PROVE  /\ r = [out |-> r.out, rx |-> r.rx] /\ r.rx = "ok" /\ IsStream(r.out) /\ Same(o, r.out)
         /\ Holds(r.out, q \o bytes) /\ r.out.room = o.room - Len(bytes) /\ r.out.total = o.total
<1> DEFINE n == Len(bytes)
           new == Overwrite(o.mem, o.at, word)
           p == [o EXCEPT !.mem = new, !.at = @ + n, !.room = @ - n]
<1>1. o.mem \in Seq(Stored) /\ o.at \in Nat /\ o.room \in Nat /\ o.total \in Nat
  BY DEF IsStream
<1>2. n \in Nat /\ Len(word) \in Nat /\ n <= Len(word) /\ n <= o.room
  BY <1>1
<1>3. r = [out |-> p, rx |-> "ok"]
  <2>1. ~(Len(word) > o.room)
    BY <1>1, <1>2
  <2> QED
    BY <2>1 DEF Put, Wrote
<1>4. /\ new \in Seq(Stored) /\ Len(new) = Len(o.mem)
      /\ \A k \in 1 .. Len(o.mem) :
           new[k] = IF o.at < k /\ k <= o.at + Len(word) THEN word[k - o.at] ELSE o.mem[k]
  BY <1>1, OverwriteIs
<1> HIDE DEF new, n
<1>5. /\ p.kind = o.kind /\ p.mem = new /\ p.at = o.at + n /\ p.room = o.room - n
      /\ p.total = o.total /\ p.buf = o.buf
  BY DEF IsStream
<1>6. IsStream(p)
  <2>1. p \in [kind : {"memory", "dynamic", "void", "legacy"}, mem : Seq(Stored), at : Nat, room : Nat,
               total : Nat, buf : [begin : Nat, size : Nat, alloc : Nat]]
    <3>1. o.at + n \in Nat /\ o.room - n \in Nat
      BY <1>1, <1>2
    <3> QED
      BY <1>4, <3>1 DEF IsStream
  <2>2. p.at + p.room = Len(p.mem)
    BY <1>1, <1>2, <1>4, <1>5 DEF IsStream
  <2>3. p.kind = "void" => Len(p.mem) = VoidSize
    BY <1>4, <1>5 DEF IsStream
  <2> HIDE DEF p
  <2> QED
    BY <2>1, <2>2, <2>3 DEF IsStream
<1> HIDE DEF p
<1>7. Same(o, p)
  BY <1>4, <1>5 DEF Same
<1>8. Holds(p, q \o bytes)
  <2>1. Len(q \o bytes) = Len(q) + n /\ Len(q) \in Nat
    BY ConcatIs DEF n
  <2>2. CASE o.kind = "void"
    <3>1. TotalWritten(o) = Len(q)
      BY <2>2 DEF Holds
    <3>2. TotalWritten(p) = TotalWritten(o) + n
      BY <1>1, <1>2, <1>5, StreamAssumption DEF TotalWritten
    <3> QED
      BY <1>5, <2>1, <2>2, <3>1, <3>2 DEF Holds
  <2>3. CASE o.kind # "void"
    <3>1. o.at = Len(q) /\ \A k \in 1 .. Len(q) : o.mem[k] = q[k]
      BY <2>3 DEF Holds
    <3>2. ASSUME NEW k \in 1 .. Len(q) + n PROVE p.mem[k] = (q \o bytes)[k]
      <4>1. (q \o bytes)[k] = IF k <= Len(q) THEN q[k] ELSE bytes[k - Len(q)]
        BY ConcatIs DEF n
      <4>2. k \in 1 .. Len(o.mem)
        BY <1>1, <1>2, <2>1, <3>1 DEF IsStream
      <4>3. new[k] = IF o.at < k /\ k <= o.at + Len(word) THEN word[k - o.at] ELSE o.mem[k]
        BY <1>4, <4>2
      <4>4. CASE k <= Len(q)
        <5>1. new[k] = o.mem[k] /\ o.mem[k] = q[k]
          BY <2>1, <3>1, <4>3, <4>4
        <5> QED
          BY <1>5, <4>1, <4>4, <5>1
      <4>5. CASE ~(k <= Len(q))
        <5>1. o.at < k /\ k <= o.at + Len(word) /\ k - Len(q) \in 1 .. n
          BY <1>2, <2>1, <3>1, <4>5
        <5>2. new[k] = word[k - Len(q)] /\ word[k - Len(q)] = bytes[k - Len(q)]
          BY <3>1, <4>3, <5>1 DEF n
        <5> QED
          BY <1>5, <4>1, <4>5, <5>2
      <4> QED
        BY <4>4, <4>5
    <3> QED
      BY <1>5, <2>1, <2>3, <3>1, <3>2 DEF Holds
  <2> QED
    BY <2>2, <2>3
<1> QED
  BY <1>3, <1>5, <1>6, <1>7, <1>8 DEF n

-----------------------------------------------------------------------------
(* A dynamic stream keeps what it holds and has the room it was asked for. *)
LEMMA GrowDynamicOutcome ==
  ASSUME NEW o, IsStream(o), o.kind = "dynamic", NEW q \in Seq(Bytes), Holds(o, q), NEW n \in Nat,
         NEW r \in GrowDynamic(o, n)
  PROVE  /\ r = [out |-> r.out, rx |-> r.rx] /\ IsStream(r.out) /\ Same(o, r.out) /\ Holds(r.out, q)
         /\ (r.rx = "ok" /\ r.out.room >= n) \/ r.rx = "not_enough_memory"
<1> DEFINE size == BufferSizeFor(Len(o.mem) + n)
           new == Resized(o.mem, size, 0)
           p == [o EXCEPT !.mem = new, !.room = size - o.at]
<1>1. /\ o.mem \in Seq(Stored) /\ o.at \in Nat /\ o.room \in Nat /\ Len(o.mem) \in Nat
      /\ o.at + o.room = Len(o.mem)
  BY DEF IsStream
<1>2. size \in Nat /\ size >= Len(o.mem) + n
  <2>1. Len(o.mem) + n \in Nat
    BY <1>1
  <2> QED
    BY <2>1, BufferSuffices
<1>3. r = [out |-> p, rx |-> "ok"] \/ r = [out |-> o, rx |-> "not_enough_memory"]
  BY DEF GrowDynamic, Wrote
<1> HIDE DEF size
<1>4. new \in Seq(Stored) /\ Len(new) = size /\ \A k \in 1 .. Len(o.mem) : new[k] = o.mem[k]
  BY <1>1, <1>2, ResizedIs
<1> HIDE DEF new
<1>5. CASE r = [out |-> p, rx |-> "ok"]
  <2>1. p.kind = o.kind /\ p.mem = new /\ p.at = o.at /\ p.room = size - o.at /\ p.buf = o.buf
    BY DEF IsStream
  <2>2. IsStream(p)
    <3>1. size - o.at \in Nat
      BY <1>1, <1>2
    <3>2. p \in [kind : {"memory", "dynamic", "void", "legacy"}, mem : Seq(Stored), at : Nat, room : Nat,
                 total : Nat, buf : [begin : Nat, size : Nat, alloc : Nat]]
      BY <1>4, <3>1 DEF IsStream
    <3>3. p.at + p.room = Len(p.mem)
      BY <1>1, <1>2, <1>4, <2>1
    <3> HIDE DEF p
    <3> QED
      BY <2>1, <3>2, <3>3 DEF IsStream
  <2> HIDE DEF p
  <2>3. Same(o, p)
    BY <2>1 DEF Same, Fixed
  <2>4. Holds(p, q)
    <3>1. o.at = Len(q) /\ \A k \in 1 .. Len(q) : o.mem[k] = q[k]
      BY DEF Holds
    <3>2. \A k \in 1 .. Len(q) : k \in 1 .. Len(o.mem)
      BY <1>1, <3>1
    <3> QED
      BY <1>4, <2>1, <3>1, <3>2 DEF Holds
  <2>5. p.room >= n
    BY <1>1, <1>2, <2>1
  <2> QED
    BY <1>5, <2>2, <2>3, <2>4, <2>5
<1>6. CASE r = [out |-> o, rx |-> "not_enough_memory"]
  BY <1>6 DEF Same
<1> QED
  BY <1>3, <1>5, <1>6

(* What becomes of a call that writes bytes on a stream that holds q: it   *)
(* holds them too, or a part of them; only a stream that cannot grow ends, *)
(* and only if there is no room for them.                                  *)
Partly(o, q, bytes) ==
  \E p \in Seq(Bytes), rest \in Seq(Bytes) : bytes = p \o rest /\ Holds(o, q \o p)

Outcome(o, q, bytes, r) ==
  /\ r = [out |-> r.out, rx |-> r.rx] /\ IsStream(r.out) /\ Same(o, r.out)
  /\ \/ r.rx = "ok" /\ Holds(r.out, q \o bytes)
     \/ /\ r.rx \in {"not_enough_memory", "end_of_stream"} /\ Partly(r.out, q, bytes)
        /\ r.rx = "end_of_stream" => Fixed(o) /\ Len(o.mem) < Len(q) + Len(bytes)

LEMMA NothingYet ==
  ASSUME NEW o, NEW q \in Seq(Bytes), Holds(o, q), NEW bytes \in Seq(Bytes)
  PROVE  Partly(o, q, bytes)
<1>1. <<>> \in Seq(Bytes) /\ bytes = <<>> \o bytes /\ q \o <<>> = q
  BY EmptyIsUnit
<1> QED
  BY <1>1 DEF Partly

(* ensure_size() keeps what the stream holds; after it there is room for a *)
(* head.                                                                   *)
LEMMA EnsureOutcome ==
  ASSUME NEW o, IsStream(o), NEW q \in Seq(Bytes), Holds(o, q), NEW n \in Nat, n <= 9,
         NEW r \in EnsureSize(o, n)
  PROVE  /\ r = [out |-> r.out, rx |-> r.rx] /\ IsStream(r.out) /\ Same(o, r.out) /\ Holds(r.out, q)
         /\ \/ r.rx = "ok" /\ r.out.room >= n
            \/ r.rx = "not_enough_memory"
            \/ r.rx = "end_of_stream" /\ Fixed(o) /\ o.room < n
<1>1. o.room \in Nat /\ o.at \in Nat /\ o.total \in Nat /\ o.kind \in {"memory", "dynamic", "void", "legacy"}
  BY DEF IsStream
<1>2. CASE ~(o.room < n)
  <2>1. r = [out |-> o, rx |-> "ok"]
    BY <1>2 DEF EnsureSize, Wrote
  <2> QED
    BY <1>1, <1>2, <2>1 DEF Same
<1>3. CASE o.room < n /\ o.kind = "dynamic"
  <2>1. r \in GrowDynamic(o, n)
    BY <1>3 DEF EnsureSize, Grow
  <2> QED
    BY <1>3, <2>1, GrowDynamicOutcome
<1>4. CASE o.room < n /\ o.kind = "void"
  <2> DEFINE p == [o EXCEPT !.total = @ + VoidSize - o.room, !.at = 0, !.room = VoidSize]
  <2>1. VoidSize \in Nat /\ ~(n > VoidSize)
    BY StreamAssumption
  <2>2. r = [out |-> p, rx |-> "ok"]
    BY <1>4, <2>1 DEF EnsureSize, Grow, GrowVoid, Wrote
  <2>3. /\ p.kind = "void" /\ p.mem = o.mem /\ p.at = 0 /\ p.room = VoidSize /\ p.buf = o.buf
        /\ p.total = o.total + VoidSize - o.room
    BY <1>4 DEF IsStream
  <2>4. IsStream(p)
    <3>1. o.room <= VoidSize
      BY <1>1, <1>4, <2>1 DEF IsStream
    <3>2. o.total + VoidSize - o.room \in Nat
      BY <1>1, <2>1, <3>1
    <3>3. p \in [kind : {"memory", "dynamic", "void", "legacy"}, mem : Seq(Stored), at : Nat, room : Nat,
                 total : Nat, buf : [begin : Nat, size : Nat, alloc : Nat]]
      BY <2>1, <3>2 DEF IsStream
    <3>4. p.at + p.room = Len(p.mem) /\ Len(p.mem) = VoidSize
      BY <1>4, <2>1, <2>3 DEF IsStream
    <3> HIDE DEF p
    <3> QED
      BY <3>3, <3>4 DEF IsStream
  <2> HIDE DEF p
  <2>5. Same(o, p)
    BY <1>4, <2>3 DEF Same, Fixed
  <2>6. Holds(p, q)
    <3>1. TotalWritten(p) = TotalWritten(o)
      BY <1>1, <2>1, <2>3 DEF TotalWritten
    <3> QED
      BY <1>4, <2>3, <3>1 DEF Holds
  <2> QED
    BY <2>1, <2>2, <2>3, <2>4, <2>5, <2>6
<1>5. CASE o.room < n /\ Fixed(o)
  <2>1. r = [out |-> o, rx |-> "end_of_stream"]
    BY <1>5 DEF EnsureSize, Grow, Wrote, Fixed
  <2> QED
    BY <1>5, <2>1 DEF Same
<1> QED
  BY <1>1, <1>2, <1>3, <1>4, <1>5 DEF Fixed

LEMMA SameTwice ==
  ASSUME NEW a, NEW b, NEW c, Same(a, b), Same(b, c)
  PROVE  Same(a, c) /\ (Fixed(a) <=> Fixed(b))
BY DEF Same, Fixed

LEMMA EnsureAndPutOutcome ==
  ASSUME NEW o, IsStream(o), NEW q \in Seq(Bytes), Holds(o, q),
         NEW bytes \in Seq(Bytes), Len(bytes) <= 9, NEW r \in EnsureAndPut(o, bytes)
  PROVE  Outcome(o, q, bytes, r)
<1> DEFINE n == Len(bytes)
<1>1. n \in Nat /\ n <= 9
  OBVIOUS
<1> HIDE DEF n
<1>2. PICK e \in EnsureSize(o, n) : r \in (IF e.rx = "ok" THEN Put(e.out, bytes, n) ELSE {e})
  BY DEF EnsureAndPut, n
<1>3. /\ e = [out |-> e.out, rx |-> e.rx] /\ IsStream(e.out) /\ Same(o, e.out) /\ Holds(e.out, q)
      /\ \/ e.rx = "ok" /\ e.out.room >= n
         \/ e.rx = "not_enough_memory"
         \/ e.rx = "end_of_stream" /\ Fixed(o) /\ o.room < n
  BY <1>1, EnsureOutcome
<1>4. CASE e.rx = "ok"
  <2>1. r \in Put(e.out, bytes, n) /\ e.out.room >= n
    BY <1>2, <1>3, <1>4
  <2>2. e.out.room \in Nat
    BY <1>3 DEF IsStream
  <2>3. /\ r = [out |-> r.out, rx |-> r.rx] /\ r.rx = "ok" /\ IsStream(r.out) /\ Same(e.out, r.out)
        /\ Holds(r.out, q \o bytes)
    BY <1>1, <1>3, <2>1, <2>2, PutOutcome DEF n
  <2> QED
    BY <1>3, <2>3, SameTwice DEF Outcome
<1>5. CASE e.rx # "ok"
  <2>1. r = e
    BY <1>2, <1>5
  <2>2. Partly(e.out, q, bytes)
    BY <1>3, NothingYet
  <2>3. Fixed(o) /\ o.room < n => Len(o.mem) < Len(q) + n
    <3>1. ASSUME Fixed(o) PROVE o.at = Len(q) /\ o.at + o.room = Len(o.mem) /\ o.at \in Nat /\ o.room \in Nat
      BY <3>1 DEF Fixed, Holds, IsStream
    <3> QED
      BY <1>1, <3>1
  <2> QED
    BY <1>3, <1>5, <2>1, <2>2, <2>3 DEF Outcome, n
<1> QED
  BY <1>4, <1>5

-----------------------------------------------------------------------------
(* store_var_uint: the whole word it may store ends inside the window.     *)
LEMMA StoreVarUintOutcome ==
  ASSUME NEW o, IsStream(o), NEW q \in Seq(Bytes), Holds(o, q),
         NEW type \in TypeNames, NEW v \in Nat, v <= Huge, NEW width \in {4, 8}, width = 4 => v # Huge,
         NEW r \in StoreVarUint(o, type, v, width)
  PROVE  Outcome(o, q, HeadBytes(type, v), r)
<1> DEFINE bytes == HeadBytes(type, v)
           word == HeadWord(type, v, width)
<1>1. bytes \in Seq(Bytes) /\ Len(bytes) <= 9
  BY HeadLength
<1>2. /\ word \in Seq(Bytes) /\ Len(word) = 1 + width /\ Len(bytes) <= 1 + width
      /\ \A k \in 1 .. Len(bytes) : word[k] = bytes[k]
  BY WordBegins
<1>3. r \in (IF o.room < 1 + width THEN EnsureAndPut(o, bytes) ELSE Put(o, word, Len(bytes)))
  BY DEF StoreVarUint
<1> HIDE DEF bytes, word
<1>4. CASE o.room < 1 + width
  BY <1>1, <1>3, <1>4, EnsureAndPutOutcome DEF bytes
<1>5. CASE ~(o.room < 1 + width)
  <2>1. Len(word) <= o.room /\ Len(bytes) <= Len(word)
    <3>1. o.room \in Nat
      BY DEF IsStream
    <3> QED
      BY <1>2, <1>5, <3>1
  <2>2. r \in Put(o, word, Len(bytes))
    BY <1>3, <1>5
  <2>3. /\ r = [out |-> r.out, rx |-> r.rx] /\ r.rx = "ok" /\ IsStream(r.out) /\ Same(o, r.out)
        /\ Holds(r.out, q \o bytes)
    BY <1>1, <1>2, <2>1, <2>2, PutOutcome, SMTT(30)
  <2> QED
    BY <2>3 DEF Outcome, bytes
<1> QED
  BY <1>4, <1>5

(* A sequence is its two parts together.                                   *)
LEMMA Halves ==
  ASSUME NEW s \in Seq(Bytes), NEW n \in Nat, n <= Len(s)
  PROVE  /\ SubSeq(s, 1, n) \in Seq(Bytes) /\ Len(SubSeq(s, 1, n)) = n
         /\ SubSeq(s, n + 1, Len(s)) \in Seq(Bytes) /\ Len(SubSeq(s, n + 1, Len(s))) = Len(s) - n
         /\ s = SubSeq(s, 1, n) \o SubSeq(s, n + 1, Len(s))
<1> DEFINE a == SubSeq(s, 1, n)
           b == SubSeq(s, n + 1, Len(s))
<1>1. Len(s) \in Nat
  OBVIOUS
<1>2. a \in Seq(Bytes) /\ Len(a) = n /\ \A k \in 1 .. n : a[k] = s[k]
  BY <1>1
<1>3. b \in Seq(Bytes) /\ Len(b) = Len(s) - n /\ \A k \in 1 .. Len(s) - n : b[k] = s[n + k]
  BY <1>1
<1> HIDE DEF a, b
<1>4. a \o b \in Seq(Bytes) /\ Len(a \o b) = Len(s)
  BY <1>1, <1>2, <1>3, ConcatIs
<1>5. \A k \in 1 .. Len(s) : (a \o b)[k] = s[k]
  <2> TAKE k \in 1 .. Len(s)
  <2>1. (a \o b)[k] = IF k <= n THEN a[k] ELSE b[k - n]
    BY <1>1, <1>2, <1>3, ConcatIs
  <2>2. CASE k <= n
    BY <1>2, <2>1, <2>2
  <2>3. CASE ~(k <= n)
    <3>1. k - n \in 1 .. Len(s) - n /\ n + (k - n) = k
      BY <1>1, <2>3
    <3> QED
      BY <1>3, <2>1, <2>3, <3>1
  <2> QED
    BY <2>2, <2>3
<1>6. a \o b = s
  BY <1>4, <1>5, SeqEqual
<1> QED
  BY <1>2, <1>3, <1>6 DEF a, b

(* do_bulk_write: the window is used up, the rest does not fit.            *)
LEMMA DoBulkWriteOutcome ==
  ASSUME NEW o, IsStream(o), o.room = 0, NEW q \in Seq(Bytes), Holds(o, q),
         NEW bytes \in Seq(Bytes), Len(bytes) > 0, NEW r \in DoBulkWrite(o, bytes)
  PROVE  Outcome(o, q, bytes, r)
<1> DEFINE n == Len(bytes)
<1>1. n \in Nat /\ Len(q) \in Nat
  OBVIOUS
<1>2. o.at \in Nat /\ o.total \in Nat /\ o.kind \in {"memory", "dynamic", "void", "legacy"}
  BY DEF IsStream
<1>3. CASE o.kind = "dynamic"
  <2>1. PICK e \in GrowDynamic(o, n) : r \in (IF e.rx = "ok" THEN Put(e.out, bytes, n) ELSE {e})
    BY <1>3 DEF DoBulkWrite
  <2> HIDE DEF n
  <2>2. /\ e = [out |-> e.out, rx |-> e.rx] /\ IsStream(e.out) /\ Same(o, e.out) /\ Holds(e.out, q)
        /\ (e.rx = "ok" /\ e.out.room >= n) \/ e.rx = "not_enough_memory"
    BY <1>1, <1>3, GrowDynamicOutcome
  <2>3. CASE e.rx = "ok"
    <3>1. r \in Put(e.out, bytes, n) /\ e.out.room >= n
      BY <2>1, <2>2, <2>3
    <3>2. e.out.room \in Nat
      BY <2>2 DEF IsStream
    <3>3. /\ r = [out |-> r.out, rx |-> r.rx] /\ r.rx = "ok" /\ IsStream(r.out) /\ Same(e.out, r.out)
          /\ Holds(r.out, q \o bytes)
      BY <1>1, <2>2, <3>1, <3>2, PutOutcome DEF n
    <3> QED
      BY <2>2, <3>3, SameTwice DEF Outcome
  <2>4. CASE e.rx # "ok"
    <3>1. r = e /\ e.rx = "not_enough_memory"
      BY <2>1, <2>2, <2>4
    <3>2. Partly(e.out, q, bytes)
      BY <2>2, NothingYet
    <3> QED
      BY <2>2, <3>1, <3>2 DEF Outcome
  <2> QED
    BY <2>3, <2>4
<1>4. CASE o.kind = "void"
  <2> DEFINE p == [o EXCEPT !.total = @ + VoidSize + n, !.at = 0, !.room = VoidSize]
  <2>1. VoidSize \in Nat
    BY StreamAssumption
  <2>2. r = [out |-> p, rx |-> "ok"]
    BY <1>4 DEF DoBulkWrite, Wrote
  <2>3. /\ p.kind = "void" /\ p.mem = o.mem /\ p.at = 0 /\ p.room = VoidSize /\ p.buf = o.buf
        /\ p.total = o.total + VoidSize + n
    BY <1>4 DEF IsStream
  <2>4. IsStream(p)
    <3>1. o.total + VoidSize + n \in Nat
      BY <1>1, <1>2, <2>1
    <3>2. p \in [kind : {"memory", "dynamic", "void", "legacy"}, mem : Seq(Stored), at : Nat, room : Nat,
                 total : Nat, buf : [begin : Nat, size : Nat, alloc : Nat]]
      BY <2>1, <3>1 DEF IsStream
    <3>3. p.at + p.room = Len(p.mem) /\ Len(p.mem) = VoidSize
      BY <1>4, <2>1, <2>3 DEF IsStream
    <3> HIDE DEF p
    <3> QED
      BY <3>2, <3>3 DEF IsStream
  <2> HIDE DEF p
  <2>5. Same(o, p)
    BY <1>4, <2>3 DEF Same, Fixed
  <2>6. Holds(p, q \o bytes)
    <3>1. TotalWritten(p) = TotalWritten(o) + n
      BY <1>1, <1>2, <2>1, <2>3 DEF TotalWritten
    <3>2. TotalWritten(o) = Len(q)
      BY <1>4 DEF Holds
    <3>3. Len(q \o bytes) = Len(q) + n
      BY ConcatIs
    <3> QED
      BY <2>3, <3>1, <3>2, <3>3 DEF Holds
  <2> QED
    BY <2>2, <2>4, <2>5, <2>6 DEF Outcome
<1>5. CASE Fixed(o)
  <2>1. r = [out |-> o, rx |-> "end_of_stream"]
    BY <1>5 DEF DoBulkWrite, Wrote, Fixed
  <2>2. Partly(o, q, bytes)
    BY NothingYet
  <2>3. Len(o.mem) < Len(q) + n
    <3>1. o.at = Len(q) /\ o.at + o.room = Len(o.mem)
      BY <1>5 DEF Fixed, Holds, IsStream
    <3> QED
      BY <1>1, <3>1
  <2> QED
    BY <1>5, <2>1, <2>2, <2>3 DEF Outcome, Same
<1> QED
  BY <1>2, <1>3, <1>4, <1>5 DEF Fixed

-----------------------------------------------------------------------------
(* One write after another, and one that fails                             *)
LEMMA WriteAfter ==
  ASSUME NEW o, NEW p, Same(o, p), NEW q \in Seq(Bytes), NEW a \in Seq(Bytes), NEW b \in Seq(Bytes),
         NEW r, Outcome(p, q \o a, b, r)
  PROVE  Outcome(o, q, a \o b, r)
<1>1. r = [out |-> r.out, rx |-> r.rx] /\ IsStream(r.out) /\ Same(o, r.out) /\ (Fixed(o) <=> Fixed(p))
  BY SameTwice DEF Outcome
<1>2. (q \o a) \o b = q \o (a \o b)
  BY ConcatAssociative
<1>3. CASE r.rx = "ok"
  <2>1. Holds(r.out, (q \o a) \o b)
    BY <1>3 DEF Outcome
  <2> QED
    BY <1>1, <1>2, <1>3, <2>1 DEF Outcome
<1>4. CASE r.rx # "ok"
  <2>1. /\ r.rx \in {"not_enough_memory", "end_of_stream"} /\ Partly(r.out, q \o a, b)
        /\ r.rx = "end_of_stream" => Fixed(p) /\ Len(p.mem) < Len(q \o a) + Len(b)
    BY <1>4 DEF Outcome
  <2>2. PICK s \in Seq(Bytes), rest \in Seq(Bytes) : b = s \o rest /\ Holds(r.out, (q \o a) \o s)
    BY <2>1 DEF Partly
  <2>3. a \o b = (a \o s) \o rest /\ (q \o a) \o s = q \o (a \o s) /\ a \o s \in Seq(Bytes)
    <3>1. (a \o s) \o rest = a \o (s \o rest) /\ (q \o a) \o s = q \o (a \o s)
      <4>1. (a \o s) \o rest = a \o (s \o rest)
        BY <2>2, ConcatAssociative
      <4>2. (q \o a) \o s = q \o (a \o s)
        BY <2>2, ConcatAssociative, SMTT(30)
      <4> QED
        BY <4>1, <4>2
    <3>2. a \o s \in Seq(Bytes)
      BY ConcatIs
    <3> QED
      BY <2>2, <3>1, <3>2, Zenon
  <2>4. Partly(r.out, q, a \o b)
    BY <2>2, <2>3 DEF Partly
  <2>5. Len(q \o a) + Len(b) = Len(q) + Len(a \o b)
    <3>1. Len(q \o a) = Len(q) + Len(a) /\ Len(a \o b) = Len(a) + Len(b)
      BY ConcatIs
    <3> QED
      BY <3>1
  <2>6. Fixed(o) => Len(p.mem) = Len(o.mem)
    BY DEF Same
  <2> QED
    BY <1>1, <1>4, <2>1, <2>4, <2>5, <2>6 DEF Outcome
<1> QED
  BY <1>3, <1>4

LEMMA NoWriteAfter ==
  ASSUME NEW o, IsStream(o), NEW q \in Seq(Bytes), NEW a \in Seq(Bytes), NEW b \in Seq(Bytes),
         NEW r, Outcome(o, q, a, r), r.rx # "ok"
  PROVE  Outcome(o, q, a \o b, r)
<1>1. /\ r = [out |-> r.out, rx |-> r.rx] /\ IsStream(r.out) /\ Same(o, r.out)
      /\ r.rx \in {"not_enough_memory", "end_of_stream"} /\ Partly(r.out, q, a)
      /\ r.rx = "end_of_stream" => Fixed(o) /\ Len(o.mem) < Len(q) + Len(a)
  BY DEF Outcome
<1>2. PICK s \in Seq(Bytes), rest \in Seq(Bytes) : a = s \o rest /\ Holds(r.out, q \o s)
  BY <1>1 DEF Partly
<1>3. a \o b = s \o (rest \o b) /\ rest \o b \in Seq(Bytes)
  BY <1>2, ConcatAssociative, ConcatIs
<1>4. Partly(r.out, q, a \o b)
  BY <1>2, <1>3 DEF Partly
<1>5. Len(o.mem) < Len(q) + Len(a) => Len(o.mem) < Len(q) + Len(a \o b)
  <2>1. Len(o.mem) \in Nat /\ Len(q) \in Nat /\ Len(a) \in Nat /\ Len(b) \in Nat
    BY DEF IsStream
  <2>2. Len(a \o b) = Len(a) + Len(b)
    BY ConcatIs
  <2> QED
    BY <2>1, <2>2
<1> QED
  BY <1>1, <1>4, <1>5 DEF Outcome

LEMMA BulkWriteOutcome ==
  ASSUME NEW o, IsStream(o), NEW q \in Seq(Bytes), Holds(o, q),
         NEW bytes \in Seq(Bytes), NEW r \in BulkWrite(o, bytes)
  PROVE  Outcome(o, q, bytes, r)
<1> DEFINE n == Lesser(Len(bytes), o.room)
           a == SubSeq(bytes, 1, n)
           b == SubSeq(bytes, n + 1, Len(bytes))
<1>1. Len(bytes) \in Nat /\ o.room \in Nat
  BY DEF IsStream
<1>2. n \in Nat /\ n <= Len(bytes) /\ n <= o.room /\ (n # Len(bytes) => n = o.room /\ n < Len(bytes))
  BY <1>1 DEF Lesser
<1>3. PICK e \in Put(o, a, n) : r \in (IF n = Len(bytes) THEN {e} ELSE DoBulkWrite(e.out, b))
  BY DEF BulkWrite
<1> HIDE DEF n
<1>4. /\ a \in Seq(Bytes) /\ Len(a) = n /\ b \in Seq(Bytes) /\ Len(b) = Len(bytes) - n
      /\ bytes = a \o b
  BY <1>2, Halves
<1> HIDE DEF a, b
<1>5. /\ e = [out |-> e.out, rx |-> e.rx] /\ e.rx = "ok" /\ IsStream(e.out) /\ Same(o, e.out)
      /\ Holds(e.out, q \o a) /\ e.out.room = o.room - n
  <2>1. Len(a) <= Len(a) /\ Len(a) <= o.room /\ e \in Put(o, a, Len(a))
    BY <1>2, <1>3, <1>4
  <2> QED
    BY <1>4, <2>1, PutOutcome
<1>6. q \o a \in Seq(Bytes)
  BY <1>4, ConcatIs
<1>7. CASE n = Len(bytes)
  <2>1. r = e
    BY <1>3, <1>7
  <2>2. b = <<>> /\ a \o b = a
    <3>1. Len(b) = 0
      BY <1>1, <1>4, <1>7
    <3>2. b = <<>>
      BY <1>4, <3>1
    <3> QED
      BY <1>4, <3>2, EmptyIsUnit
  <2> QED
    BY <1>4, <1>5, <2>1, <2>2 DEF Outcome
<1>8. CASE n # Len(bytes)
  <2>1. r \in DoBulkWrite(e.out, b) /\ e.out.room = 0 /\ Len(b) > 0
    BY <1>1, <1>2, <1>3, <1>4, <1>5, <1>8
  <2>2. Outcome(e.out, q \o a, b, r)
    BY <1>4, <1>5, <1>6, <2>1, DoBulkWriteOutcome
  <2> QED
    BY <1>4, <1>5, <2>2, WriteAfter
<1> QED
  BY <1>7, <1>8

(* Whatever is called, the stream holds the call's bytes behind the others.*)
LEMMA PerformOutcome ==
  ASSUME NEW o, IsStream(o), NEW q \in Seq(Bytes), Holds(o, q), NEW c \in Calls, NEW r \in Perform(o, c)
  PROVE  Outcome(o, q, CallBytes(c), r)
<1>1. CASE c \in VarUints
  <2>1. /\ c.name = "varuint" /\ c.type \in TypeNames
        /\ c.value \in Nat /\ c.value <= Huge /\ c.arg \in {4, 8}
        /\ c.arg = 4 => c.value # Huge
    BY <1>1, HugeIs DEF VarUints
  <2>2. r \in StoreVarUint(o, c.type, c.value, c.arg) /\ CallBytes(c) = HeadBytes(c.type, c.value)
    BY <2>1 DEF Perform, CallBytes
  <2> QED
    BY <2>1, <2>2, StoreVarUintOutcome
<1>2. CASE c \in Stores
  <2>1. c.name \in {"inline", "float"} /\ c.arg \in Seq(Bytes) /\ Len(c.arg) <= 9
    BY <1>2 DEF Stores
  <2>2. r \in EnsureAndPut(o, c.arg) /\ CallBytes(c) = c.arg
    BY <2>1 DEF Perform, CallBytes
  <2> QED
    BY <2>1, <2>2, EnsureAndPutOutcome
<1>3. CASE c \in Bulks
  <2>1. c.name = "bulk" /\ c.arg \in Seq(Bytes)
    BY <1>3 DEF Bulks
  <2>2. r \in BulkWrite(o, c.arg) /\ CallBytes(c) = c.arg
    BY <2>1 DEF Perform, CallBytes
  <2> QED
    BY <2>1, <2>2, BulkWriteOutcome
<1>4. CASE c \in Allocations
  <2>1. c.name = "allocate" /\ c.arg = <<>>
    BY <1>4 DEF Allocations
  <2>2. r \in {[out |-> o, rx |-> "ok"], [out |-> o, rx |-> "not_enough_memory"]} /\ CallBytes(c) = <<>>
    BY <2>1 DEF Perform, CallBytes, Wrote
  <2>3. q \o <<>> = q /\ <<>> \in Seq(Bytes)
    BY EmptyIsUnit
  <2>4. Partly(o, q, <<>>)
    BY <2>3, NothingYet
  <2> QED
    BY <2>2, <2>3, <2>4 DEF Outcome, Same
<1> QED
  BY <1>1, <1>2, <1>3, <1>4 DEF Calls

-----------------------------------------------------------------------------
Streams ==
  {o \in [kind : {"memory", "dynamic", "void", "legacy"}, mem : Seq(Stored), at : Nat, room : Nat,
          total : Nat, buf : [begin : Nat, size : Nat, alloc : Nat]] : IsStream(o)}

Results == [out : Streams, rx : {"ok", "not_enough_memory", "end_of_stream"}]

LEMMA ResultOf ==
  ASSUME NEW o, NEW q, NEW bytes, NEW r, Outcome(o, q, bytes, r)
  PROVE  r \in Results
<1>1. r.out \in Streams
  BY DEF Outcome, Streams, IsStream
<1>2. r.rx \in {"ok", "not_enough_memory", "end_of_stream"} /\ r = [out |-> r.out, rx |-> r.rx]
  BY DEF Outcome
<1> QED
  BY <1>1, <1>2 DEF Results

(* The calls one after the other: the stream holds the bytes of all, or,   *)
(* when one of them failed, a part of them.                                *)
LEMMA PerformAllOutcome ==
  ASSUME NEW o, IsStream(o), NEW q \in Seq(Bytes), Holds(o, q), NEW calls \in Seq(Calls),
         NEW r \in PerformAll(o, calls)
  PROVE  Outcome(o, q, BytesOf(calls), r)
<1> DEFINE n == Len(calls)
           s == [k \in DOMAIN calls |-> CallBytes(calls[k])]
           D == 0 .. n
           after(g, k) == IF k = 0 THEN Wrote(o, "ok")
                          ELSE UNION {IF e.rx = "ok" THEN Perform(e.out, calls[k]) ELSE {e} : e \in g[k - 1]}
           P(f) == f = [k \in 0 .. Len(calls) |-> after(f, k)]
           h == CHOOSE f : P(f)
<1>1. s \in Seq(Seq(Bytes)) /\ Len(s) = n /\ n \in Nat
  BY BytesOfType
<1>2. \A k \in 1 .. n : calls[k] \in Calls /\ s[k] = CallBytes(calls[k]) /\ s[k] \in Seq(Bytes)
  BY CallBytesType
<1>3. BytesOf(calls) = FlattenSeq(s)
  BY DEF BytesOf
<1>4. PerformAll(o, calls) = h[n]
  BY Zenon DEF PerformAll
<1> HIDE DEF s, n, h
<1>5. PICK f : IsFlattening(f, Bytes, s)
  BY <1>1, FlatteningExists
<1>6. /\ f \in [0 .. n -> Seq(Bytes)] /\ f[0] = <<>>
      /\ \A k \in 1 .. n : f[k] = f[k - 1] \o s[k]
  BY <1>1, <1>5 DEF IsFlattening
<1>7. BytesOf(calls) = f[n]
  BY <1>1, <1>3, <1>5, FlattenIs
<1> DEFINE Good(k, e) == Outcome(o, q, f[k], e)
           V == [k \in D |-> SUBSET {e \in Results : Good(k, e)}]
           W == SUBSET Results
           G == {g \in [D -> W] : \A k \in D : g[k] \in V[k]}
           m == [k \in D |-> k]
           F == [k \in D |-> [g \in G |-> after(g, k)]]
<1>8. \A k \in D : \A g : (k # 0 => \A e \in g[k - 1] : Good(k - 1, e))
                            => \A e \in after(g, k) : Good(k, e)
  <2> SUFFICES ASSUME NEW k \in D, NEW g, k # 0 => \A e \in g[k - 1] : Good(k - 1, e),
                      NEW e \in after(g, k)
               PROVE  Good(k, e)
    OBVIOUS
  <2>1. CASE k = 0
    <3>1. e = [out |-> o, rx |-> "ok"] /\ f[0] = <<>> /\ q \o <<>> = q
      BY <1>6, <2>1, EmptyIsUnit DEF Wrote
    <3> QED
      BY <2>1, <3>1 DEF Outcome, Same
  <2>2. CASE k # 0
    <3>1. PICK d \in g[k - 1] : e \in (IF d.rx = "ok" THEN Perform(d.out, calls[k]) ELSE {d})
      BY <2>2
    <3>2. Outcome(o, q, f[k - 1], d)
      BY <2>2, <3>1
    <3>3. k \in 1 .. n /\ k - 1 \in 0 .. n /\ f[k - 1] \in Seq(Bytes)
      BY <1>1, <1>6, <2>2
    <3>4. f[k] = f[k - 1] \o s[k] /\ s[k] \in Seq(Bytes)
      BY <1>2, <1>6, <3>3
    <3> DEFINE a == f[k - 1]
               b == s[k]
    <3>5. CASE d.rx = "ok"
      <4>1. e \in Perform(d.out, calls[k]) /\ IsStream(d.out) /\ Same(o, d.out) /\ Holds(d.out, q \o a)
        BY <3>1, <3>2, <3>5 DEF Outcome
      <4>2. calls[k] \in Calls /\ b = CallBytes(calls[k])
        BY <1>2, <3>3
      <4>3. a \in Seq(Bytes) /\ b \in Seq(Bytes) /\ q \o a \in Seq(Bytes)
        BY <3>3, <3>4, ConcatIs
      <4>4. f[k] = a \o b
        BY <3>4
      <4> HIDE DEF a, b
      <4>5. Outcome(d.out, q \o a, b, e)
        BY <4>1, <4>2, <4>3, PerformOutcome
      <4>6. Outcome(o, q, a \o b, e)
        BY <4>1, <4>3, <4>5, WriteAfter
      <4> QED
        BY <4>4, <4>6
    <3>6. CASE d.rx # "ok"
      <4>1. e = d
        BY <3>1, <3>6
      <4>2. a \in Seq(Bytes) /\ b \in Seq(Bytes) /\ f[k] = a \o b /\ Outcome(o, q, a, e)
        BY <3>2, <3>3, <3>4, <4>1
      <4> HIDE DEF a, b
      <4>3. Outcome(o, q, a \o b, e)
        BY <3>6, <4>1, <4>2, NoWriteAfter
      <4> QED
        BY <4>2, <4>3
    <3> QED
      BY <3>5, <3>6
  <2> QED
    BY <2>1, <2>2
<1> HIDE DEF after
<1>9. \A k \in D, g \in G : after(g, k) \in W /\ after(g, k) \in V[k]
  <2> TAKE k \in D, g \in G
  <2>1. k # 0 => k - 1 \in D
    BY <1>1
  <2>2. k # 0 => \A e \in g[k - 1] : Good(k - 1, e)
    <3> HIDE DEF Good, W, D
    <3> QED
      BY <2>1
  <2>3. \A e \in after(g, k) : Good(k, e)
    <3> HIDE DEF Good, G
    <3> QED
      BY <1>8, <2>2
  <2>4. \A e \in after(g, k) : e \in Results
    BY <2>3, ResultOf
  <2> HIDE DEF Good
  <2> QED
    BY <2>3, <2>4
<1>10. \E x : P(x)
  <2>1. IsBody(D, m, W, V, G, F)
    <3>1. m \in [D -> Nat] /\ \A k \in D : m[k] = k
      BY <1>1
    <3>2. V \in [D -> SUBSET W]
      <4> HIDE DEF Good, D
      <4> QED
        OBVIOUS
    <3>3. G # {}
      <4> DEFINE z == [k \in D |-> {}]
      <4>1. z \in [D -> W] /\ \A k \in D : z[k] \in V[k]
        <5> HIDE DEF Good, D
        <5> QED
          OBVIOUS
      <4>2. z \in G
        <5> HIDE DEF z, V, W, D
        <5> QED
          BY <4>1
      <4> QED
        BY <4>2
    <3>4. G = {g \in [D -> W] : \A k \in D : g[k] \in V[k]}
      OBVIOUS
    <3>5. \A k \in D, g, j \in G : (\A y \in D : m[y] < m[k] => g[y] = j[y]) => after(g, k) = after(j, k)
      <4> TAKE k \in D, g \in G, j \in G
      <4> HAVE \A y \in D : m[y] < m[k] => g[y] = j[y]
      <4>1. CASE k = 0
        BY <4>1 DEF after
      <4>2. CASE k # 0
        <5>1. k - 1 \in D /\ m[k - 1] < m[k]
          BY <1>1, <3>1, <4>2
        <5>2. g[k - 1] = j[k - 1]
          BY <5>1
        <5> QED
          BY <4>2, <5>2 DEF after
      <4> QED
        BY <4>1, <4>2
    <3> HIDE DEF V, W, G, m, D
    <3>6. F \in [D -> [G -> W]] /\ \A k \in D, g \in G : F[k][g] = after(g, k)
      BY <1>9
    <3> HIDE DEF F
    <3>7. \A k \in D, g \in G : F[k][g] \in V[k]
      BY <1>9, <3>6
    <3>8. \A k \in D, g, j \in G : (\A y \in D : m[y] < m[k] => g[y] = j[y]) => F[k][g] = F[k][j]
      BY <3>5, <3>6
    <3> QED
      BY <3>1, <3>2, <3>3, <3>4, <3>6, <3>7, <3>8 DEF IsBody
  <2>2. PICK x \in G : \A k \in D : x[k] = F[k][x]
    <3> HIDE DEF V, W, G, m, D, F
    <3> QED
      BY <2>1, MeasureRecursion
  <2>3. \A k \in D : x[k] = after(x, k)
    <3> HIDE DEF V, W, G, m, D
    <3> QED
      BY <2>2
  <2>4. x = [k \in D |-> x[k]]
    <3> HIDE DEF V, W, D
    <3> QED
      OBVIOUS
  <2>5. P(x)
    BY <2>3, <2>4 DEF n
  <2> QED
    BY <2>5
<1>11. h = [k \in 0 .. n |-> after(h, k)]
  <2> HIDE DEF P
  <2>1. P(h)
    BY <1>10, Zenon DEF h
  <2> QED
    BY <2>1 DEF P, n
<1> DEFINE T == {k \in Nat : k <= n => \A e \in h[k] : Good(k, e)}
<1> HIDE DEF Good
<1>12. 0 \in T
  <2>1. 0 \in D
    BY <1>1
  <2>2. \A k \in D : h[k] = after(h, k)
    BY <1>11
  <2>3. h[0] = after(h, 0)
    BY <2>1, <2>2
  <2> QED
    BY <1>8, <2>1, <2>3
<1>13. ASSUME NEW k \in Nat, k \in T PROVE k + 1 \in T
  <2> SUFFICES ASSUME k + 1 <= n PROVE \A e \in h[k + 1] : Good(k + 1, e)
    OBVIOUS
  <2>1. k + 1 \in D /\ k + 1 # 0 /\ (k + 1) - 1 = k /\ k <= n
    BY <1>1
  <2>2. h[k + 1] = after(h, k + 1)
    BY <1>11, <2>1
  <2>3. \A e \in h[k] : Good(k, e)
    BY <1>13, <2>1
  <2> QED
    BY <1>8, <2>1, <2>2, <2>3
<1> HIDE DEF T
<1>14. n \in T
  BY <1>1, <1>12, <1>13, NumberInduction
<1>15. \A e \in h[n] : Good(n, e)
  BY <1>1, <1>14 DEF T
<1> QED
  BY <1>4, <1>7, <1>15 DEF Good

-----------------------------------------------------------------------------
(* A session: the log says what the output holds                           *)

Entries == [item : Encodable, rx : {"ok", "not_enough_memory", "end_of_stream"}, room : Nat, size : Int]

SentOf(l) == FlattenSeq([k \in DOMAIN l |-> IF l[k].rx = "ok" THEN Encoding(l[k].item) ELSE <<>>])

(* The last call, if there was one, succeeded.                             *)
Whole(l) == l = <<>> \/ l[Len(l)].rx = "ok"

(* A legacy buffer has consumed what was sent, other streams hold it, and  *)
(* a part of what failed.                                                  *)
Consumed(o, q) ==
  /\ o.buf.begin + o.buf.size = o.buf.alloc /\ o.buf.alloc = Len(o.mem)
  /\ o.buf.begin = Len(q) /\ \A k \in 1 .. Len(q) : o.mem[k] = q[k]

Kept(o, l) ==
  /\ o.kind = "legacy" => Consumed(o, SentOf(l))
  /\ o.kind # "legacy" => IF Whole(l) THEN Holds(o, SentOf(l))
                          ELSE Partly(o, SentOf(l), Encoding(l[Len(l)].item))

(* What an entry of the log says of the size of its item                   *)
EntryRight(o, e) ==
  /\ e.rx = "ok" => e.size = SizeOf[e.item] /\ (Fixed(o) => SizeOf[e.item] <= e.room)
  /\ e.rx = "end_of_stream" => Fixed(o) /\ e.room < SizeOf[e.item]

LEMMA SentGrows ==
  ASSUME NEW l \in Seq(Entries), NEW e \in Entries
  PROVE  /\ SentOf(l) \in Seq(Bytes)
         /\ SentOf(Append(l, e)) = IF e.rx = "ok" THEN SentOf(l) \o Encoding(e.item) ELSE SentOf(l)
<1> DEFINE bytes(d) == IF d.rx = "ok" THEN Encoding(d.item) ELSE <<>>
           s == [k \in DOMAIN l |-> bytes(l[k])]
           t == [k \in DOMAIN Append(l, e) |-> bytes(Append(l, e)[k])]
<1>1. \A d \in Entries : bytes(d) \in Seq(Bytes)
  <2> TAKE d \in Entries
  <2>1. d.item \in Encodable
    BY DEF Entries
  <2> QED
    BY <2>1, SizeOfIsLength, EmptyIsUnit
<1> HIDE DEF bytes
<1>2. s \in Seq(Seq(Bytes)) /\ Len(s) = Len(l)
  <2>1. DOMAIN l = 1 .. Len(l) /\ Len(l) \in Nat /\ \A k \in 1 .. Len(l) : l[k] \in Entries
    OBVIOUS
  <2>2. \A k \in 1 .. Len(l) : bytes(l[k]) \in Seq(Bytes)
    BY <1>1, <2>1
  <2> QED
    BY <2>1, <2>2
<1>3. t = Append(s, bytes(e))
  <2> DEFINE u == Append(l, e)
  <2>1. /\ DOMAIN u = 1 .. Len(l) + 1 /\ Len(l) \in Nat /\ u[Len(l) + 1] = e
        /\ \A k \in 1 .. Len(l) : u[k] = l[k] /\ u[k] \in Entries
    OBVIOUS
  <2>2. t \in Seq(Seq(Bytes)) /\ Len(t) = Len(l) + 1
    <3>1. \A k \in 1 .. Len(l) + 1 : u[k] \in Entries
      BY <2>1
    <3> HIDE DEF u
    <3>2. \A k \in 1 .. Len(l) + 1 : bytes(u[k]) \in Seq(Bytes)
      BY <1>1, <3>1
    <3>3. /\ [k \in DOMAIN u |-> bytes(u[k])] \in Seq(Seq(Bytes))
          /\ Len([k \in DOMAIN u |-> bytes(u[k])]) = Len(l) + 1
      BY <2>1, <3>2
    <3> QED
      BY <3>3 DEF u
  <2>3. \A k \in 1 .. Len(l) + 1 : t[k] = bytes(u[k])
    BY <2>1
  <2>4. \A k \in 1 .. Len(l) : s[k] = bytes(l[k])
    OBVIOUS
  <2> HIDE DEF s, t, u
  <2>5. /\ Append(s, bytes(e)) \in Seq(Seq(Bytes)) /\ Len(Append(s, bytes(e))) = Len(l) + 1
        /\ Append(s, bytes(e))[Len(l) + 1] = bytes(e)
        /\ \A k \in 1 .. Len(l) : Append(s, bytes(e))[k] = s[k]
    BY <1>1, <1>2, <2>1
  <2>6. \A k \in 1 .. Len(l) + 1 : t[k] = Append(s, bytes(e))[k]
    <3> TAKE k \in 1 .. Len(l) + 1
    <3>1. CASE k = Len(l) + 1
      BY <2>1, <2>3, <2>5, <3>1
    <3>2. CASE k # Len(l) + 1
      <4>1. k \in 1 .. Len(l)
        BY <2>1, <3>2
      <4> QED
        BY <2>1, <2>3, <2>4, <2>5, <4>1
    <3> QED
      BY <3>1, <3>2
  <2> QED
    BY <2>2, <2>5, <2>6, SeqEqual
<1> HIDE DEF s, t
<1>4. bytes(e) \in Seq(Bytes)
  BY <1>1
<1>5. FlattenSeq(Append(s, bytes(e))) = FlattenSeq(s) \o bytes(e) /\ FlattenSeq(s) \in Seq(Bytes)
  BY <1>2, <1>4, FlattenAppend
<1>6. SentOf(l) = FlattenSeq(s) /\ SentOf(Append(l, e)) = FlattenSeq(t)
  BY DEF SentOf, s, t, bytes
<1>7. FlattenSeq(s) \o bytes(e) = IF e.rx = "ok" THEN FlattenSeq(s) \o Encoding(e.item) ELSE FlattenSeq(s)
  BY <1>5, EmptyIsUnit DEF bytes
<1> QED
  BY <1>3, <1>5, <1>6, <1>7

(* Every output starts empty.                                              *)
LEMMA EmptyOutput ==
  ASSUME NEW kind \in {"memory", "dynamic", "void", "legacy"}, NEW n \in Nat
  PROVE  IsStream(Output(kind, n)) /\ Kept(Output(kind, n), <<>>) /\ Output(kind, n).kind = kind
<1> DEFINE size == IF kind = "void" THEN VoidSize ELSE n
           mem == [k \in 1 .. size |-> Junk]
           buf == WholeBuffer(IF kind = "legacy" THEN n ELSE 0)
           o == Output(kind, n)
<1>1. size \in Nat /\ VoidSize \in Nat
  BY StreamAssumption
<1>2. mem \in Seq(Stored) /\ Len(mem) = size
  <2>1. \A k \in 1 .. size : Junk \in Stored
    BY DEF Stored
  <2> HIDE DEF size
  <2> QED
    BY <1>1, <2>1
<1>3. buf \in [begin : Nat, size : Nat, alloc : Nat] /\ buf.begin = 0 /\ buf.size = buf.alloc
      /\ (kind = "legacy" => buf.alloc = n)
  BY DEF WholeBuffer
<1>4. o = [kind |-> kind, mem |-> mem, at |-> 0, room |-> size, total |-> 0, buf |-> buf]
  BY DEF Output
<1> HIDE DEF mem, buf, o
<1>5. IsStream(o)
  BY <1>1, <1>2, <1>3, <1>4 DEF IsStream
<1>6. SentOf(<<>>) = <<>>
  BY FlattenEmpty DEF SentOf
<1>7. Kept(o, <<>>)
  <2>1. CASE kind = "legacy"
    BY <1>2, <1>3, <1>4, <1>6, <2>1 DEF Kept, Consumed
  <2>2. CASE kind # "legacy"
    <3>1. Holds(o, <<>>)
      BY <1>1, <1>4 DEF Holds, TotalWritten
    <3> QED
      BY <1>4, <1>6, <2>2, <3>1 DEF Kept, Whole
  <2> QED
    BY <2>1, <2>2
<1> QED
  BY <1>4, <1>5, <1>7 DEF o

-----------------------------------------------------------------------------
LEMMA OpenedOutput ==
  ASSUME NEW o, IsStream(o), NEW l \in Seq(Entries), Kept(o, l), Whole(l) \/ o.kind = "legacy"
  PROVE  LET start == OpenOutput(o) IN
         /\ IsStream(start) /\ Same(o, start) /\ Holds(start, SentOf(l)) /\ start.mem = o.mem
<1>1. CASE o.kind # "legacy"
  <2>1. OpenOutput(o) = o
    BY <1>1 DEF OpenOutput
  <2> QED
    BY <1>1, <2>1 DEF Kept, Same
<1>2. CASE o.kind = "legacy"
  <2> DEFINE p == [o EXCEPT !.at = o.buf.begin, !.room = o.buf.size]
             q == SentOf(l)
  <2>1. OpenOutput(o) = p
    BY <1>2 DEF OpenOutput
  <2>2. Consumed(o, q)
    BY <1>2 DEF Kept
  <2>3. p.kind = o.kind /\ p.mem = o.mem /\ p.at = o.buf.begin /\ p.room = o.buf.size /\ p.buf = o.buf
    BY DEF IsStream
  <2>4. IsStream(p)
    <3>1. o.buf.begin \in Nat /\ o.buf.size \in Nat
      BY DEF IsStream
    <3>2. p \in [kind : {"memory", "dynamic", "void", "legacy"}, mem : Seq(Stored), at : Nat, room : Nat,
                 total : Nat, buf : [begin : Nat, size : Nat, alloc : Nat]]
      BY <3>1 DEF IsStream
    <3>3. p.at + p.room = Len(p.mem)
      BY <2>2, <2>3 DEF Consumed
    <3> HIDE DEF p
    <3> QED
      BY <1>2, <2>3, <3>2, <3>3 DEF IsStream
  <2> HIDE DEF p, q
  <2>5. Same(o, p)
    BY <2>3 DEF Same
  <2>6. Holds(p, q)
    BY <1>2, <2>2, <2>3 DEF Holds, Consumed
  <2> QED
    BY <2>1, <2>3, <2>4, <2>5, <2>6 DEF q
<1> QED
  BY <1>1, <1>2

(* A legacy buffer that is told how far the stream came has consumed what  *)
(* the stream holds.                                                       *)
LEMMA SyncedOutput ==
  ASSUME NEW o, IsStream(o), o.kind = "legacy", NEW q \in Seq(Bytes), Holds(o, q),
         o.buf.begin + o.buf.size = o.buf.alloc, o.buf.alloc = Len(o.mem)
  PROVE  IsStream(SyncOutput(o)) /\ Consumed(SyncOutput(o), q)
<1> DEFINE b == o.buf
           d == MoveConsumer(b, o.at - b.begin)
           p == [o EXCEPT !.buf = d]
<1>1. SyncOutput(o) = p
  BY DEF SyncOutput
<1>2. /\ b \in [begin : Nat, size : Nat, alloc : Nat] /\ o.at \in Nat /\ o.room \in Nat
      /\ o.at + o.room = Len(o.mem) /\ o.at = Len(q)
      /\ \A k \in 1 .. Len(q) : o.mem[k] = q[k]
  BY DEF IsStream, Holds
<1>3. /\ b.begin \in Nat /\ b.size \in Nat /\ b.alloc \in Nat
      /\ b.begin + b.size = b.alloc /\ b.alloc = Len(o.mem)
  BY <1>2
<1> HIDE DEF b
<1>4. /\ d.begin = b.begin + (o.at - b.begin) /\ d.size = b.size - (o.at - b.begin) /\ d.alloc = b.alloc
  BY <1>2 DEF MoveConsumer
<1>5. d = [begin |-> d.begin, size |-> d.size, alloc |-> d.alloc]
  <2>1. b = [begin |-> b.begin, size |-> b.size, alloc |-> b.alloc]
    BY <1>2
  <2>2. DOMAIN b = {"begin", "size", "alloc"}
    BY <2>1
  <2>3. DOMAIN d = {"begin", "size", "alloc"} /\ d = [k \in DOMAIN d |-> d[k]]
    BY <2>2 DEF MoveConsumer
  <2> QED
    BY <2>3
<1> HIDE DEF d
<1>6. d.begin = o.at /\ d.size = o.room /\ d.alloc = Len(o.mem)
  <2> DEFINE db == d.begin
             ds == d.size
             bb == b.begin
             bs == b.size
             w == o.at
             z == o.room
             n == Len(o.mem)
  <2>1. db = bb + (w - bb) /\ ds = bs - (w - bb) /\ d.alloc = b.alloc
    BY <1>4
  <2>2. bb \in Nat /\ bs \in Nat /\ bb + bs = n /\ w + z = n /\ w \in Nat /\ z \in Nat /\ b.alloc = n
    BY <1>2, <1>3
  <2> HIDE DEF db, ds, bb, bs, w, z, n
  <2>3. db = w /\ ds = z
    BY <2>1, <2>2
  <2> QED
    BY <2>1, <2>2, <2>3 DEF db, ds, w, z, n
<1>7. d \in [begin : Nat, size : Nat, alloc : Nat]
  <2>1. d.begin \in Nat /\ d.size \in Nat /\ d.alloc \in Nat
    BY <1>2, <1>3, <1>6
  <2> QED
    BY <1>5, <2>1
<1>8. p.kind = "legacy" /\ p.mem = o.mem /\ p.at = o.at /\ p.room = o.room /\ p.buf = d
  BY DEF IsStream
<1>9. p \in [kind : {"memory", "dynamic", "void", "legacy"}, mem : Seq(Stored), at : Nat, room : Nat,
             total : Nat, buf : [begin : Nat, size : Nat, alloc : Nat]]
  BY <1>7 DEF IsStream
<1> HIDE DEF p
<1>10. IsStream(p)
  BY <1>2, <1>8, <1>9 DEF IsStream
<1>11. Consumed(p, q)
  BY <1>2, <1>6, <1>8 DEF Consumed
<1> QED
  BY <1>1, <1>10, <1>11

(* A whole call of encode()                                                *)
LEMMA EncodeToOutcome ==
  ASSUME NEW o, IsStream(o), NEW l \in Seq(Entries), Kept(o, l), Whole(l) \/ o.kind = "legacy",
         NEW x \in Encodable, NEW r \in EncodeTo(o, x)
  PROVE  LET start == OpenOutput(o)
             e == [item |-> x, rx |-> r.rx, room |-> start.room,
                   size |-> Position(r.out) - Position(start)] IN
         /\ IsStream(r.out) /\ r.out.kind = o.kind
         /\ e \in Entries /\ EntryRight(o, e) /\ Kept(r.out, Append(l, e))
         /\ o.kind # "legacy" => r.out.buf = o.buf
<1> DEFINE start == OpenOutput(o)
           q == SentOf(l)
           c == Encoding(x)
           e == [item |-> x, rx |-> r.rx, room |-> start.room, size |-> Position(r.out) - Position(start)]
<1>1. IsStream(start) /\ Same(o, start) /\ Holds(start, q) /\ start.mem = o.mem
  BY OpenedOutput
<1>2. q \in Seq(Bytes)
  <2>1. CASE l = <<>>
    <3>1. SentOf(<<>>) = <<>>
      BY FlattenEmpty DEF SentOf
    <3>2. q = <<>>
      BY <2>1, <3>1
    <3> QED
      BY <3>2, EmptyIsUnit
  <2>2. CASE l # <<>>
    <3>1. l[1] \in Entries
      BY <2>2
    <3> QED
      BY <3>1, SentGrows
  <2> QED
    BY <2>1, <2>2
<1>3. c \in Seq(Bytes) /\ SizeOf[x] = Len(c) /\ Len(c) \in Nat
  <2>1. c \in Seq(Bytes) /\ SizeOf[x] = Len(c)
    BY SizeOfIsLength
  <2> HIDE DEF c
  <2> QED
    BY <2>1
<1>4. PICK p \in PerformAll(start, Emit[x]) : r = IF p.rx = "ok" THEN [p EXCEPT !.out = SyncOutput(@)] ELSE p
  BY DEF EncodeTo
<1> HIDE DEF start, q
<1>5. Outcome(start, q, c, p)
  <2>1. Emit[x] \in Seq(Calls)
    BY EmitType
  <2>2. Outcome(start, q, BytesOf(Emit[x]), p)
    BY <1>1, <1>2, <1>4, <2>1, PerformAllOutcome
  <2> QED
    BY <2>2 DEF Encoding
<1> HIDE DEF c
<1>6. p = [out |-> p.out, rx |-> p.rx] /\ IsStream(p.out) /\ Same(start, p.out) /\ Same(o, p.out)
  BY <1>1, <1>5, SameTwice DEF Outcome
<1>7. start.room \in Nat /\ start.at \in Nat /\ start.total \in Nat /\ Position(start) = Len(q)
      /\ start.at + start.room = Len(o.mem) /\ Len(q) \in Nat
  <2>1. start.room \in Nat /\ start.at \in Nat /\ start.total \in Nat /\ start.at + start.room = Len(o.mem)
    BY <1>1 DEF IsStream
  <2>2. Position(start) = Len(q)
    BY <1>1 DEF Holds, Position
  <2>3. Len(q) \in Nat
    BY <1>2
  <2> QED
    BY <2>1, <2>2, <2>3
<1>8. o.kind = "legacy" => /\ Consumed(o, q) /\ o.buf.begin \in Nat /\ o.buf.size \in Nat
                           /\ p.out.buf = o.buf /\ Len(p.out.mem) = Len(o.mem)
  BY <1>6 DEF Kept, q, Same, Fixed, IsStream
<1>11. o.kind # "legacy" => r.out.buf = o.buf
  BY <1>4, <1>6 DEF Same, SyncOutput
<1>9. CASE p.rx = "ok"
  <2> DEFINE s == SyncOutput(p.out)
             u == q \o c
  <2>1. Holds(p.out, u)
    BY <1>5, <1>9 DEF Outcome
  <2>2. r.out = s /\ r.rx = "ok"
    BY <1>4, <1>6, <1>9
  <2>3. u \in Seq(Bytes) /\ Len(u) = Len(q) + Len(c)
    BY <1>2, <1>3, ConcatIs
  <2> HIDE DEF u
  <2>4. /\ IsStream(s) /\ s.kind = o.kind
        /\ s.kind = "legacy" => Consumed(s, u)
        /\ s.kind # "legacy" => s = p.out
    <3>1. p.out.kind = o.kind
      BY <1>6 DEF Same
    <3>2. CASE o.kind = "legacy"
      <4>1. IsStream(s) /\ Consumed(s, u)
        <5> DEFINE w == p.out
        <5>1. w.kind = "legacy" /\ IsStream(w) /\ Holds(w, u)
          BY <1>6, <2>1, <3>1, <3>2
        <5>2. w.buf.begin + w.buf.size = w.buf.alloc /\ w.buf.alloc = Len(w.mem)
          BY <1>8, <3>2 DEF Consumed
        <5> HIDE DEF w
        <5>3. IsStream(SyncOutput(w)) /\ Consumed(SyncOutput(w), u)
          BY <2>3, <5>1, <5>2, SyncedOutput
        <5> QED
          BY <5>3 DEF w
      <4>2. s.kind = o.kind
        BY <1>6, <3>1, <3>2 DEF SyncOutput, IsStream
      <4> QED
        BY <3>2, <4>1, <4>2
    <3>3. CASE o.kind # "legacy"
      BY <1>6, <3>1, <3>3 DEF SyncOutput
    <3> QED
      BY <3>2, <3>3
  <2>5. Position(s) = Len(u)
    <3>1. Position(p.out) = Len(u)
      BY <2>1 DEF Holds, Position
    <3>2. Position(s) = Position(p.out)
      <4>1. s.kind = p.out.kind /\ s.at = p.out.at /\ s.room = p.out.room /\ s.total = p.out.total
        BY <1>6 DEF SyncOutput, IsStream
      <4> QED
        BY <4>1 DEF Position, TotalWritten
    <3> QED
      BY <3>1, <3>2
  <2> HIDE DEF s
  <2>6. e.item = x /\ e.rx = "ok" /\ e.room = start.room /\ e.size = Len(c)
    BY <1>3, <1>7, <2>2, <2>3, <2>5
  <2>7. e \in Entries
    BY <1>3, <1>7, <2>2, <2>6 DEF Entries
  <2>8. EntryRight(o, e)
    <3>1. Fixed(o) => Len(c) <= start.room
      <4>1. ASSUME Fixed(o)
            PROVE  p.out.at = Len(u) /\ p.out.at + p.out.room = Len(o.mem) /\ p.out.room \in Nat
        BY <1>6, <2>1, <4>1 DEF Fixed, Same, Holds, IsStream
      <4> QED
        <5>1. ASSUME Fixed(o) PROVE start.at = Len(q)
          BY <1>1, <5>1 DEF Fixed, Same, Holds
        <5> QED
          BY <1>3, <1>7, <2>3, <4>1, <5>1
    <3> HIDE DEF e
    <3> QED
      BY <1>3, <2>6, <3>1 DEF EntryRight
  <2> HIDE DEF e
  <2>9. SentOf(Append(l, e)) = u
    BY <2>6, <2>7, SentGrows DEF q, c, u
  <2>10. Whole(Append(l, e))
    BY <2>6 DEF Whole
  <2>11. Kept(s, Append(l, e))
    BY <2>1, <2>4, <2>9, <2>10 DEF Kept
  <2> QED
    BY <1>11, <2>2, <2>4, <2>7, <2>8, <2>11 DEF e, start
<1>10. CASE p.rx # "ok"
  <2>1. r = p
    BY <1>4, <1>10
  <2>2. /\ p.rx \in {"not_enough_memory", "end_of_stream"} /\ Partly(p.out, q, c)
        /\ p.rx = "end_of_stream" => Fixed(start) /\ Len(start.mem) < Len(q) + Len(c)
    BY <1>5, <1>10 DEF Outcome
  <2>3. p.out.kind = o.kind
    BY <1>6 DEF Same
  <2>4. e.item = x /\ e.rx = p.rx /\ e.room = start.room /\ e.size = Position(p.out) - Position(start)
    BY <2>1
  <2>5. Position(p.out) \in Int
    <3>1. p.out.at \in Nat /\ p.out.total \in Nat /\ p.out.room \in Nat /\ VoidSize \in Nat
      BY <1>6, StreamAssumption DEF IsStream
    <3> QED
      BY <3>1 DEF Position, TotalWritten
  <2>6. e \in Entries
    BY <1>7, <2>1, <2>2, <2>5 DEF Entries
  <2> HIDE DEF e
  <2>7. EntryRight(o, e)
    <3>1. Fixed(start) => start.at = Len(q) /\ Fixed(o)
      BY <1>1 DEF Fixed, Holds, Same
    <3>2. p.rx = "end_of_stream" => Fixed(o) /\ start.room < Len(c)
      BY <1>1, <1>3, <1>7, <2>2, <3>1
    <3> QED
      BY <1>3, <1>10, <2>4, <3>2 DEF EntryRight
  <2>8. SentOf(Append(l, e)) = q
    BY <1>10, <2>4, <2>6, SentGrows DEF q
  <2>9. CASE o.kind = "legacy"
    <3>1. \A k \in 1 .. Len(q) : p.out.mem[k] = q[k]
      <4>1. PICK a \in Seq(Bytes), b \in Seq(Bytes) : c = a \o b /\ Holds(p.out, q \o a)
        BY <2>2 DEF Partly
      <4>2. \A k \in 1 .. Len(q \o a) : p.out.mem[k] = (q \o a)[k]
        BY <2>3, <2>9, <4>1 DEF Holds
      <4>3. /\ Len(q \o a) = Len(q) + Len(a) /\ Len(a) \in Nat
            /\ \A k \in 1 .. Len(q) + Len(a) : (q \o a)[k] = IF k <= Len(q) THEN q[k] ELSE a[k - Len(q)]
        BY <1>2, ConcatIs
      <4> TAKE k \in 1 .. Len(q)
      <4>4. k \in 1 .. Len(q) + Len(a) /\ k <= Len(q)
        BY <1>7, <4>3
      <4> QED
        BY <4>2, <4>3, <4>4
    <3>2. Consumed(p.out, q)
      BY <1>8, <2>9, <3>1 DEF Consumed
    <3>3. Kept(p.out, Append(l, e))
      BY <2>3, <2>8, <2>9, <3>2 DEF Kept
    <3> QED
      BY <1>6, <1>11, <2>1, <2>3, <2>6, <2>7, <3>3 DEF e, start
  <2>10. CASE o.kind # "legacy"
    <3>1. Append(l, e)[Len(Append(l, e))] = e /\ Append(l, e) # <<>>
      OBVIOUS
    <3>2. ~Whole(Append(l, e))
      BY <1>10, <2>4, <3>1 DEF Whole
    <3>3. Kept(p.out, Append(l, e))
      BY <2>2, <2>3, <2>4, <2>8, <2>10, <3>1, <3>2 DEF Kept, c
    <3> QED
      BY <1>6, <1>11, <2>1, <2>3, <2>6, <2>7, <3>3 DEF e, start
  <2> QED
    BY <2>9, <2>10
<1> QED
  BY <1>9, <1>10

-----------------------------------------------------------------------------
(* The sessions                                                            *)

(* The output is a stream that holds what the log says it does, and every  *)
(* entry of the log has the size of its item.                              *)
IInv ==
  /\ phase = "encode" => setup \in Setups
  /\ IsStream(out)
  /\ log \in Seq(Entries)
  /\ \A k \in 1 .. Len(log) : EntryRight(out, log[k])
  /\ Kept(out, log)

LEMMA InitIInv == Init => IInv
<1> SUFFICES ASSUME Init PROVE IInv
  OBVIOUS
<1>1. log = <<>> /\ <<>> \in Seq(Entries) /\ Len(<<>>) = 0
  BY DEF Init
<1>2. \E kind \in {"memory", "dynamic", "void", "legacy"}, n \in Nat : out = Output(kind, n)
  <2>1. CASE phase = "encode" /\ setup \in Setups /\ out = Output(setup.out, setup.n)
    <3>1. setup.out \in {"memory", "dynamic", "void", "legacy"} /\ setup.n \in Nat
      BY <2>1, SessionAssumption
    <3> QED
      BY <2>1, <3>1
  <2>2. CASE out = Output("memory", 0)
    BY <2>2
  <2> QED
    BY <2>1, <2>2 DEF Init
<1>3. IsStream(out) /\ Kept(out, <<>>)
  BY <1>2, EmptyOutput
<1>4. phase = "encode" => setup \in Setups
  BY DEF Init
<1>5. \A k \in 1 .. Len(log) : EntryRight(out, log[k])
  BY <1>1
<1> QED
  BY <1>1, <1>3, <1>4, <1>5 DEF IInv

LEMMA EncodeValueIInv == IInv /\ EncodeValue => IInv'
<1> SUFFICES ASSUME IInv, EncodeValue PROVE IInv'
  OBVIOUS
<1>1. phase = "encode" /\ setup \in Setups /\ phase' = phase /\ setup' = setup
  BY DEF IInv, EncodeValue
<1>2. /\ IsStream(out) /\ log \in Seq(Entries) /\ Kept(out, log)
      /\ \A k \in 1 .. Len(log) : EntryRight(out, log[k])
  BY DEF IInv
<1>3. Whole(log) \/ out.kind = "legacy"
  BY DEF EncodeValue, Whole, Last
<1> DEFINE start == OpenOutput(out)
           entry(x, r) == [item |-> x, rx |-> r.rx, room |-> start.room,
                           size |-> Position(r.out) - Position(start)]
<1>4. PICK x \in Values[setup.values] : \E r \in EncodeTo(out, x) :
        out' = r.out /\ log' = Append(log, entry(x, r))
  BY DEF EncodeValue
<1>5. PICK r \in EncodeTo(out, x) : out' = r.out /\ log' = Append(log, entry(x, r))
  BY <1>4
<1>6. x \in Encodable
  <2>1. setup.values \in DOMAIN Values /\ \A name \in DOMAIN Values : Values[name] \subseteq Encodable
    BY <1>1, SessionAssumption
  <2> QED
    BY <1>4, <2>1
<1> DEFINE e == entry(x, r)
<1>7. /\ IsStream(r.out) /\ r.out.kind = out.kind
      /\ e \in Entries /\ EntryRight(out, e) /\ Kept(r.out, Append(log, e))
  BY <1>2, <1>3, <1>5, <1>6, EncodeToOutcome
<1>8. out' = r.out /\ log' = Append(log, e)
  BY <1>5
<1> HIDE DEF e
<1>9. \A d : EntryRight(out, d) => EntryRight(r.out, d)
  BY <1>7 DEF EntryRight, Fixed
<1>10. \A k \in 1 .. Len(log') : EntryRight(out', log'[k])
  <2>1. /\ Len(Append(log, e)) = Len(log) + 1 /\ Append(log, e)[Len(log) + 1] = e /\ Len(log) \in Nat
        /\ \A k \in 1 .. Len(log) : Append(log, e)[k] = log[k]
    BY <1>2
  <2> TAKE k \in 1 .. Len(log')
  <2>2. CASE k = Len(log) + 1
    BY <1>7, <1>8, <1>9, <2>1, <2>2
  <2>3. CASE k # Len(log) + 1
    <3>1. k \in 1 .. Len(log)
      BY <1>8, <2>1, <2>3
    <3> QED
      BY <1>2, <1>8, <1>9, <2>1, <3>1
  <2> QED
    BY <2>2, <2>3
<1>11. log' \in Seq(Entries)
  BY <1>2, <1>7, <1>8
<1> QED
  BY <1>1, <1>7, <1>8, <1>10, <1>11 DEF IInv

LEMMA NextIInv == IInv /\ [Next]_vars => IInv'
<1> SUFFICES ASSUME IInv, [Next]_vars PROVE IInv'
  OBVIOUS
<1>1. CASE EncodeValue
  BY <1>1, EncodeValueIInv
<1>2. CASE UNCHANGED <<setup, out, log>> /\ (phase' = phase \/ phase' = "decode")
  BY <1>2 DEF IInv
<1>3. CASE Open
  BY <1>2, <1>3 DEF Open
<1>4. CASE DecodeValue
  BY <1>2, <1>4 DEF DecodeValue
<1>5. CASE Rewind
  BY <1>2, <1>5 DEF Rewind
<1>6. CASE UNCHANGED vars
  BY <1>2, <1>6 DEF vars
<1> QED
  BY <1>1, <1>3, <1>4, <1>5, <1>6 DEF Next

(* The output holds what the log says, in every session.                   *)
THEOREM SessionInvariant == Spec => []IInv
<1> QED
  BY InitIInv, NextIInv, PTL DEF Spec

LEMMA EntriesOf ==
  ASSUME log \in Seq(Entries)
  PROVE  /\ DOMAIN log = 1 .. Len(log)
         /\ \A k \in 1 .. Len(log) : log[k] \in Entries /\ log[k].item \in Encodable
<1>1. DOMAIN log = 1 .. Len(log) /\ \A k \in 1 .. Len(log) : log[k] \in Entries
  OBVIOUS
<1>2. \A d \in Entries : d.item \in Encodable
  BY DEF Entries
<1> QED
  BY <1>1, <1>2

(* encoded_size_of() is what encode() puts, byte for byte: through every   *)
(* nesting, by the bit scan and by its branching twin.                     *)
THEOREM SizesExact == Spec => []SizeExact
<1>1. IInv => SizeExact
  <2> SUFFICES ASSUME IInv, NEW k \in DOMAIN log, log[k].rx = "ok"
               PROVE  /\ log[k].size = SizeOf[log[k].item]
                      /\ log[k].item.type.kind \in IntegerKinds =>
                           log[k].size = EncodedSizeBranching(Complement(log[k].item.value))
    BY DEF SizeExact
  <2>1. EntryRight(out, log[k]) /\ log[k].item \in Encodable
    BY EntriesOf DEF IInv
  <2>2. log[k].size = SizeOf[log[k].item]
    BY <2>1 DEF EntryRight
  <2> QED
    BY <2>1, <2>2, SizeOfIsLength
<1> QED
  BY <1>1, SessionInvariant, PTL

(* A buffer of encoded_size_of() bytes is enough, in spite of the whole    *)
(* words stored in it, and no smaller one is; the streams that grow or     *)
(* discard fail for want of memory only.                                   *)
THEOREM RoomIsEnough == Spec => []RoomSuffices
<1>1. IInv => RoomSuffices
  <2> SUFFICES ASSUME IInv, NEW k \in DOMAIN log, log[k].rx # "not_enough_memory"
               PROVE  log[k].rx = (IF out.kind \in {"memory", "legacy"} /\ log[k].room < SizeOf[log[k].item]
                                   THEN "end_of_stream" ELSE "ok")
    BY DEF RoomSuffices
  <2>1. EntryRight(out, log[k]) /\ log[k] \in Entries /\ log[k].item \in Encodable
    BY EntriesOf DEF IInv
  <2>2. log[k].rx = "ok" \/ log[k].rx = "end_of_stream"
    BY <2>1 DEF Entries
  <2>3. log[k].room \in Nat /\ SizeOf[log[k].item] \in Nat
    BY <2>1, SizeOfType DEF Entries
  <2> QED
    BY <2>1, <2>2, <2>3 DEF EntryRight, Fixed
<1> QED
  BY <1>1, SessionInvariant, PTL

-----------------------------------------------------------------------------
LEMMA FirstPart ==
  ASSUME NEW mem \in Seq(Stored), NEW q \in Seq(Bytes), Len(q) <= Len(mem),
         \A k \in 1 .. Len(q) : mem[k] = q[k]
  PROVE  SubSeq(mem, 1, Len(q)) = q
<1> DEFINE n == Len(q)
           s == SubSeq(mem, 1, n)
<1>1. n \in Nat /\ Len(mem) \in Nat
  OBVIOUS
<1>2. s \in Seq(Stored) /\ Len(s) = n /\ \A k \in 1 .. n : s[k] = mem[k]
  BY <1>1
<1>3. q \in Seq(Stored)
  BY DEF Stored
<1> HIDE DEF s
<1>4. s = q
  BY <1>2, <1>3, SeqEqual
<1> QED
  BY <1>4 DEF s

LEMMA PrefixOfConcat ==
  ASSUME NEW a \in Seq(Bytes), NEW b \in Seq(Bytes)
  PROVE  IsPrefix(a, a \o b) /\ Len(a) <= Len(a \o b)
<1>1. /\ a \o b \in Seq(Bytes) /\ Len(a \o b) = Len(a) + Len(b) /\ Len(a) \in Nat /\ Len(b) \in Nat
      /\ \A k \in 1 .. Len(a) + Len(b) : (a \o b)[k] = IF k <= Len(a) THEN a[k] ELSE b[k - Len(a)]
  BY ConcatIs
<1>2. \A k \in 1 .. Len(a) : (a \o b)[k] = a[k]
  BY <1>1
<1> DEFINE c == a \o b
<1> HIDE DEF c
<1>3. c \in Seq(Stored) /\ a \in Seq(Stored) /\ Len(a) <= Len(c) /\ \A k \in 1 .. Len(a) : c[k] = a[k]
  BY <1>1, <1>2 DEF c, Stored
<1>4. SubSeq(c, 1, Len(a)) = a /\ SubSeq(a, 1, Len(a)) = a
  <2>1. SubSeq(c, 1, Len(a)) = a
    BY <1>3, FirstPart
  <2>2. SubSeq(a, 1, Len(a)) = a
    BY <1>1, <1>3, FirstPart
  <2> QED
    BY <2>1, <2>2
<1> QED
  BY <1>1, <1>3, <1>4 DEF IsPrefix, c

LEMMA WhatIsWritten ==
  ASSUME NEW o, IsStream(o), NEW q \in Seq(Bytes)
  PROVE  /\ o.kind = "legacy" /\ Consumed(o, q) => Written(o) = q
         /\ o.kind \in {"memory", "dynamic"} /\ Holds(o, q) => Written(o) = q
<1>1. /\ o.mem \in Seq(Stored) /\ o.at \in Nat /\ o.room \in Nat /\ o.at + o.room = Len(o.mem)
      /\ o.buf.begin \in Nat /\ o.buf.size \in Nat /\ Len(q) \in Nat
  BY DEF IsStream
<1>2. ASSUME o.kind = "legacy", Consumed(o, q) PROVE Written(o) = q
  <2>1. Len(q) <= Len(o.mem) /\ o.buf.alloc - o.buf.size = Len(q) /\ \A k \in 1 .. Len(q) : o.mem[k] = q[k]
    BY <1>1, <1>2 DEF Consumed
  <2>2. Written(o) = SubSeq(o.mem, 1, Len(q))
    BY <1>2, <2>1 DEF Written, ConsumedSize
  <2> QED
    BY <1>1, <2>1, <2>2, FirstPart
<1>3. ASSUME o.kind \in {"memory", "dynamic"}, Holds(o, q) PROVE Written(o) = q
  <2>1. o.at = Len(q) /\ \A k \in 1 .. Len(q) : o.mem[k] = q[k]
    BY <1>3 DEF Holds
  <2>2. Len(q) <= Len(o.mem) /\ Len(o.mem) - o.room = Len(q)
    BY <1>1, <2>1
  <2>3. Written(o) = SubSeq(o.mem, 1, Len(q))
    BY <1>3, <2>2 DEF Written
  <2> QED
    BY <1>1, <2>1, <2>2, <2>3, FirstPart
<1> QED
  BY <1>2, <1>3

LEMMA SentIs ==
  ASSUME log \in Seq(Entries)
  PROVE  Sent = SentOf(log) /\ SentOf(log) \in Seq(Bytes)
<1>1. Sent = SentOf(log)
  BY DEF Sent, SentOf
<1>2. CASE log = <<>>
  <2>1. SentOf(<<>>) = <<>>
    BY FlattenEmpty DEF SentOf
  <2> QED
    BY <1>1, <1>2, <2>1, EmptyIsUnit
<1>3. CASE log # <<>>
  <2>1. log[1] \in Entries
    BY <1>3
  <2> QED
    BY <1>1, <2>1, SentGrows
<1> QED
  BY <1>2, <1>3

(* A legacy buffer has consumed what the successful calls have encoded,    *)
(* and nothing of a value that failed half way.                            *)
THEOREM LegacyBufferAtomic == Spec => []LegacyAtomic
<1>1. IInv => LegacyAtomic
  <2> SUFFICES ASSUME IInv, out.kind = "legacy" PROVE Written(out) = Sent
    BY DEF LegacyAtomic
  <2>1. IsStream(out) /\ log \in Seq(Entries) /\ Consumed(out, SentOf(log))
    BY DEF IInv, Kept
  <2> QED
    BY <2>1, SentIs, WhatIsWritten
<1> QED
  BY <1>1, SessionInvariant, PTL

(* The output holds the encodings of all values in order, across every     *)
(* growth, and behind them at most a part of the one that failed.          *)
THEOREM OutputFaithful == Spec => []WrittenFaithful
<1>1. IInv => WrittenFaithful
  <2> SUFFICES ASSUME IInv PROVE WrittenFaithful
    OBVIOUS
  <2> DEFINE q == SentOf(log)
             failed == IF log = <<>> \/ Last(log).rx = "ok" THEN <<>> ELSE Encoding(Last(log).item)
  <2>1. IsStream(out) /\ log \in Seq(Entries) /\ Kept(out, log)
    BY DEF IInv
  <2>2. Sent = q /\ q \in Seq(Bytes)
    BY <2>1, SentIs
  <2>3. out.kind \in {"memory", "dynamic", "void", "legacy"}
    BY <2>1 DEF IsStream
  <2>4. ASSUME out.kind # "legacy"
        PROVE  \E a \in Seq(Bytes), b \in Seq(Bytes) : failed = a \o b /\ Holds(out, q \o a)
    <3>1. CASE Whole(log)
      <4>1. Holds(out, q) /\ failed = <<>>
        BY <2>1, <2>4, <3>1 DEF Kept, Whole, Last
      <4>2. <<>> \in Seq(Bytes) /\ <<>> = <<>> \o <<>> /\ q \o <<>> = q
        BY <2>2, EmptyIsUnit
      <4> HIDE DEF q, failed
      <4> QED
        BY <4>1, <4>2
    <3>2. CASE ~Whole(log)
      <4>1. Partly(out, q, Encoding(log[Len(log)].item)) /\ failed = Encoding(log[Len(log)].item)
        BY <2>1, <2>4, <3>2 DEF Kept, Whole, Last
      <4> HIDE DEF q, failed
      <4> QED
        BY <4>1 DEF Partly
    <3> QED
      BY <3>1, <3>2
  <2> HIDE DEF q
  <2>5. CASE out.kind = "legacy"
    BY <2>5 DEF WrittenFaithful
  <2>6. CASE out.kind # "legacy"
    <3>1. PICK a \in Seq(Bytes), b \in Seq(Bytes) : failed = a \o b /\ Holds(out, q \o a)
      BY <2>4, <2>6
    <3>2. q \o a \in Seq(Bytes) /\ q \o (a \o b) = (q \o a) \o b
      <4>1. q \o a \in Seq(Bytes)
        BY <2>2, ConcatIs
      <4>2. (q \o a) \o b = q \o (a \o b)
        BY <2>2, ConcatAssociative
      <4> QED
        BY <4>1, <4>2
    <3>3. q \o failed = (q \o a) \o b
      <4> HIDE DEF failed
      <4> QED
        BY <3>1, <3>2
    <3>4. /\ IsPrefix(q, q \o a) /\ IsPrefix(q \o a, q \o failed)
          /\ Len(q) <= Len(q \o a) /\ Len(q \o a) <= Len(q \o failed)
      <4> HIDE DEF failed
      <4>1. IsPrefix(q \o a, (q \o a) \o b) /\ Len(q \o a) <= Len((q \o a) \o b)
        BY <3>2, PrefixOfConcat
      <4>2. IsPrefix(q, q \o a) /\ Len(q) <= Len(q \o a)
        BY <2>2, PrefixOfConcat
      <4> QED
        BY <3>3, <4>1, <4>2
    <3>5. CASE out.kind = "void"
      <4>1. TotalWritten(out) = Len(q \o a) /\ Len(q \o a) \in Nat
        BY <3>1, <3>2, <3>5 DEF Holds
      <4>2. (q \o a) \o b \in Seq(Bytes)
        BY <3>2, ConcatIs
      <4>3. Len(q \o failed) \in Nat /\ Len(q) \in Nat
        <5> HIDE DEF failed
        <5> QED
          BY <2>2, <3>3, <4>2
      <4>4. TotalWritten(out) \in Len(q) .. Len(q \o failed)
        <5> HIDE DEF failed
        <5> QED
          BY <3>4, <4>1, <4>3
      <4>5. TotalWritten(out) \in Len(Sent) .. Len(Sent \o failed)
        BY <2>2, <4>4
      <4> QED
        BY <3>5, <4>5 DEF WrittenFaithful
    <3>6. CASE out.kind \in {"memory", "dynamic"}
      <4>1. Written(out) = q \o a
        BY <2>1, <3>1, <3>2, <3>6, WhatIsWritten
      <4>2. IsPrefix(Sent, Written(out)) /\ IsPrefix(Written(out), Sent \o failed)
        <5> HIDE DEF failed
        <5> QED
          BY <2>2, <3>4, <4>1
      <4>3. out.kind # "void"
        BY <3>6
      <4> QED
        BY <3>6, <4>2, <4>3, Zenon DEF WrittenFaithful
    <3> QED
      BY <2>3, <2>6, <3>5, <3>6
  <2> QED
    BY <2>5, <2>6
<1> QED
  BY <1>1, SessionInvariant, PTL

-----------------------------------------------------------------------------
(* Inputs, and the heads that come out of them                             *)

Bufs == [begin : Nat, size : Nat, alloc : Nat]

IsResult(r) == r = Result(r.in, r.rx, r.value, r.n)

(* The same input, as far or farther                                       *)
Onward(src, p) ==
  /\ p \in Inputs /\ p.kind = src.kind /\ p.bytes = src.bytes /\ p.buf = src.buf
  /\ src.at <= p.at
  /\ p.asked = src.asked \/ p.asked < Len(src.bytes)

LEMMA InputIs ==
  ASSUME NEW src \in Inputs
  PROVE  /\ src.kind \in {"memory", "stream", "legacy"} /\ src.bytes \in Seq(Bytes)
         /\ src.at \in Nat /\ src.window \in Nat /\ src.asked \in Nat /\ src.buf \in Bufs
         /\ src.at + src.window <= Len(src.bytes) /\ Len(src.bytes) \in Nat
         /\ src.kind # "stream" => src.at + src.window = Len(src.bytes)
         /\ src.buf.begin + src.buf.size = src.buf.alloc
         /\ src.kind = "legacy" => src.buf.alloc = Len(src.bytes)
         /\ InputSize(src) = Len(src.bytes) - src.at /\ InputSize(src) \in Nat
         /\ src.window <= InputSize(src)
         /\ src.kind # "stream" => src.window = InputSize(src)
BY DEF Inputs, Bufs, InputSize

(* An input that has been read from                                        *)
MovedTo(src, at, window) == [src EXCEPT !.at = at, !.window = window]

LEMMA Moved ==
  ASSUME NEW src \in Inputs, NEW at \in Nat, NEW window \in Nat, at + window <= Len(src.bytes),
         src.kind # "stream" => at + window = Len(src.bytes)
  PROVE  LET p == MovedTo(src, at, window) IN
         /\ p \in Inputs /\ p.kind = src.kind /\ p.bytes = src.bytes /\ p.buf = src.buf
         /\ p.at = at /\ p.window = window /\ p.asked = src.asked
BY DEF Inputs, MovedTo

LEMMA WindowOnly ==
  ASSUME NEW src \in Inputs, NEW window
  PROVE  [src EXCEPT !.window = window] = MovedTo(src, src.at, window)
BY DEF Inputs, MovedTo

LEMMA OnwardItself ==
  ASSUME NEW src \in Inputs
  PROVE  Onward(src, src)
BY InputIs DEF Onward

LEMMA OnwardTwice ==
  ASSUME NEW a \in Inputs, NEW b, NEW c, Onward(a, b), Onward(b, c)
  PROVE  Onward(a, c)
<1>1. b \in Inputs /\ c \in Inputs
  BY DEF Onward
<1>2. a.at \in Nat /\ b.at \in Nat /\ c.at \in Nat
  BY <1>1, InputIs
<1> QED
  BY <1>1, <1>2 DEF Onward

LEMMA OkIs ==
  ASSUME NEW src, NEW v, NEW r
  PROVE  r \in Ok(src, v) <=> r = Result(src, "ok", v, 0)
BY DEF Ok

LEMMA FailIs ==
  ASSUME NEW src, NEW rx, NEW v, NEW r
  PROVE  r \in Fail(src, rx, v) <=> r = Result(src, rx, v, 0)
BY DEF Fail

LEMMA ResultFields ==
  ASSUME NEW src, NEW rx, NEW v, NEW n
  PROVE  LET r == Result(src, rx, v, n) IN
         IsResult(r) /\ r.in = src /\ r.rx = rx /\ r.value = v /\ r.n = n
BY DEF Result, IsResult

(* A result with another value or count                                    *)
LEMMA ResultExcept ==
  ASSUME NEW r, IsResult(r), NEW v
  PROVE  /\ [r EXCEPT !.value = v] = Result(r.in, r.rx, v, r.n)
         /\ [r EXCEPT !.n = v] = Result(r.in, r.rx, r.value, v)
         /\ [r EXCEPT !.in = v] = Result(v, r.rx, r.value, r.n)
<1> DEFINE a == r.in  b == r.rx  c == r.value  d == r.n
           s == [in |-> a, rx |-> b, value |-> c, n |-> d]
<1>1. r = s
  BY DEF IsResult, Result
<1> HIDE DEF a, b, c, d
<1>2. /\ [s EXCEPT !.value = v] = Result(a, b, v, d)
      /\ [s EXCEPT !.n = v] = Result(a, b, c, v)
      /\ [s EXCEPT !.in = v] = Result(v, b, c, d)
  BY DEF Result
<1> HIDE DEF s
<1> QED
  BY <1>1, <1>2, Zenon DEF a, b, c, d

LEMMA DiscardIs ==
  ASSUME NEW src \in Inputs, NEW n \in Nat, n <= src.window
  PROVE  /\ Onward(src, DiscardBuffered(src, n))
         /\ DiscardBuffered(src, n).at = src.at + n
         /\ DiscardBuffered(src, n).asked = src.asked
<1> DEFINE at == src.at + n  window == src.window - n
           p == MovedTo(src, at, window)
<1>1. /\ at \in Nat /\ window \in Nat /\ at + window <= Len(src.bytes)
      /\ src.kind # "stream" => at + window = Len(src.bytes)
  BY InputIs
<1>2. DiscardBuffered(src, n) = p
  BY Zenon DEF DiscardBuffered, MovedTo
<1> HIDE DEF at, window
<1>3. /\ p \in Inputs /\ p.kind = src.kind /\ p.bytes = src.bytes /\ p.buf = src.buf
      /\ p.at = at /\ p.asked = src.asked
  BY <1>1, Moved
<1>4. src.at <= at
  BY InputIs DEF at
<1> HIDE DEF p
<1> QED
  BY <1>2, <1>3, <1>4 DEF Onward, at

(* require_input shows n bytes, unless there are not so many or the        *)
(* supplier fails.                                                         *)
LEMMA RequireOutcome ==
  ASSUME NEW src \in Inputs, NEW n \in Nat, NEW r \in RequireInput(src, n)
  PROVE  /\ IsResult(r) /\ Onward(src, r.in) /\ r.in.at = src.at
         /\ \/ r.rx = "ok" /\ n <= r.in.window
            \/ r.rx = "end_of_stream" /\ n > InputSize(src)
            \/ r.rx = "bad" /\ src.kind = "stream"
<1>1. /\ src.at \in Nat /\ src.window \in Nat /\ InputSize(src) \in Nat
      /\ InputSize(src) = Len(src.bytes) - src.at /\ Len(src.bytes) \in Nat
      /\ src.kind # "stream" => src.window = InputSize(src)
  BY InputIs
<1>2. Onward(src, src)
  BY OnwardItself
<1>3. CASE n > InputSize(src)
  <2>1. r = Result(src, "end_of_stream", <<>>, 0)
    BY <1>3, FailIs DEF RequireInput
  <2> QED
    BY <1>2, <1>3, <2>1, ResultFields
<1>4. CASE n <= src.window /\ ~(n > InputSize(src))
  <2>1. r = Result(src, "ok", <<>>, 0)
    BY <1>4, OkIs DEF RequireInput
  <2> QED
    BY <1>2, <1>4, <2>1, ResultFields
<1>5. CASE ~(n <= src.window) /\ ~(n > InputSize(src))
  <2>1. src.kind = "stream"
    BY <1>1, <1>5
  <2>2. \/ r = Result(src, "bad", <<>>, 0)
        \/ \E w \in n .. InputSize(src) : r = Result(MovedTo(src, src.at, w), "ok", <<>>, 0)
    <3>1. r \in Fail(src, "bad", <<>>)
                  \union UNION {Ok([src EXCEPT !.window = w], <<>>) : w \in n .. InputSize(src)}
      BY <1>5, Zenon DEF RequireInput
    <3>2. \/ r \in Fail(src, "bad", <<>>)
          \/ \E w \in n .. InputSize(src) : r \in Ok(MovedTo(src, src.at, w), <<>>)
      <4>1. \A w : [src EXCEPT !.window = w] = MovedTo(src, src.at, w)
        BY WindowOnly
      <4> DEFINE moved(w) == [src EXCEPT !.window = w]
      <4>2. r \in Fail(src, "bad", <<>>) \union UNION {Ok(moved(w), <<>>) : w \in n .. InputSize(src)}
        BY <3>1
      <4>3. \A w : moved(w) = MovedTo(src, src.at, w)
        BY <4>1
      <4> HIDE DEF moved
      <4> QED
        BY <4>2, <4>3, Zenon
    <3> QED
      BY <3>2, OkIs, FailIs
  <2>3. CASE r = Result(src, "bad", <<>>, 0)
    BY <1>2, <2>1, <2>3, ResultFields
  <2>4. ASSUME NEW w \in n .. InputSize(src), r = Result(MovedTo(src, src.at, w), "ok", <<>>, 0)
        PROVE  /\ IsResult(r) /\ Onward(src, r.in) /\ r.in.at = src.at
               /\ r.rx = "ok" /\ n <= r.in.window
    <3> DEFINE p == MovedTo(src, src.at, w)
    <3>1. w \in Nat /\ src.at + w <= Len(src.bytes) /\ n <= w
      BY <1>1, <2>4
    <3>2. /\ p \in Inputs /\ p.kind = src.kind /\ p.bytes = src.bytes /\ p.buf = src.buf
          /\ p.at = src.at /\ p.window = w /\ p.asked = src.asked
      BY <1>1, <2>1, <3>1, Moved
    <3>3. IsResult(r) /\ r.in = p /\ r.rx = "ok"
      BY <2>4, ResultFields
    <3> HIDE DEF p
    <3>4. Onward(src, p)
      BY <1>1, <3>2 DEF Onward
    <3> QED
      BY <3>1, <3>2, <3>3, <3>4
  <2> QED
    BY <2>2, <2>3, <2>4
<1> QED
  BY <1>3, <1>4, <1>5

(* bulk_read yields the next n bytes, unless there are not so many or the  *)
(* supplier fails on the way.                                              *)
LEMMA BulkReadOutcome ==
  ASSUME NEW src \in Inputs, NEW n \in Nat, NEW r \in BulkRead(src, n)
  PROVE  /\ IsResult(r) /\ Onward(src, r.in)
         /\ \/ /\ r.rx = "ok" /\ r.in.at = src.at + n /\ n <= InputSize(src)
               /\ r.value = SubSeq(src.bytes, src.at + 1, src.at + n)
            \/ r.rx = "end_of_stream" /\ n > InputSize(src)
            \/ r.rx = "bad" /\ src.kind = "stream"
<1>1. /\ src.at \in Nat /\ src.window \in Nat /\ InputSize(src) \in Nat /\ src.bytes \in Seq(Bytes)
      /\ InputSize(src) = Len(src.bytes) - src.at /\ Len(src.bytes) \in Nat
      /\ src.window <= InputSize(src)
      /\ src.kind # "stream" => src.window = InputSize(src)
  BY InputIs
<1>2. Onward(src, src)
  BY OnwardItself
<1>3. CASE n = 0
  <2>1. r = Result(src, "ok", <<>>, 0)
    BY <1>3, OkIs DEF BulkRead
  <2>2. SubSeq(src.bytes, src.at + 1, src.at + 0) = <<>>
    BY <1>1
  <2>3. src.at + n = src.at + 0 /\ src.at + n = src.at /\ n <= InputSize(src)
    BY <1>1, <1>3
  <2>4. IsResult(r) /\ r.in = src /\ r.rx = "ok" /\ r.value = <<>>
    BY <2>1, ResultFields
  <2> QED
    BY <1>2, <2>2, <2>3, <2>4
<1>4. CASE n # 0 /\ n > InputSize(src)
  <2>1. r = Result(src, "end_of_stream", <<>>, 0)
    BY <1>4, FailIs DEF BulkRead
  <2> QED
    BY <1>2, <1>4, <2>1, ResultFields
<1>5. CASE n # 0 /\ ~(n > InputSize(src)) /\ n <= src.window
  <2>1. r = Result(DiscardBuffered(src, n), "ok", Buffered(src, n), 0)
    BY <1>5, OkIs DEF BulkRead
  <2>2. Onward(src, DiscardBuffered(src, n)) /\ DiscardBuffered(src, n).at = src.at + n
    BY <1>5, DiscardIs
  <2>3. IsResult(r) /\ r.in = DiscardBuffered(src, n) /\ r.rx = "ok" /\ r.value = Buffered(src, n)
    BY <2>1, ResultFields
  <2> QED
    BY <1>1, <1>5, <2>2, <2>3 DEF Buffered
<1>6. CASE n # 0 /\ ~(n > InputSize(src)) /\ ~(n <= src.window)
  <2>1. src.kind = "stream" /\ n <= InputSize(src)
    BY <1>1, <1>6
  <2>2. \/ \E w \in 0 .. InputSize(src) - n :
             r = Result(MovedTo(src, src.at + n, w), "ok", Buffered(src, n), 0)
        \/ \E m \in src.window .. n - 1 :
             r = Result(MovedTo(src, src.at + m, 0), "bad", Buffered(src, m), 0)
    <3>1. r \in DoBulkRead(src, n)
      BY <1>6 DEF BulkRead
    <3> DEFINE left == InputSize(src) - n
               A == {Ok([src EXCEPT !.at = src.at + n, !.window = w], Buffered(src, n)) : w \in 0 .. left}
               B == {Fail([src EXCEPT !.at = src.at + m, !.window = 0], "bad", Buffered(src, m))
                       : m \in src.window .. n - 1}
    <3>2. r \in (UNION A) \union (UNION B)
      BY <3>1 DEF DoBulkRead
    <3>3. \/ \E w \in 0 .. left : r \in Ok(MovedTo(src, src.at + n, w), Buffered(src, n))
          \/ \E m \in src.window .. n - 1 : r \in Fail(MovedTo(src, src.at + m, 0), "bad", Buffered(src, m))
      BY <3>2, Zenon DEF MovedTo
    <3> HIDE DEF A, B
    <3> QED
      BY <3>3, OkIs, FailIs
  <2>3. ASSUME NEW m \in 0 .. InputSize(src), NEW w \in 0 .. InputSize(src) - m
        PROVE  LET p == MovedTo(src, src.at + m, w) IN
               Onward(src, p) /\ p.at = src.at + m
    <3> DEFINE at == src.at + m
               p == MovedTo(src, at, w)
    <3>1. at \in Nat /\ w \in Nat /\ at + w <= Len(src.bytes) /\ src.at <= at
      <4>1. \A a, l, z \in Nat : z = l - a =>
              \A i \in 0 .. z : \A j \in 0 .. z - i :
                a + i \in Nat /\ j \in Nat /\ (a + i) + j <= l /\ a <= a + i
        OBVIOUS
      <4>2. /\ src.at \in Nat /\ Len(src.bytes) \in Nat /\ InputSize(src) \in Nat
            /\ InputSize(src) = Len(src.bytes) - src.at
        BY InputIs
      <4> QED
        BY Zenon, <4>1, <4>2
    <3> HIDE DEF at
    <3>2. /\ p \in Inputs /\ p.kind = src.kind /\ p.bytes = src.bytes /\ p.buf = src.buf
          /\ p.at = at /\ p.window = w /\ p.asked = src.asked
      BY <1>1, <2>1, <3>1, Moved
    <3> HIDE DEF p
    <3>3. Onward(src, p) /\ p.at = at
      BY <3>1, <3>2 DEF Onward
    <3> QED
      BY <3>3 DEF at, p
  <2>4. ASSUME NEW w \in 0 .. InputSize(src) - n,
               r = Result(MovedTo(src, src.at + n, w), "ok", Buffered(src, n), 0)
        PROVE  /\ IsResult(r) /\ Onward(src, r.in) /\ r.rx = "ok" /\ r.in.at = src.at + n
               /\ r.value = SubSeq(src.bytes, src.at + 1, src.at + n)
    <3>1. n \in 0 .. InputSize(src)
      BY <1>1, <2>1
    <3>2. Onward(src, MovedTo(src, src.at + n, w)) /\ MovedTo(src, src.at + n, w).at = src.at + n
      BY <2>3, <3>1
    <3>3. IsResult(r) /\ r.in = MovedTo(src, src.at + n, w) /\ r.rx = "ok" /\ r.value = Buffered(src, n)
      BY <2>4, ResultFields
    <3> QED
      BY <3>2, <3>3 DEF Buffered
  <2>5. ASSUME NEW m \in src.window .. n - 1,
               r = Result(MovedTo(src, src.at + m, 0), "bad", Buffered(src, m), 0)
        PROVE  IsResult(r) /\ Onward(src, r.in) /\ r.rx = "bad"
    <3>1. m \in 0 .. InputSize(src) /\ 0 \in 0 .. InputSize(src) - m
      BY <1>1, <2>1
    <3>2. Onward(src, MovedTo(src, src.at + m, 0))
      BY <2>3, <3>1
    <3> QED
      BY <2>5, <3>2, ResultFields
  <2> QED
    BY <2>1, <2>2, <2>4, <2>5
<1> QED
  BY <1>3, <1>4, <1>5, <1>6

-----------------------------------------------------------------------------
(* Heads                                                                   *)

LEMMA LoadType == \A s \in Seq(Bytes) : Load(s) \in Nat
<1> TAKE s \in Seq(Bytes)
<1>1. CASE s = Store(Huge, 8)
  BY <1>1, HugeIs DEF Load
<1>2. CASE s # Store(Huge, 8)
  <2>1. s \in Seq(Nat)
    <3>1. \A byte \in Bytes : byte \in Nat
      BY DEF Bytes
    <3>2. s \in [1 .. Len(s) -> Nat] /\ Len(s) \in Nat
      BY <3>1
    <3> QED
      BY <3>2
  <2>2. PICK f : IsNumber(f, s) /\ Load(s) = f[Len(s)]
    BY <1>2, <2>1, LoadIs
  <2> QED
    BY <2>2 DEF IsNumber
<1> QED
  BY <1>1, <1>2

LEMMA FirstByteSays ==
  ASSUME NEW byte \in Bytes
  PROVE  /\ LengthOf(byte) \in 1 .. 9 /\ InfoOf(byte) \in 0 .. 31 /\ TypeOf(byte) \in TypeNames
         /\ InfoOf(byte) \notin 24 .. 27 => LengthOf(byte) = 1
<1>1. InfoOf(byte) \in 0 .. 31
  BY DEF InfoOf, Bytes
<1>2. LengthOf(byte) \in 1 .. 9
  <2>1. CASE InfoOf(byte) \in 24 .. 27
    <3>1. 2^(InfoOf(byte) - 24) \in {1, 2, 4, 8}
      BY <2>1, ShiftIs
    <3>2. LengthOf(byte) = 1 + 2^(InfoOf(byte) - 24)
      BY <2>1 DEF LengthOf
    <3> QED
      BY <3>1, <3>2
  <2>2. CASE InfoOf(byte) \notin 24 .. 27
    BY <2>2 DEF LengthOf
  <2> QED
    BY <2>1, <2>2
<1>3. InfoOf(byte) \notin 24 .. 27 => LengthOf(byte) = 1
  BY DEF LengthOf
<1>4. TypeOf(byte) \in TypeNames
  <2>1. byte \div 32 + 1 \in 1 .. 8
    BY DEF Bytes
  <2>2. \A n \in 1 .. 8 : MajorTypes[n] \in TypeNames
    BY DEF MajorTypes, TypeNames
  <2> QED
    BY <2>1, <2>2 DEF TypeOf
<1> QED
  BY <1>1, <1>2, <1>3, <1>4

(* The head at a position, and its value                                   *)
HeadAt(bytes, at) == SubSeq(bytes, at + 1, at + LengthOf(bytes[at + 1]))

ValueAt(bytes, at) == SlowValue(HeadAt(bytes, at))

(* A part of a sequence                                                    *)
LEMMA PartOf ==
  ASSUME NEW S, NEW s \in Seq(S), NEW at \in Nat, NEW n \in Nat, at + n <= Len(s)
  PROVE  LET p == SubSeq(s, at + 1, at + n) IN
         p \in Seq(S) /\ Len(p) = n /\ \A k \in 1 .. n : p[k] = s[at + k]
<1> DEFINE p == SubSeq(s, at + 1, at + n)
<1>1. CASE n = 0
  <2>1. at + n = at /\ at + 1 > at
    BY <1>1
  <2>2. SubSeq(s, at + 1, at) = <<>>
    OBVIOUS
  <2>3. p = <<>>
    BY <2>1, <2>2, Zenon
  <2> HIDE DEF p
  <2> QED
    BY <1>1, <2>3 DEF p
<1>2. CASE n > 0
  <2>1. /\ at + 1 \in Int /\ at + n \in Int
        /\ at + 1 <= at + n /\ \A k \in at + 1 .. at + n : s[k] \in S
    BY <1>2
  <2> DEFINE a == at + 1  b == at + n
  <2>2. /\ SubSeq(s, a, b) \in Seq(S)
        /\ Len(SubSeq(s, a, b)) = IF a <= b THEN b - a + 1 ELSE 0
        /\ \A k \in 1 .. b - a + 1 : SubSeq(s, a, b)[k] = s[a + k - 1]
    <3> HIDE DEF a, b
    <3>1. a \in Int /\ b \in Int /\ a <= b /\ \A k \in a .. b : s[k] \in S
      BY <2>1 DEF a, b
    <3> QED
      BY <3>1, SubSeqProperties
  <2>3. b - a + 1 = n /\ a <= b /\ \A k \in 1 .. n : a + k - 1 = at + k
    BY <1>2
  <2>4. p = SubSeq(s, a, b)
    OBVIOUS
  <2> HIDE DEF p, a, b
  <2> QED
    BY <2>2, <2>3, <2>4 DEF p
<1> QED
  BY <1>1, <1>2

LEMMA FrontOf ==
  ASSUME NEW S, NEW s \in Seq(S), NEW n \in Nat, n <= Len(s)
  PROVE  LET p == SubSeq(s, 1, n) IN
         p \in Seq(S) /\ Len(p) = n /\ \A k \in 1 .. n : p[k] = s[k]
<1> DEFINE b == 0 + n  at == 0  p == SubSeq(s, at + 1, at + n)
<1>1. at \in Nat /\ at + n <= Len(s) /\ \A k \in 1 .. n : at + k = k
  OBVIOUS
<1>2. SubSeq(s, 1, n) = p
  <2>1. at + 1 = 1 /\ at + n = n
    OBVIOUS
  <2> HIDE DEF at
  <2> QED
    BY <2>1
<1> HIDE DEF at
<1>3. p \in Seq(S) /\ Len(p) = n /\ \A k \in 1 .. n : p[k] = s[at + k]
  BY <1>1, PartOf
<1> HIDE DEF p
<1> QED
  BY <1>1, <1>2, <1>3

LEMMA HeadAtIs ==
  ASSUME NEW bytes \in Seq(Bytes), NEW at \in Nat, at < Len(bytes),
         at + LengthOf(bytes[at + 1]) <= Len(bytes)
  PROVE  /\ bytes[at + 1] \in Bytes
         /\ HeadAt(bytes, at) \in Seq(Bytes) /\ Len(HeadAt(bytes, at)) = LengthOf(bytes[at + 1])
         /\ HeadAt(bytes, at)[1] = bytes[at + 1]
         /\ ValueAt(bytes, at) \in Nat
<1> DEFINE byte == bytes[at + 1]
           h == HeadAt(bytes, at)
<1>1. byte \in Bytes
  BY DEF byte
<1>2. LengthOf(byte) \in 1 .. 9 /\ InfoOf(byte) \in 0 .. 31
  BY <1>1, FirstByteSays
<1>3. h \in Seq(Bytes) /\ Len(h) = LengthOf(byte) /\ \A k \in 1 .. LengthOf(byte) : h[k] = bytes[at + k]
  <2> DEFINE n == LengthOf(byte)
  <2>1. n \in Nat /\ at + n <= Len(bytes)
    BY <1>2
  <2>2. h = SubSeq(bytes, at + 1, at + n)
    BY DEF HeadAt
  <2> HIDE DEF n, h
  <2>3. h \in Seq(Bytes) /\ Len(h) = n /\ \A k \in 1 .. n : h[k] = bytes[at + k]
    BY <2>1, <2>2, PartOf
  <2> QED
    BY <2>3 DEF n
<1>4. h[1] = byte
  BY <1>2, <1>3
<1>5. ValueAt(bytes, at) = IF Len(h) = 1 THEN InfoOf(h[1]) ELSE Load(SubSeq(h, 2, Len(h)))
  BY Zenon DEF ValueAt, SlowValue
<1> HIDE DEF h
<1>6. ValueAt(bytes, at) \in Nat
  <2>1. CASE Len(h) = 1
    <3>1. ValueAt(bytes, at) = InfoOf(byte)
      BY <1>4, <1>5, <2>1, Zenon
    <3>2. \A n \in 0 .. 31 : n \in Nat
      OBVIOUS
    <3> QED
      BY <1>2, <3>1, <3>2, Zenon
  <2>2. CASE Len(h) # 1
    <3>1. SubSeq(h, 1 + 1, Len(h)) \in Seq(Bytes)
      BY <1>2, <1>3, <2>2
    <3>2. 1 + 1 = 2
      OBVIOUS
    <3> QED
      BY <1>5, <2>2, <3>1, <3>2, LoadType
  <2> QED
    BY <2>1, <2>2
<1> QED
  BY <1>1, <1>3, <1>4, <1>6 DEF h

LEMMA BufferedIs ==
  ASSUME NEW src \in Inputs, NEW n \in Nat, src.at + n <= Len(src.bytes)
  PROVE  /\ Buffered(src, n) \in Seq(Bytes) /\ Len(Buffered(src, n)) = n
         /\ \A k \in 1 .. n : Buffered(src, n)[k] = src.bytes[src.at + k]
<1> DEFINE s == src.bytes  at == src.at
<1>1. s \in Seq(Bytes) /\ at \in Nat
  BY InputIs
<1>2. Buffered(src, n) = SubSeq(s, at + 1, at + n)
  BY DEF Buffered
<1>3. at + n <= Len(s)
  OBVIOUS
<1> HIDE DEF s, at
<1>4. LET p == SubSeq(s, at + 1, at + n) IN
      p \in Seq(Bytes) /\ Len(p) = n /\ \A k \in 1 .. n : p[k] = s[at + k]
  BY <1>1, <1>3, PartOf
<1> QED
  BY <1>2, <1>4, Zenon DEF s, at

(* What may come of parsing a head                                         *)
HeadParsed(src, r) ==
  LET byte == src.bytes[src.at + 1]
      value == ValueAt(src.bytes, src.at)
      complete == src.at < Len(src.bytes) /\ src.at + LengthOf(byte) <= Len(src.bytes)
      refused == ~WellFormedInfo(byte) \/ (complete /\ Forbidden(byte, value)) IN
  /\ IsResult(r) /\ Onward(src, r.in)
  /\ \/ /\ r.rx = "ok" /\ complete /\ ~refused
        /\ r.value = ItemHead(byte, value) /\ r.in.at = src.at + LengthOf(byte)
     \/ r.rx = "end_of_stream" /\ ~complete
     \/ r.rx = "bad" /\ src.kind = "stream"
     \/ r.rx = "invalid_additional_information" /\ src.at < Len(src.bytes) /\ refused

LEMMA TakeHeadOutcome ==
  ASSUME NEW src \in Inputs, LengthOf(src.bytes[src.at + 1]) <= src.window, src.window > 0,
         WellFormedInfo(src.bytes[src.at + 1]),
         NEW r \in TakeHead(src, ValueAt(src.bytes, src.at))
  PROVE  HeadParsed(src, r)
<1> DEFINE byte == src.bytes[src.at + 1]
           value == ValueAt(src.bytes, src.at)
<1>1. /\ src.at \in Nat /\ src.window \in Nat /\ src.bytes \in Seq(Bytes) /\ Len(src.bytes) \in Nat
      /\ src.at + src.window <= Len(src.bytes)
  BY InputIs
<1>2. src.at < Len(src.bytes)
  BY <1>1
<1>3. byte \in Bytes
  BY <1>1, <1>2
<1>4. LengthOf(byte) \in 1 .. 9
  BY <1>3, FirstByteSays
<1>5. src.at + LengthOf(byte) <= Len(src.bytes)
  <2> DEFINE n == LengthOf(byte)
  <2>1. n \in Nat /\ n <= src.window
    BY <1>4
  <2> HIDE DEF n
  <2>2. src.at + n <= Len(src.bytes)
    BY <1>1, <2>1
  <2> QED
    BY <2>2 DEF n
<1>6. CASE Forbidden(byte, value)
  <2>1. r = Result(src, "invalid_additional_information", <<>>, 0)
    BY <1>6, FailIs DEF TakeHead
  <2> QED
    BY <1>2, <1>5, <1>6, <2>1, ResultFields, OnwardItself DEF HeadParsed
<1>7. CASE ~Forbidden(byte, value)
  <2>1. r = Result(DiscardBuffered(src, LengthOf(byte)), "ok", ItemHead(byte, value), 0)
    BY <1>7, OkIs DEF TakeHead
  <2>2. /\ Onward(src, DiscardBuffered(src, LengthOf(byte)))
        /\ DiscardBuffered(src, LengthOf(byte)).at = src.at + LengthOf(byte)
    BY <1>4, DiscardIs
  <2>3. /\ IsResult(r) /\ r.in = DiscardBuffered(src, LengthOf(byte)) /\ r.rx = "ok"
        /\ r.value = ItemHead(byte, value)
    BY <2>1, ResultFields
  <2> QED
    BY <1>2, <1>5, <1>7, <2>2, <2>3 DEF HeadParsed
<1> QED
  BY <1>6, <1>7

(* do_parse_item_head takes the head that is there, on both of its paths.  *)
LEMMA ParseBufferedOutcome ==
  ASSUME NEW src \in Inputs, src.window > 0, NEW r \in ParseBufferedHead(src)
  PROVE  HeadParsed(src, r)
<1> DEFINE byte == src.bytes[src.at + 1]
           value == ValueAt(src.bytes, src.at)
<1>1. /\ src.at \in Nat /\ src.window \in Nat /\ src.bytes \in Seq(Bytes) /\ Len(src.bytes) \in Nat
      /\ src.at + src.window <= Len(src.bytes) /\ InputSize(src) = Len(src.bytes) - src.at
  BY InputIs
<1>2. src.at < Len(src.bytes)
  BY <1>1
<1>3. byte \in Bytes
  BY <1>1, <1>2
<1>4. LengthOf(byte) \in 1 .. 9 /\ InfoOf(byte) \in 0 .. 31
  BY <1>3, FirstByteSays
<1>5. CASE ~WellFormedInfo(byte)
  <2>1. r = Result(src, "invalid_additional_information", <<>>, 0)
    BY <1>5, FailIs DEF ParseBufferedHead
  <2> QED
    BY <1>2, <1>5, <2>1, ResultFields, OnwardItself DEF HeadParsed
<1>6. CASE WellFormedInfo(byte) /\ src.window >= VarUintMax
  <2> DEFINE nine == Buffered(src, VarUintMax)
  <2>1. VarUintMax \in Nat /\ VarUintMax = 9
    BY DEF VarUintMax
  <2>2. nine \in Seq(Bytes) /\ Len(nine) = VarUintMax /\ \A k \in 1 .. VarUintMax : nine[k] = src.bytes[src.at + k]
    <3>1. src.at + VarUintMax <= Len(src.bytes)
      BY <1>1, <1>6, <2>1
    <3> QED
      BY <2>1, <3>1, BufferedIs
  <2>3. nine[1] = byte
    BY <2>1, <2>2
  <2>4. FastValue(nine) = value
    <3>1. CASE InfoOf(byte) <= 27
      <4>1. FastValue(nine) = SlowValue(SubSeq(nine, 1, LengthOf(byte)))
        <5> HIDE DEF nine
        <5> QED
          BY <2>2, <2>3, <3>1, ParsersAgree
      <4>2. SubSeq(nine, 1, LengthOf(byte)) = HeadAt(src.bytes, src.at)
        <5> DEFINE n == LengthOf(byte)
                   a == SubSeq(nine, 1, n)
                   b == Buffered(src, n)
        <5> HIDE DEF nine
        <5>1. n \in Nat /\ n <= 9
          BY <1>4
        <5> HIDE DEF n
        <5>2. n <= Len(nine) /\ src.at + n <= Len(src.bytes)
          <6>1. src.at + 9 <= Len(src.bytes)
            BY <1>1, <1>6, <2>1
          <6>2. Len(nine) = 9
            BY <2>1, <2>2, Zenon
          <6>3. src.at \in Nat /\ Len(src.bytes) \in Nat
            BY <1>1
          <6> QED
            BY <5>1, <6>1, <6>2, <6>3
        <5>3. a \in Seq(Bytes) /\ Len(a) = n /\ \A k \in 1 .. n : a[k] = nine[k]
          BY <2>2, <5>1, <5>2, FrontOf
        <5>4. b \in Seq(Bytes) /\ Len(b) = n /\ \A k \in 1 .. n : b[k] = src.bytes[src.at + k]
          BY <5>1, <5>2, BufferedIs
        <5>5. \A k \in 1 .. n : a[k] = b[k]
          <6>1. \A k \in 1 .. n : k \in 1 .. VarUintMax
            BY <5>1, <2>1
          <6> QED
            BY <2>2, <5>3, <5>4, <6>1
        <5>6. a = b
          <6> HIDE DEF a, b
          <6> QED
            BY <5>3, <5>4, <5>5
        <5> QED
          BY <5>6, Zenon DEF HeadAt, n, Buffered
      <4> QED
        BY <4>1, <4>2, Zenon DEF ValueAt
    <3>2. CASE ~(InfoOf(byte) <= 27)
      <4>1. LengthOf(byte) = 1
        <5>1. InfoOf(byte) \notin 24 .. 27
          BY <1>4, <3>2
        <5> QED
          BY <1>3, <5>1, FirstByteSays
      <4>2. FastValue(nine) = InfoOf(byte)
        <5> HIDE DEF nine
        <5> QED
          BY <2>3, <4>1, Zenon DEF FastValue
      <4>3. src.at + LengthOf(byte) <= Len(src.bytes)
        BY <1>1, <1>2, <4>1
      <4>4. /\ Len(HeadAt(src.bytes, src.at)) = LengthOf(byte)
            /\ HeadAt(src.bytes, src.at)[1] = byte
        BY <1>1, <1>2, <4>3, HeadAtIs
      <4>5. value = InfoOf(byte)
        BY <4>1, <4>4, Zenon DEF ValueAt, SlowValue
      <4> QED
        BY <4>2, <4>5
    <3> QED
      BY <3>1, <3>2
  <2>5. r \in TakeHead(src, value)
    <3>1. r \in TakeHead(src, FastValue(nine))
      BY <1>6, Zenon DEF ParseBufferedHead
    <3> QED
      BY <2>4, <3>1
  <2>6. LengthOf(byte) <= src.window
    BY <1>1, <1>4, <1>6, <2>1
  <2> QED
    BY <1>6, <2>5, <2>6, TakeHeadOutcome
<1>7. CASE WellFormedInfo(byte) /\ ~(src.window >= VarUintMax)
  <2>1. PICK s \in RequireInput(src, LengthOf(byte)) :
          r \in IF s.rx = "ok" THEN TakeHead(s.in, SlowValue(Buffered(s.in, LengthOf(byte)))) ELSE {s}
    BY <1>7, Zenon DEF ParseBufferedHead, Then
  <2>2. LengthOf(byte) \in Nat
    BY <1>4
  <2>3. /\ IsResult(s) /\ Onward(src, s.in) /\ s.in.at = src.at
        /\ \/ s.rx = "ok" /\ LengthOf(byte) <= s.in.window
           \/ s.rx = "end_of_stream" /\ LengthOf(byte) > InputSize(src)
           \/ s.rx = "bad" /\ src.kind = "stream"
    BY <2>1, <2>2, RequireOutcome
  <2>4. CASE s.rx = "ok"
    <3>1. s.in \in Inputs /\ s.in.bytes = src.bytes /\ LengthOf(byte) <= s.in.window /\ s.in.window > 0
      <4>1. s.in \in Inputs /\ s.in.bytes = src.bytes /\ LengthOf(byte) <= s.in.window
        BY <2>3, <2>4 DEF Onward
      <4>2. s.in.window \in Nat
        BY <4>1, InputIs
      <4> QED
        BY <1>4, <4>1, <4>2
    <3>2. r \in TakeHead(s.in, ValueAt(s.in.bytes, s.in.at))
      BY <2>1, <2>3, <2>4, <3>1, Zenon DEF ValueAt, HeadAt, Buffered
    <3>3. HeadParsed(s.in, r)
      BY <1>7, <2>3, <3>1, <3>2, TakeHeadOutcome
    <3>4. s.in.kind = src.kind
      BY <2>3 DEF Onward
    <3>5. Onward(src, r.in)
      <4>1. Onward(s.in, r.in)
        BY <3>3 DEF HeadParsed
      <4> QED
        BY <2>3, <4>1, OnwardTwice
    <3> QED
      BY <2>3, <3>1, <3>3, <3>4, <3>5 DEF HeadParsed
  <2>5. CASE s.rx # "ok"
    <3>1. r = s
      BY <2>1, <2>5
    <3>2. s.rx = "end_of_stream" => ~(src.at + LengthOf(byte) <= Len(src.bytes))
      BY <1>1, <2>2, <2>3
    <3> QED
      BY <2>3, <2>5, <3>1, <3>2 DEF HeadParsed
  <2> QED
    BY <2>4, <2>5
<1> QED
  BY <1>5, <1>6, <1>7

LEMMA ParseHeadOutcome ==
  ASSUME NEW src \in Inputs, NEW r \in ParseHead(src)
  PROVE  HeadParsed(src, r)
<1>1. /\ src.at \in Nat /\ src.window \in Nat /\ Len(src.bytes) \in Nat
      /\ src.at + src.window <= Len(src.bytes) /\ InputSize(src) = Len(src.bytes) - src.at
  BY InputIs
<1>2. PICK s \in IF src.window = 0 THEN RequireInput(src, 1) ELSE Ok(src, <<>>) :
        r \in IF s.rx = "ok" THEN ParseBufferedHead(s.in) ELSE {s}
  BY Zenon DEF ParseHead, Then
<1>3. /\ IsResult(s) /\ Onward(src, s.in) /\ s.in.at = src.at
      /\ \/ s.rx = "ok" /\ s.in.window > 0
         \/ s.rx = "end_of_stream" /\ 1 > InputSize(src)
         \/ s.rx = "bad" /\ src.kind = "stream"
  <2>1. CASE src.window = 0
    <3>1. s \in RequireInput(src, 1) /\ 1 \in Nat
      BY <1>2, <2>1
    <3>2. /\ IsResult(s) /\ Onward(src, s.in) /\ s.in.at = src.at
          /\ \/ s.rx = "ok" /\ 1 <= s.in.window
             \/ s.rx = "end_of_stream" /\ 1 > InputSize(src)
             \/ s.rx = "bad" /\ src.kind = "stream"
      BY <3>1, RequireOutcome
    <3>3. s.in.window \in Nat
      BY <3>2, InputIs DEF Onward
    <3> QED
      BY <3>2, <3>3
  <2>2. CASE src.window # 0
    <3>1. s = Result(src, "ok", <<>>, 0)
      BY <1>2, <2>2, OkIs
    <3>2. src.window > 0
      BY <1>1, <2>2
    <3> QED
      BY <3>1, <3>2, ResultFields, OnwardItself
  <2> QED
    BY <2>1, <2>2
<1>4. s.in \in Inputs /\ s.in.bytes = src.bytes /\ s.in.kind = src.kind
  BY <1>3 DEF Onward
<1>5. CASE s.rx = "ok"
  <2>1. HeadParsed(s.in, r)
    BY <1>2, <1>3, <1>4, <1>5, ParseBufferedOutcome
  <2>2. Onward(src, r.in)
    <3>1. Onward(s.in, r.in)
      BY <2>1 DEF HeadParsed
    <3> QED
      BY <1>3, <3>1, OnwardTwice
  <2> QED
    BY <1>3, <1>4, <2>1, <2>2 DEF HeadParsed
<1>6. CASE s.rx # "ok"
  <2>1. r = s
    BY <1>2, <1>6
  <2>2. s.rx = "end_of_stream" => ~(src.at < Len(src.bytes))
    BY <1>1, <1>3
  <2> QED
    BY <1>3, <1>6, <2>1, <2>2 DEF HeadParsed
<1> QED
  BY <1>5, <1>6
=============================================================================
