----------------------------- MODULE Recursion ------------------------------
(***************************************************************************)
(* Induction and recursion over a measure.  The induction theorems of the  *)
(* library are about operators; here what is said of the elements is a     *)
(* set, and the body of a recursive definition a function, so that the     *)
(* theorems are about values only.                                         *)
(***************************************************************************)
EXTENDS Integers, WellFoundedInduction, TLAPS

(* A set of numbers that is not empty has a least element.                 *)
THEOREM LeastNumber ==
  ASSUME NEW T \in SUBSET Nat, T # {}
  PROVE  \E x \in T : \A y \in T : x <= y
<1> DEFINE R == {p \in Nat \X Nat : p[1] < p[2]}
<1>1. IsWellFoundedOn(R, Nat)
  BY NatLessThanWellFounded DEF OpToRel
<1> HIDE DEF R
<1>2. PICK x \in T : \A y \in T : ~(<<y, x>> \in R)
  BY <1>1, WFMin
<1>3. \A y \in T : y < x => <<y, x>> \in R
  BY DEF R
<1>4. ASSUME NEW y \in T PROVE x <= y
  <2>1. x \in Nat /\ y \in Nat
    OBVIOUS
  <2>2. ~(y < x)
    BY <1>2, <1>3
  <2> QED
    BY <2>1, <2>2
<1> QED
  BY <1>4

(* A set of numbers with 0 and the successors of its numbers has them all. *)
THEOREM NumberInduction ==
  ASSUME NEW T, 0 \in T, \A n \in Nat : n \in T => n + 1 \in T
  PROVE  \A n \in Nat : n \in T
<1> SUFFICES ASSUME Nat \ T # {} PROVE FALSE
  OBVIOUS
<1>1. PICK x \in Nat \ T : \A y \in Nat \ T : x <= y
  <2>1. Nat \ T \in SUBSET Nat
    OBVIOUS
  <2> QED
    BY <2>1, LeastNumber
<1>2. x # 0 /\ x \in Nat
  OBVIOUS
<1>3. x - 1 \in Nat /\ ~(x <= x - 1) /\ (x - 1) + 1 = x
  BY <1>2
<1>4. x - 1 \in T
  BY <1>1, <1>3
<1> QED
  BY <1>3, <1>4

(* Of the elements of a set that do not belong to T one has the least      *)
(* measure: if that is impossible all belong to T.                         *)
THEOREM MeasureInduction ==
  ASSUME NEW D, NEW m \in [D -> Nat], NEW T,
         \A x \in D : (\A y \in D : m[y] < m[x] => y \in T) => x \in T
  PROVE  \A x \in D : x \in T
<1> SUFFICES ASSUME NEW z \in D \ T PROVE FALSE
  OBVIOUS
<1> DEFINE M == {m[x] : x \in D \ T}
<1>1. M \in SUBSET Nat /\ M # {}
  OBVIOUS
<1>2. PICK k \in M : \A l \in M : k <= l
  BY <1>1, LeastNumber
<1>3. PICK x \in D \ T : k = m[x]
  OBVIOUS
<1>4. ASSUME NEW y \in D, m[y] < m[x] PROVE y \in T
  <2>1. m[y] \in Nat /\ m[x] \in Nat
    OBVIOUS
  <2> QED
    BY <1>2, <1>3, <1>4, <2>1
<1> QED
  BY <1>3, <1>4

-----------------------------------------------------------------------------
LEMMA AtMost ==
  ASSUME NEW n \in Nat, NEW k \in Nat, k <= n
  PROVE  k = n \/ k < n
OBVIOUS

(* F is the body of a recursive definition over D: F[x][g] is the value at *)
(* x in terms of a function g, and depends on g at the elements of D that  *)
(* have a smaller measure m only.  V[x] are the values it may have, G the  *)
(* functions with such values.                                             *)
IsBody(D, m, W, V, G, F) ==
  /\ m \in [D -> Nat] /\ V \in [D -> SUBSET W]
  /\ G = {g \in [D -> W] : \A x \in D : g[x] \in V[x]} /\ G # {}
  /\ F \in [D -> [G -> W]]
  /\ \A x \in D, g \in G : F[x][g] \in V[x]
  /\ \A x \in D, g, h \in G :
       (\A y \in D : m[y] < m[x] => g[y] = h[y]) => F[x][g] = F[x][h]

(* Such a definition has a solution.                                       *)
THEOREM MeasureRecursion ==
  ASSUME NEW D, NEW m, NEW W, NEW V, NEW G, NEW F, IsBody(D, m, W, V, G, F)
  PROVE  \E f \in G : \A x \in D : f[x] = F[x][f]
<1> USE DEF IsBody
<1> DEFINE Upto(n, g) == \A x \in D : m[x] < n => g[x] = F[x][g]
           N == {n \in Nat : \E g \in G : Upto(n, g)}
<1>1. \A n \in Nat : \E g \in G : Upto(n, g)
  <2>1. 0 \in N
    <3>1. \A x \in D : ~(m[x] < 0)
      OBVIOUS
    <3> QED
      BY <3>1
  <2>2. ASSUME NEW n \in Nat, n \in N PROVE n + 1 \in N
    <3>1. PICK g \in G : Upto(n, g)
      BY <2>2
    <3> DEFINE h == [x \in D |-> IF m[x] = n THEN F[x][g] ELSE g[x]]
    <3>2. h \in G
      OBVIOUS
    <3>3. \A x \in D : m[x] < n => h[x] = g[x]
      OBVIOUS
    <3>4. \A x \in D : m[x] = n => h[x] = F[x][g]
      OBVIOUS
    <3> HIDE DEF h
    <3>5. ASSUME NEW x \in D, m[x] < n + 1 PROVE h[x] = F[x][h]
      <4>1. m[x] \in Nat /\ m[x] <= n
        BY <3>5
      <4>2. \A y \in D : m[y] < m[x] => g[y] = h[y]
        <5>1. \A y \in D : m[y] \in Nat
          OBVIOUS
        <5> QED
          BY <3>3, <4>1, <5>1
      <4>3. F[x][g] = F[x][h]
        BY <3>2, <4>2
      <4>4. CASE m[x] = n
        BY <3>4, <4>3, <4>4
      <4>5. CASE m[x] < n
        <5>1. h[x] = g[x]
          BY <3>3, <4>5
        <5>2. g[x] = F[x][g]
          BY <3>1, <4>5
        <5> QED
          BY <4>3, <5>1, <5>2
      <4>6. m[x] = n \/ m[x] < n
        BY <4>1, AtMost
      <4> QED
        BY <4>4, <4>5, <4>6
    <3> QED
      BY <3>2, <3>5
  <2> HIDE DEF N
  <2>3. \A n \in Nat : n \in N
    BY <2>1, <2>2, NumberInduction
  <2> QED
    BY <2>3 DEF N
<1> DEFINE U(n) == {g \in G : Upto(n, g)}
<1>2. ASSUME NEW n \in Nat, NEW k \in Nat, NEW g \in U(n), NEW h \in U(k)
      PROVE  \A x \in D : m[x] < n /\ m[x] < k => g[x] = h[x]
  <2> DEFINE T == {x \in D : m[x] < n /\ m[x] < k => g[x] = h[x]}
  <2>1. ASSUME NEW x \in D, \A y \in D : m[y] < m[x] => y \in T
        PROVE  x \in T
    <3> SUFFICES ASSUME m[x] < n, m[x] < k PROVE g[x] = h[x]
      OBVIOUS
    <3>1. \A y \in D : m[y] < m[x] => g[y] = h[y]
      <4>1. m[x] \in Nat /\ \A y \in D : m[y] \in Nat
        OBVIOUS
      <4> QED
        BY <2>1, <4>1
    <3> QED
      BY <1>2, <3>1
  <2> HIDE DEF T
  <2>2. \A x \in D : x \in T
    BY <2>1, MeasureInduction
  <2> QED
    BY <2>2 DEF T
<1> DEFINE A(n) == CHOOSE f \in G : Upto(n, f)
           f == [x \in D |-> A(m[x] + 1)[x]]
<1>3. \A n \in Nat : A(n) \in G /\ Upto(n, A(n))
  BY <1>1
<1>4. f \in G
  <2>1. ASSUME NEW x \in D PROVE f[x] \in W /\ f[x] \in V[x]
    <3>1. m[x] + 1 \in Nat
      OBVIOUS
    <3> HIDE DEF A
    <3> QED
      BY <1>3, <3>1
  <2> HIDE DEF A
  <2> QED
    BY <2>1
<1>5. ASSUME NEW x \in D PROVE f[x] = F[x][f]
  <2> DEFINE h == A(m[x] + 1)
  <2>1. m[x] \in Nat /\ m[x] + 1 \in Nat /\ m[x] < m[x] + 1
    OBVIOUS
  <2>2. h \in G /\ Upto(m[x] + 1, h)
    BY <1>3, <2>1
  <2>3. f[x] = h[x] /\ h[x] = F[x][h]
    BY <2>1, <2>2
  <2>4. ASSUME NEW y \in D, m[y] < m[x] PROVE h[y] = f[y]
    <3>1. m[y] + 1 \in Nat /\ m[y] < m[y] + 1 /\ m[y] < m[x] + 1
      BY <2>1, <2>4
    <3>2. A(m[y] + 1) \in G /\ Upto(m[y] + 1, A(m[y] + 1))
      BY <1>3, <3>1
    <3>3. f[y] = A(m[y] + 1)[y]
      OBVIOUS
    <3> DEFINE k == A(m[y] + 1)
               a == m[x] + 1
               b == m[y] + 1
    <3> HIDE DEF h, f, A
    <3>4. k \in U(b) /\ h \in U(a)
      BY <2>2, <3>2
    <3>5. a \in Nat /\ b \in Nat /\ m[y] < a /\ m[y] < b
      BY <2>1, <3>1
    <3> HIDE DEF k, a, b, U
    <3>6. h[y] = k[y]
      BY <1>2, <3>4, <3>5
    <3> QED
      BY <3>3, <3>6 DEF k
  <2> HIDE DEF h, f, A
  <2> QED
    BY <1>4, <2>2, <2>3, <2>4
<1> HIDE DEF f
<1> QED
  BY <1>4, <1>5

-----------------------------------------------------------------------------
(* A value computed in n steps: H[<<k, x>>] is what step k makes of x.     *)
(* There is exactly one sequence of intermediate results.                  *)
IsRun(f, V, n, a, H) ==
  /\ f \in [0 .. n -> V]
  /\ f[0] = a
  /\ \A k \in 1 .. n : f[k] = H[<<k, f[k - 1]>>]

THEOREM Iteration ==
  ASSUME NEW V, NEW n \in Nat, NEW a \in V, NEW H \in [(1 .. n) \X V -> V]
  PROVE  /\ \E f : IsRun(f, V, n, a, H)
         /\ \A f, g : IsRun(f, V, n, a, H) /\ IsRun(g, V, n, a, H) => f = g
<1>1. \E f : IsRun(f, V, n, a, H)
  <2> DEFINE R(m, f) == /\ f \in [0 .. m -> V]
                        /\ f[0] = a
                        /\ \A k \in 1 .. m : f[k] = H[<<k, f[k - 1]>>]
             T == {m \in Nat : m <= n => \E f : R(m, f)}
  <2>1. 0 \in T
    <3>1. R(0, [k \in 0 .. 0 |-> a])
      OBVIOUS
    <3> QED
      BY <3>1
  <2>2. ASSUME NEW m \in Nat, m \in T PROVE m + 1 \in T
    <3> SUFFICES ASSUME m + 1 <= n PROVE \E f : R(m + 1, f)
      OBVIOUS
    <3>1. PICK f : R(m, f)
      BY <2>2
    <3> DEFINE g == [k \in 0 .. m + 1 |-> IF k = m + 1 THEN H[<<m + 1, f[m]>>] ELSE f[k]]
    <3>2. f[m] \in V /\ <<m + 1, f[m]>> \in (1 .. n) \X V
      BY <3>1
    <3>3. H[<<m + 1, f[m]>>] \in V
      BY <3>2
    <3>4. g \in [0 .. m + 1 -> V]
      BY <3>1, <3>3
    <3>5. g[0] = a
      BY <3>1
    <3>6. ASSUME NEW k \in 1 .. m + 1 PROVE g[k] = H[<<k, g[k - 1]>>]
      <4>1. g[k - 1] = f[k - 1]
        OBVIOUS
      <4>2. CASE k = m + 1
        BY <4>1, <4>2
      <4>3. CASE k # m + 1
        <5>1. k \in 1 .. m /\ g[k] = f[k]
          BY <4>3
        <5> QED
          BY <3>1, <4>1, <5>1
      <4> QED
        BY <4>2, <4>3
    <3> QED
      BY <3>4, <3>5, <3>6
  <2> HIDE DEF T
  <2>3. \A m \in Nat : m \in T
    BY <2>1, <2>2, NumberInduction
  <2>4. PICK f : R(n, f)
    <3>1. n \in T /\ n <= n
      BY <2>3
    <3> QED
      BY <3>1 DEF T
  <2>5. IsRun(f, V, n, a, H)
    BY <2>4 DEF IsRun
  <2> QED
    BY <2>5
<1>2. ASSUME NEW f, NEW g, IsRun(f, V, n, a, H), IsRun(g, V, n, a, H)
      PROVE  f = g
  <2> DEFINE T == {k \in Nat : k <= n => f[k] = g[k]}
  <2>1. 0 \in T
    BY <1>2 DEF IsRun
  <2>2. ASSUME NEW k \in Nat, k \in T PROVE k + 1 \in T
    <3>1. CASE k + 1 <= n
      <4>1. k + 1 \in 1 .. n /\ (k + 1) - 1 = k
        BY <3>1
      <4>2. f[k] = g[k]
        BY <2>2, <3>1
      <4>3. f[k + 1] = H[<<k + 1, f[k]>>]
        BY <1>2, <4>1 DEF IsRun
      <4>4. g[k + 1] = H[<<k + 1, g[k]>>]
        BY <1>2, <4>1 DEF IsRun
      <4> QED
        BY <4>2, <4>3, <4>4
    <3>2. CASE ~(k + 1 <= n)
      BY <3>2
    <3> QED
      BY <3>1, <3>2
  <2> HIDE DEF T
  <2>3. \A k \in Nat : k \in T
    BY <2>1, <2>2, NumberInduction
  <2>4. \A k \in 0 .. n : f[k] = g[k]
    BY <2>3 DEF T
  <2> QED
    BY <1>2, <2>4 DEF IsRun
<1> QED
  BY <1>1, <1>2
=============================================================================
